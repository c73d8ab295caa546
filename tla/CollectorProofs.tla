-------------------------- MODULE CollectorProofs ---------------------------
(***************************************************************************)
(* Proofs about Buffer and Collector, for any buffers, addresses, strings, *)
(* width of size_t and word size, and with realloc failing, moving or      *)
(* growing blocks in any order: every block has one owner, the contents of *)
(* a buffer are what was appended to it, cx_collect returns what the       *)
(* iterator yielded, and a call that fails changes nothing.                *)
(***************************************************************************)
EXTENDS Collector, FiniteSetTheorems, WellFoundedInduction, TLAPS

\* The values of a CxBuffer.
BufferSet == [data : Addrs \cup {0}, size : Nat, capacity : Nat]

\* A sequence, of whatever its elements are.
IsSeq(s) == s \in Seq({s[i] : i \in DOMAIN s})

\* A block for every address.
IsHeap(h) == h = [a \in Addrs |-> h[a]]

\* The structures and the blocks, mn of which callers own.  A structure that
\* has a block describes it and is its only owner.
MemOK(m, mn) ==
    /\ m = [buf |-> m.buf, heap |-> m.heap]
    /\ m.buf \in [Buffers -> BufferSet]
    /\ IsHeap(m.heap)
    /\ \A a \in Addrs : IsSeq(m.heap[a])
    /\ mn \subseteq Addrs
    /\ \A b \in Buffers :
          /\ m.buf[b].data = 0 => m.buf[b].capacity = 0
          /\ m.buf[b].data # 0 => /\ m.buf[b].capacity = Len(m.heap[m.buf[b].data])
                                  /\ m.buf[b].capacity > 0
                                  /\ m.buf[b].data \notin mn
          /\ m.buf[b].size <= m.buf[b].capacity
          /\ m.buf[b].capacity <= SIZE_MAX
    /\ \A b, c \in Buffers : m.buf[b].data # 0 /\ m.buf[b].data = m.buf[c].data => b = c
    /\ \A a \in mn : Len(m.heap[a]) > 0
    /\ \A a \in Addrs : Len(m.heap[a]) > 0 => a \in mn \/ \E b \in Buffers : m.buf[b].data = a

\* The contents of b are s.
Holds(m, b, s) ==
    /\ IsSeq(s)
    /\ Len(s) = m.buf[b].size
    /\ \A i \in 1 .. Len(s) : s[i] = m.heap[m.buf[b].data][i]

\* What was appended to every buffer.
IsLog(lg) == lg = [b \in Buffers |-> lg[b]]

\* Memory, the blocks of the callers, the bytes they reserved and the log agree.
BufferOK(m, mn, sp, lg) ==
    /\ MemOK(m, mn)
    /\ sp \in [Buffers -> Nat]
    /\ \A b \in Buffers : m.buf[b].size + sp[b] <= m.buf[b].capacity
    /\ IsLog(lg)
    /\ \A b \in Buffers : Holds(m, b, lg[b])

BufferInv == BufferOK(mem, mine, spare, log)

\* The i-th word is the offset of the i-th string and its NUL in the text.
Laid(words, text, ys, i, offset) ==
    /\ \A p \in 1 .. WORD : words[(i - 1) * WORD + p] = [word |-> offset, part |-> p]
    /\ offset + Len(ys[i]) + 1 <= Len(text)
    /\ \A p \in 1 .. Len(ys[i]) : text[offset + p] = ys[i][p]
    /\ text[offset + Len(ys[i]) + 1] = NUL

\* While cx_collect runs, the array has a word for every string.
Layout(words, text, ys) ==
    /\ Len(words) = Len(ys) * WORD
    /\ \A i \in 1 .. Len(ys) : \E offset \in Nat : Laid(words, text, ys, i, offset)

\* The block at address a is what cx_collect promises for the strings ys.
Delivered(block, a, ys) ==
    /\ \A i \in 1 .. Len(ys) :
          LET from == WordAt(block, i - 1) - a
              to   == from + Len(ys[i]) + 1
          IN  /\ from >= 0 /\ to <= Len(block)
              /\ SubSeq(block, from + 1, to) = ys[i] \o <<NUL>>
    /\ SubSeq(block, Len(ys) * WORD + 1, (Len(ys) + 1) * WORD) = Word(0)

\* The buffers that cx_collect does not use.
OthersEmpty(m) == \A b \in Buffers \ {list, list_values} : m.buf[b] = Empty

CollectorInv ==
    /\ BufferInv
    /\ target \in mine \cup {0}
    /\ collecting \in BOOLEAN
    /\ rv \in {0, 1, ERR_ALLOC, ERR_OVERFLOW}
    /\ yielded \in Seq(Texts)
    /\ target = 0 /\ ~collecting => yielded = <<>>
    /\ collecting =>
          /\ target = 0
          /\ spare = NoSpare
          /\ OthersEmpty(mem)
          /\ Layout(log[list], log[list_values], yielded)
    /\ Collected

-----------------------------------------------------------------------------
\* Sequences.

\* A function on 1 .. n is a sequence.
LEMMA SeqMade ==
    ASSUME NEW n \in Nat, NEW s, s = [i \in 1 .. n |-> s[i]]
    PROVE  IsSeq(s) /\ Len(s) = n /\ DOMAIN s = 1 .. n
<1>1. DOMAIN s = 1 .. n
  OBVIOUS
<1>2. s \in [1 .. n -> {s[i] : i \in DOMAIN s}]
  BY <1>1
<1>3. s \in Seq({s[i] : i \in DOMAIN s})
  BY <1>2
<1>4. Len(s) = n
  BY <1>1, <1>3
<1> QED BY <1>1, <1>3, <1>4 DEF IsSeq

\* The elements of a sequence, and equality.
LEMMA SeqParts ==
    ASSUME NEW s, IsSeq(s)
    PROVE  Len(s) \in Nat /\ DOMAIN s = 1 .. Len(s) /\ s = [i \in 1 .. Len(s) |-> s[i]]
  BY DEF IsSeq

\* Sequences over a set are sequences.
LEMMA SeqOf ==
    ASSUME NEW S, NEW s \in Seq(S)
    PROVE  IsSeq(s)
<1>1. Len(s) \in Nat /\ s = [i \in 1 .. Len(s) |-> s[i]]
  OBVIOUS
<1> QED BY <1>1, SeqMade

\* Sequences with the same elements are the same.
LEMMA SeqSame ==
    ASSUME NEW s, NEW t, IsSeq(s), IsSeq(t), Len(s) = Len(t),
           \A i \in 1 .. Len(s) : s[i] = t[i]
    PROVE  s = t
<1>1. s = [i \in 1 .. Len(s) |-> s[i]] /\ t = [i \in 1 .. Len(s) |-> t[i]]
  BY SeqParts
<1> QED BY <1>1

\* Part of a sequence.
LEMMA SubSeqIs ==
    ASSUME NEW s, IsSeq(s), NEW k \in Nat \ {0}, NEW l \in Nat, k <= l + 1, l <= Len(s)
    PROVE  /\ IsSeq(SubSeq(s, k, l))
           /\ Len(SubSeq(s, k, l)) = l - k + 1
           /\ \A i \in 1 .. l - k + 1 : SubSeq(s, k, l)[i] = s[k + i - 1]
<1> DEFINE u == [i \in 1 .. (l - k + 1) |-> s[k + i - 1]]
<1>1. SubSeq(s, k, l) = u
  OBVIOUS
<1>2. l - k + 1 \in Nat
  OBVIOUS
<1>3. IsSeq(u) /\ Len(u) = l - k + 1
  BY <1>2, SeqMade
<1> QED BY <1>1, <1>3

\* A sequence behind another.
IsCat(u, s, t) ==
    /\ IsSeq(u)
    /\ Len(u) = Len(s) + Len(t)
    /\ \A i \in 1 .. Len(s) : u[i] = s[i]
    /\ \A i \in 1 .. Len(t) : u[Len(s) + i] = t[i]

\* What a concatenation is, entry by entry.
LEMMA CatIs ==
    ASSUME NEW s, NEW t, IsSeq(s), IsSeq(t), NEW u, u = s \o t
    PROVE  IsCat(u, s, t)
<1> DEFINE S == {s[i] : i \in DOMAIN s}
           T == {t[i] : i \in DOMAIN t}
<1>1. s \in Seq(S) /\ t \in Seq(T)
  BY DEF IsSeq
<1> HIDE DEF S, T
<1>2. s \in Seq(S \cup T) /\ t \in Seq(S \cup T)
  BY <1>1
<1>3. s \o t \in Seq(S \cup T)
  BY <1>2
<1>4. IsSeq(u)
  BY <1>3, SeqOf
<1>5. /\ Len(u) = Len(s) + Len(t)
      /\ \A i \in 1 .. Len(s) : u[i] = s[i]
      /\ \A i \in 1 .. Len(t) : u[Len(s) + i] = t[i]
  BY <1>2
<1> QED BY <1>4, <1>5 DEF IsCat

-----------------------------------------------------------------------------
\* The least element of a set.

\* A nonempty family of subsets of a finite set has a minimal member.
LEMMA MinimalSubset ==
    ASSUME NEW S, IsFiniteSet(S), NEW F \in SUBSET (SUBSET S), F # {}
    PROVE  \E T \in F : \A U \in F : ~(U \subseteq T /\ U # T)
<1>1. IsWellFoundedOn(StrictSubsetOrdering(S), FiniteSubsetsOf(S))
  BY FS_StrictSubsetOrderingWellFounded
<1>2. F \subseteq FiniteSubsetsOf(S)
  BY FS_Subset DEF FiniteSubsetsOf
<1>3. \E T \in F : \A U \in F : ~(<<U, T>> \in StrictSubsetOrdering(S))
  BY <1>1, <1>2, WFMin
<1>4. \A U, T \in F : U \subseteq T /\ U # T => <<U, T>> \in StrictSubsetOrdering(S)
  BY DEF StrictSubsetOrdering
<1> QED BY <1>3, <1>4

\* Every nonempty set of natural numbers has a least element, which is Min: the
\* end of the smallest interval 0 .. m that ends in the set.
LEMMA LeastIn ==
    ASSUME NEW S \in SUBSET Nat, S # {}
    PROVE  Min(S) \in S /\ \A y \in S : Min(S) <= y
<1>1. PICK n \in S : TRUE
  OBVIOUS
<1> DEFINE F == {0 .. m : m \in {l \in S : l <= n}}
<1>2. PICK T \in F : \A U \in F : ~(U \subseteq T /\ U # T)
  <2> DEFINE I == 0 .. n
  <2>1. IsFiniteSet(I)
    BY FS_Interval
  <2>2. F \in SUBSET (SUBSET I) /\ F # {}
    OBVIOUS
  <2> HIDE DEF F, I
  <2> QED BY <2>1, <2>2, MinimalSubset
<1>3. PICK m \in S : m <= n /\ T = 0 .. m
  BY <1>2
<1>4. ASSUME NEW y \in S PROVE m <= y
  <2>1. SUFFICES ASSUME y < m PROVE FALSE
    OBVIOUS
  <2>2. 0 .. y \in F
    BY <1>3, <2>1
  <2>3. 0 .. y \subseteq T /\ m \in T /\ m \notin 0 .. y
    BY <1>3, <2>1
  <2> QED BY <1>2, <2>2, <2>3
<1> QED BY <1>4 DEF Min

-----------------------------------------------------------------------------
\* Powers of two: the number of subsets of 1 .. n.

\* A power of two is a natural number, and a smaller one of a smaller exponent.
LEMMA PowersGrow ==
    ASSUME NEW k \in Nat, NEW n \in Nat, k < n
    PROVE  2^k \in Nat \ {0} /\ 2^n \in Nat /\ 2^k < 2^n
<1>1. /\ IsFiniteSet(1 .. k) /\ Cardinality(1 .. k) = k
      /\ IsFiniteSet(1 .. n) /\ Cardinality(1 .. n) = n
  BY FS_Interval
<1>2. /\ IsFiniteSet(SUBSET (1 .. k)) /\ Cardinality(SUBSET (1 .. k)) = 2^k
      /\ IsFiniteSet(SUBSET (1 .. n)) /\ Cardinality(SUBSET (1 .. n)) = 2^n
  BY <1>1, FS_SUBSET
<1>3. SUBSET (1 .. k) \subseteq SUBSET (1 .. n)
  OBVIOUS
<1>4. SUBSET (1 .. k) # SUBSET (1 .. n)
  <2>1. {n} \in SUBSET (1 .. n) /\ {n} \notin SUBSET (1 .. k)
    OBVIOUS
  <2> QED BY <2>1
<1>5. 2^k <= 2^n /\ 2^k # 2^n
  <2> DEFINE P == SUBSET (1 .. k)
             Q == SUBSET (1 .. n)
  <2>1. P \subseteq Q /\ P # Q /\ IsFiniteSet(Q) /\ Cardinality(P) = 2^k /\ Cardinality(Q) = 2^n
    BY <1>2, <1>3, <1>4
  <2> HIDE DEF P, Q
  <2>2. Cardinality(P) <= Cardinality(Q) /\ (Cardinality(P) = Cardinality(Q) => Q = P)
    BY <2>1, FS_Subset
  <2> QED BY <2>1, <2>2
<1>6. 2^k \in Nat /\ 2^n \in Nat
  BY <1>2, FS_CardinalityType
<1>7. 2^k # 0
  <2>1. SUBSET (1 .. k) # {}
    OBVIOUS
  <2> QED BY <1>2, <2>1, FS_EmptySet
<1> QED BY <1>5, <1>6, <1>7

\* SIZE_MAX is the largest number of SIZE_BITS bits.
LEMMA SizeMax ==
    /\ SIZE_MAX \in Nat \ {0}
    /\ \A k \in 0 .. SIZE_BITS - 1 : 2^k \in Nat \ {0} /\ 2^k <= SIZE_MAX
<1>1. SIZE_BITS \in Nat \ {0}
  BY BufferAssumption DEF BufferAssumption
<1>2. \A k \in 0 .. SIZE_BITS - 1 : 2^k \in Nat \ {0} /\ 2^SIZE_BITS \in Nat /\ 2^k < 2^SIZE_BITS
  BY <1>1, PowersGrow
<1>3. 0 \in 0 .. SIZE_BITS - 1
  BY <1>1
<1>4. PICK z : z = 2^SIZE_BITS
  OBVIOUS
<1>5. z \in Nat /\ SIZE_MAX = z - 1
  BY <1>2, <1>3, <1>4 DEF SIZE_MAX
<1>6. \A k \in 0 .. SIZE_BITS - 1 : 2^k \in Nat \ {0} /\ 2^k <= SIZE_MAX
  <2> SUFFICES ASSUME NEW k \in 0 .. SIZE_BITS - 1 PROVE 2^k \in Nat \ {0} /\ 2^k <= SIZE_MAX
    OBVIOUS
  <2>1. PICK y : y = 2^k
    OBVIOUS
  <2>2. y \in Nat \ {0} /\ y < z
    BY <1>2, <1>4, <2>1
  <2>3. y <= SIZE_MAX
    BY <1>5, <2>2
  <2> QED BY <2>1, <2>2, <2>3
<1>7. SIZE_MAX \in Nat \ {0}
  <2>1. PICK y : y = 2^0
    OBVIOUS
  <2>2. y \in Nat \ {0} /\ y <= SIZE_MAX
    BY <1>3, <1>6, <2>1
  <2> QED BY <1>5, <2>2
<1> QED BY <1>6, <1>7

\* round_to_next_pow2 overflows or returns a size that is not smaller.
LEMMA RoundsUp ==
    ASSUME NEW i \in Nat
    PROVE  \/ round_to_next_pow2(i) = ERR_OVERFLOW
           \/ /\ round_to_next_pow2(i) \in Nat
              /\ i <= round_to_next_pow2(i)
              /\ round_to_next_pow2(i) <= SIZE_MAX
<1>1. CASE i <= 1
  <2>1. round_to_next_pow2(i) = 1
    BY <1>1 DEF round_to_next_pow2
  <2> QED BY <1>1, <2>1, SizeMax
<1>2. CASE i > 1 /\ i - 1 >= 2^(SIZE_BITS - 1)
  BY <1>2 DEF round_to_next_pow2
<1>3. CASE i > 1 /\ ~(i - 1 >= 2^(SIZE_BITS - 1))
  <2> DEFINE S == {n \in 0 .. SIZE_BITS : i - 1 < 2^n}
  <2>1. SIZE_BITS \in Nat \ {0} /\ SIZE_BITS - 1 \in 0 .. SIZE_BITS - 1
    BY BufferAssumption DEF BufferAssumption
  <2>2. PICK z : z = 2^(SIZE_BITS - 1)
    OBVIOUS
  <2>3. z \in Nat
    BY <2>1, <2>2, SizeMax
  <2>4. i - 1 < z
    BY <1>3, <2>2, <2>3
  <2>5. SIZE_BITS - 1 \in S
    BY <2>1, <2>2, <2>4
  <2>6. S \in SUBSET Nat
    BY <2>1
  <2>7. Min(S) \in S /\ Min(S) <= SIZE_BITS - 1
    <3> HIDE DEF S
    <3> QED BY <2>5, <2>6, LeastIn
  <2>8. PICK x : x = Min(S)
    OBVIOUS
  <2>9. x \in 0 .. SIZE_BITS - 1 /\ i - 1 < 2^x
    BY <2>1, <2>7, <2>8
  <2>10. PICK y : y = 2^x
    OBVIOUS
  <2>11. y \in Nat /\ y <= SIZE_MAX
    BY <2>9, <2>10, SizeMax
  <2>12. i <= y
    BY <2>9, <2>10, <2>11
  <2>13. round_to_next_pow2(i) = y
    BY <1>3, <2>8, <2>10 DEF round_to_next_pow2
  <2> QED BY <2>11, <2>12, <2>13
<1>4. i > 1 \/ i <= 1
  OBVIOUS
<1> QED BY <1>1, <1>2, <1>3, <1>4

\* The new capacity has room for the bytes that were asked for.
LEMMA Roomy ==
    ASSUME NEW s \in BufferSet, s.capacity <= SIZE_MAX, NEW extra \in Nat, NEW exact
    PROVE  \/ NewCapacity(s, extra, exact) = ERR_OVERFLOW
           \/ /\ NewCapacity(s, extra, exact) \in Nat
              /\ s.size + extra <= NewCapacity(s, extra, exact)
              /\ s.capacity <= NewCapacity(s, extra, exact)
              /\ NewCapacity(s, extra, exact) <= SIZE_MAX
<1> DEFINE new == s.size + extra
<1>1. new \in Nat /\ s.capacity \in Nat /\ SIZE_MAX \in Nat
  BY SizeMax DEF BufferSet
<1> HIDE DEF new
<1>2. PICK n : n = NewCapacity(s, extra, exact)
  OBVIOUS
<1>3. n = IF new > SIZE_MAX THEN ERR_OVERFLOW
          ELSE IF new <= s.capacity THEN s.capacity
          ELSE IF exact THEN new ELSE round_to_next_pow2(new)
  BY <1>2 DEF NewCapacity, new
<1>4. CASE new > SIZE_MAX
  BY <1>2, <1>3, <1>4
<1>5. CASE new <= SIZE_MAX /\ new <= s.capacity
  BY <1>1, <1>2, <1>3, <1>5 DEF new
<1>6. CASE new <= SIZE_MAX /\ new > s.capacity
  <2>1. n = new \/ n = round_to_next_pow2(new)
    BY <1>1, <1>3, <1>6
  <2>2. n = ERR_OVERFLOW \/ (n \in Nat /\ new <= n /\ n <= SIZE_MAX)
    BY <1>1, <1>6, <2>1, RoundsUp
  <2>3. n = ERR_OVERFLOW \/ (n \in Nat /\ new <= n /\ s.capacity <= n /\ n <= SIZE_MAX)
    BY <1>1, <1>6, <2>2
  <2> QED BY <1>2, <2>3 DEF new
<1> QED BY <1>1, <1>4, <1>5, <1>6

-----------------------------------------------------------------------------
\* What the functions of the buffer do to memory.

\* What belongs to another buffer or to a caller is as it was.
Frame(m, o, b, mn) ==
    /\ \A c \in Buffers : c # b =>
          /\ o.buf[c] = m.buf[c]
          /\ m.buf[c].data # 0 => o.heap[m.buf[c].data] = m.heap[m.buf[c].data]
    /\ \A a \in mn : o.heap[a] = m.heap[a]

\* 0 is the address of no block.
LEMMA NullIsNoAddress == 0 \notin Addrs /\ Addrs \subseteq Nat
  BY BufferAssumption DEF BufferAssumption

\* The types of a structure, and its block.
LEMMA BufferParts ==
    ASSUME NEW m, NEW mn, MemOK(m, mn), NEW b \in Buffers
    PROVE  /\ m.buf[b] \in BufferSet
           /\ m.buf[b].data \in Addrs \cup {0}
           /\ m.buf[b].size \in Nat
           /\ m.buf[b].capacity \in Nat
           /\ m.buf[b].size <= m.buf[b].capacity
           /\ m.buf[b].capacity <= SIZE_MAX
           /\ m.buf[b].data = 0 => m.buf[b].capacity = 0
           /\ m.buf[b].data # 0 => /\ IsSeq(m.heap[m.buf[b].data])
                                   /\ Len(m.heap[m.buf[b].data]) = m.buf[b].capacity
                                   /\ m.buf[b].capacity > 0
                                   /\ m.buf[b].data \notin mn
<1>1. m.buf[b] \in BufferSet
  BY DEF MemOK
<1>2. m.buf[b].data \in Addrs \cup {0} /\ m.buf[b].size \in Nat /\ m.buf[b].capacity \in Nat
  BY <1>1 DEF BufferSet
<1> QED BY <1>1, <1>2 DEF MemOK

\* A function works on one buffer b: its block is freed, changed where it is
\* or moved to a free address, and the rest is as it was.
LEMMA OneChange ==
    ASSUME NEW m, NEW mn, MemOK(m, mn), NEW b \in Buffers, NEW q,
           q = [buf |-> q.buf, heap |-> q.heap],
           IsHeap(q.heap),
           q.buf \in [Buffers -> BufferSet],
           NEW old, old = m.buf[b].data,
           NEW d, d = q.buf[b].data,
           \A c \in Buffers : c # b => q.buf[c] = m.buf[c],
           \A x \in Addrs : x # d /\ x = old => q.heap[x] = <<>>,
           \A x \in Addrs : x # d /\ x # old => q.heap[x] = m.heap[x],
           d = 0 => q.buf[b].capacity = 0,
           d # 0 => /\ d = old \/ m.heap[d] = <<>>
                    /\ IsSeq(q.heap[d])
                    /\ Len(q.heap[d]) = q.buf[b].capacity
                    /\ q.buf[b].capacity > 0,
           q.buf[b].size <= q.buf[b].capacity,
           q.buf[b].capacity <= SIZE_MAX
    PROVE  MemOK(q, mn) /\ Frame(m, q, b, mn)
<1>1. d \in Addrs \cup {0} /\ old \in Addrs \cup {0} /\ 0 \notin Addrs /\ mn \subseteq Addrs
  BY BufferParts, NullIsNoAddress DEF BufferSet, MemOK
<1>2. IsSeq(<<>>) /\ Len(<<>>) = 0
  BY DEF IsSeq
<1>3. d # 0 => d \notin mn /\ \A c \in Buffers : c # b => m.buf[c].data # d
  <2>1. CASE d = old /\ d # 0
    BY <2>1 DEF MemOK
  <2>2. CASE d # 0 /\ m.heap[d] = <<>>
    <3>1. Len(m.heap[d]) = 0
      BY <1>2, <2>2
    <3>2. d \notin mn
      <4>1. \A x \in mn : Len(m.heap[x]) > 0
        BY DEF MemOK
      <4> QED BY <3>1, <4>1
    <3>3. ASSUME NEW c \in Buffers, m.buf[c].data = d PROVE FALSE
      BY <2>2, <3>1, <3>3, BufferParts
    <3> QED BY <3>2, <3>3
  <2> QED BY <2>1, <2>2
<1>4. old # 0 => old \notin mn /\ \A c \in Buffers : c # b => m.buf[c].data # old
  BY DEF MemOK
<1>5. ASSUME NEW c \in Buffers, c # b, m.buf[c].data # 0
      PROVE  q.heap[m.buf[c].data] = m.heap[m.buf[c].data]
  <2>1. m.buf[c].data \in Addrs /\ m.buf[c].data # old /\ m.buf[c].data # d
    BY <1>1, <1>3, <1>4, <1>5, BufferParts
  <2> QED BY <2>1
<1>6. ASSUME NEW x \in mn PROVE q.heap[x] = m.heap[x]
  <2>1. x \in Addrs /\ x # old /\ x # d
    BY <1>1, <1>3, <1>4
  <2> QED BY <2>1
<1>7. Frame(m, q, b, mn)
  BY <1>5, <1>6 DEF Frame
<1>8. \A x \in Addrs : IsSeq(q.heap[x])
  <2>1. \A x \in Addrs : IsSeq(m.heap[x])
    BY DEF MemOK
  <2> QED BY <1>1, <1>2, <2>1
<1>9. ASSUME NEW c \in Buffers
      PROVE  /\ q.buf[c].data = 0 => q.buf[c].capacity = 0
             /\ q.buf[c].data # 0 => /\ q.buf[c].capacity = Len(q.heap[q.buf[c].data])
                                     /\ q.buf[c].capacity > 0
                                     /\ q.buf[c].data \notin mn
             /\ q.buf[c].size <= q.buf[c].capacity
             /\ q.buf[c].capacity <= SIZE_MAX
  <2>1. CASE c = b
    BY <1>3, <2>1
  <2>2. CASE c # b
    BY <1>5, <2>2, BufferParts
  <2> QED BY <2>1, <2>2
<1>10. ASSUME NEW c \in Buffers, NEW e \in Buffers, q.buf[c].data # 0, q.buf[c].data = q.buf[e].data
       PROVE  c = e
  <2>1. CASE c # b /\ e # b
    BY <1>10, <2>1 DEF MemOK
  <2>2. CASE c = b \/ e = b
    BY <1>3, <1>10, <2>2
  <2> QED BY <2>1, <2>2
<1>11. \A x \in mn : Len(q.heap[x]) > 0
  BY <1>6 DEF MemOK
<1>12. ASSUME NEW x \in Addrs, Len(q.heap[x]) > 0 PROVE x \in mn \/ \E c \in Buffers : q.buf[c].data = x
  <2>1. CASE x = d
    BY <2>1
  <2>2. CASE x # d
    <3>1. q.heap[x] = m.heap[x] /\ x # old
      BY <1>2, <1>12, <2>2
    <3>2. x \in mn \/ \E c \in Buffers : m.buf[c].data = x
      BY <1>12, <3>1 DEF MemOK
    <3>3. ASSUME NEW c \in Buffers, m.buf[c].data = x PROVE q.buf[c].data = x
      BY <3>1, <3>3
    <3> QED BY <3>2, <3>3
  <2> QED BY <2>1, <2>2
<1>13. MemOK(q, mn)
  BY <1>1, <1>8, <1>9, <1>10, <1>11, <1>12 DEF MemOK
<1> QED BY <1>7, <1>13

\* The two fields of memory.
LEMMA MemParts ==
    ASSUME NEW f, NEW h, NEW q, q = [buf |-> f, heap |-> h]
    PROVE  q.buf = f /\ q.heap = h /\ q = [buf |-> q.buf, heap |-> q.heap]
  OBVIOUS

\* The two fields of an outcome.
LEMMA OutcomeParts ==
    ASSUME NEW r, NEW q, NEW o, o = [rv |-> r, mem |-> q]
    PROVE  o.rv = r /\ o.mem = q
  OBVIOUS

\* The heap that realloc leaves.
ResizedTo(r, h, src, dst, n) ==
    /\ IsHeap(r)
    /\ IsSeq(r[dst]) /\ Len(r[dst]) = n
    /\ \A i \in 1 .. n : src # 0 /\ i <= Len(h[src]) => r[dst][i] = h[src][i]
    /\ \A x \in Addrs : x # dst /\ x = src => r[x] = <<>>
    /\ \A x \in Addrs : x # dst /\ x # src => r[x] = h[x]

\* realloc keeps what fits into the new size and adds fresh cells.
LEMMA ResizedIs ==
    ASSUME NEW h, NEW src, NEW dst \in Addrs, NEW n \in Nat, NEW r, r = Resized(h, src, dst, n)
    PROVE  ResizedTo(r, h, src, dst, n)
<1> DEFINE s == [i \in 1 .. n |-> IF src # 0 /\ i <= Len(h[src]) THEN h[src][i] ELSE Junk]
<1>1. s = [i \in 1 .. n |-> s[i]]
  OBVIOUS
<1>2. \A i \in 1 .. n : s[i] = IF src # 0 /\ i <= Len(h[src]) THEN h[src][i] ELSE Junk
  OBVIOUS
<1>3. r = [x \in Addrs |-> IF x = dst THEN s ELSE IF x = src THEN <<>> ELSE h[x]]
  BY DEF Resized
<1> HIDE DEF s
<1>4. IsSeq(s) /\ Len(s) = n
  BY <1>1, SeqMade
<1>5. IsHeap(r)
  BY <1>3 DEF IsHeap
<1> QED BY <1>2, <1>3, <1>4, <1>5 DEF ResizedTo

\* Memory after realloc of b's block to n bytes at a.
Moved(m, b, a, n) ==
    [buf  |-> [m.buf EXCEPT ![b].data = a, ![b].capacity = n],
     heap |-> Resized(m.heap, m.buf[b].data, a, n)]

\* realloc to more bytes: the contents are kept, in one block.
LEMMA ResizedKeeps ==
    ASSUME NEW m, NEW mn, MemOK(m, mn), NEW b \in Buffers,
           NEW n \in Nat, m.buf[b].capacity < n, n <= SIZE_MAX,
           NEW a \in Addrs, a = m.buf[b].data \/ m.heap[a] = <<>>,
           NEW q, q = Moved(m, b, a, n)
    PROVE  /\ MemOK(q, mn)
           /\ Frame(m, q, b, mn)
           /\ q.buf[b].size = m.buf[b].size
           /\ q.buf[b].capacity = n
           /\ \A i \in 1 .. m.buf[b].size : q.heap[q.buf[b].data][i] = m.heap[m.buf[b].data][i]
<1>1. PICK t : t = [m.buf[b] EXCEPT !.data = a, !.capacity = n]
  OBVIOUS
<1>2. m.buf[b] \in BufferSet
  BY BufferParts
<1>3. t \in BufferSet /\ t.data = a /\ t.size = m.buf[b].size /\ t.capacity = n
  BY <1>1, <1>2 DEF BufferSet
<1>4. PICK f : f = [m.buf EXCEPT ![b] = t]
  OBVIOUS
<1>5. PICK old : old = m.buf[b].data
  OBVIOUS
<1>6. PICK h : h = m.heap
  OBVIOUS
<1>7. PICK r : r = Resized(h, old, a, n)
  OBVIOUS
<1>8. q = [buf |-> f, heap |-> r]
  BY <1>1, <1>4, <1>5, <1>6, <1>7 DEF Moved
<1>9. q.buf = f /\ q.heap = r /\ q = [buf |-> q.buf, heap |-> q.heap]
  BY <1>8, MemParts
<1>10. f \in [Buffers -> BufferSet] /\ f[b] = t /\ \A c \in Buffers : c # b => f[c] = m.buf[c]
  <2>1. m.buf \in [Buffers -> BufferSet]
    BY DEF MemOK
  <2> QED BY <1>3, <1>4, <2>1
<1>11. /\ IsHeap(r)
       /\ IsSeq(r[a]) /\ Len(r[a]) = n
       /\ \A i \in 1 .. n : old # 0 /\ i <= Len(h[old]) => r[a][i] = h[old][i]
       /\ \A x \in Addrs : x # a /\ x = old => r[x] = <<>>
       /\ \A x \in Addrs : x # a /\ x # old => r[x] = h[x]
  <2>1. ResizedTo(r, h, old, a, n)
    BY <1>7, ResizedIs
  <2> QED BY <2>1 DEF ResizedTo
<1>12. m.buf[b].size \in Nat /\ m.buf[b].capacity \in Nat /\ m.buf[b].size <= m.buf[b].capacity
  BY BufferParts
<1>13. m.buf[b].size <= n /\ n > 0
  BY <1>12
<1>14. MemOK(q, mn) /\ Frame(m, q, b, mn)
  <2>1. old = m.buf[b].data /\ a = q.buf[b].data /\ a # 0
    BY <1>3, <1>5, <1>9, <1>10, NullIsNoAddress
  <2>2. a = old \/ m.heap[a] = <<>>
    BY <1>5
  <2>3. q.buf[b].size <= q.buf[b].capacity /\ q.buf[b].capacity = n
    BY <1>3, <1>9, <1>10, <1>13
  <2> QED BY <1>6, <1>9, <1>10, <1>11, <1>13, <2>1, <2>2, <2>3, OneChange
<1>15. ASSUME NEW i \in 1 .. m.buf[b].size PROVE q.heap[q.buf[b].data][i] = m.heap[m.buf[b].data][i]
  <2>1. old # 0 /\ i <= Len(h[old]) /\ i \in 1 .. n
    BY <1>5, <1>6, <1>12, <1>13, BufferParts
  <2> QED BY <1>3, <1>5, <1>6, <1>9, <1>10, <1>11, <2>1
<1> QED BY <1>3, <1>9, <1>10, <1>14, <1>15

\* resize_buffer_exact fails without a trace or makes room.
LEMMA ResizeKeeps ==
    ASSUME NEW m, NEW mn, MemOK(m, mn), NEW b \in Buffers,
           NEW n \in Nat, m.buf[b].capacity < n, n <= SIZE_MAX,
           NEW o \in resize_buffer_exact(m, b, n)
    PROVE  \/ o.rv = ERR_ALLOC /\ o.mem = m
           \/ /\ o.rv = 0
              /\ MemOK(o.mem, mn)
              /\ Frame(m, o.mem, b, mn)
              /\ o.mem.buf[b].size = m.buf[b].size
              /\ o.mem.buf[b].capacity = n
              /\ \A i \in 1 .. m.buf[b].size :
                    o.mem.heap[o.mem.buf[b].data][i] = m.heap[m.buf[b].data][i]
<1> DEFINE old == m.buf[b].data
           Targets == (IF old = 0 THEN {} ELSE {old}) \cup (IF Free(m) = {} THEN {} ELSE {Min(Free(m))})
<1>1. \/ o.rv = ERR_ALLOC /\ o.mem = m
      \/ \E a \in Targets : o.rv = 0 /\ o.mem = Moved(m, b, a, n)
  <2>1. \/ o \in {[rv |-> 0, mem |-> Moved(m, b, a, n)] : a \in Targets}
        \/ o \in {[rv |-> ERR_ALLOC, mem |-> m] : f \in Faults}
    BY DEF resize_buffer_exact, Moved
  <2> HIDE DEF Targets
  <2>2. CASE o \in {[rv |-> ERR_ALLOC, mem |-> m] : f \in Faults}
    BY <2>2
  <2>3. CASE o \in {[rv |-> 0, mem |-> Moved(m, b, a, n)] : a \in Targets}
    BY <2>3
  <2> QED BY <2>1, <2>2, <2>3
<1>2. \A a \in Targets : a \in Addrs /\ (a = old \/ m.heap[a] = <<>>)
  <2>1. Free(m) \subseteq Nat /\ Free(m) \subseteq Addrs
    BY NullIsNoAddress DEF Free
  <2>2. Free(m) # {} => Min(Free(m)) \in Free(m)
    BY <2>1, LeastIn
  <2>3. old \in Addrs \cup {0}
    BY BufferParts
  <2> QED BY <2>1, <2>2, <2>3 DEF Free
<1>3. CASE o.rv = ERR_ALLOC /\ o.mem = m
  BY <1>3
<1>4. CASE \E a \in Targets : o.rv = 0 /\ o.mem = Moved(m, b, a, n)
  <2>1. PICK a \in Targets : o.rv = 0 /\ o.mem = Moved(m, b, a, n)
    BY <1>4
  <2>2. PICK q : q = o.mem
    OBVIOUS
  <2>3. a \in Addrs /\ (a = m.buf[b].data \/ m.heap[a] = <<>>)
    BY <1>2
  <2>4. q = Moved(m, b, a, n)
    BY <2>1, <2>2
  <2> HIDE DEF Targets, old
  <2>5. /\ MemOK(q, mn)
        /\ Frame(m, q, b, mn)
        /\ q.buf[b].size = m.buf[b].size
        /\ q.buf[b].capacity = n
        /\ \A i \in 1 .. m.buf[b].size : q.heap[q.buf[b].data][i] = m.heap[m.buf[b].data][i]
    BY <2>3, <2>4, ResizedKeeps
  <2> QED BY <2>1, <2>2, <2>5
<1> QED BY <1>1, <1>3, <1>4

\* Room for extra bytes was made in b.
Reserved(m, q, b, mn, extra) ==
    /\ MemOK(q, mn)
    /\ Frame(m, q, b, mn)
    /\ q.buf[b].size = m.buf[b].size
    /\ m.buf[b].size + extra <= q.buf[b].capacity
    /\ \A i \in 1 .. m.buf[b].size : q.heap[q.buf[b].data][i] = m.heap[m.buf[b].data][i]

\* cx_buffer_add_capacity fails without a trace or makes room.
LEMMA AddCapacityIs ==
    ASSUME NEW m, NEW mn, MemOK(m, mn), NEW b \in Buffers, NEW extra \in Nat, NEW exact,
           NEW o \in add_capacity(m, b, extra, exact)
    PROVE  \/ o.rv \in {ERR_ALLOC, ERR_OVERFLOW} /\ o.mem = m
           \/ o.rv = 0 /\ Reserved(m, o.mem, b, mn, extra)
<1>1. PICK s : s = m.buf[b]
  OBVIOUS
<1>2. PICK n : n = NewCapacity(s, extra, exact)
  OBVIOUS
<1>3. s \in BufferSet /\ s.capacity <= SIZE_MAX
  BY <1>1, BufferParts
<1>4. n = ERR_OVERFLOW \/ (n \in Nat /\ s.size + extra <= n /\ s.capacity <= n /\ n <= SIZE_MAX)
  BY <1>2, <1>3, Roomy
<1>5. o \in IF n = ERR_OVERFLOW THEN {[rv |-> ERR_OVERFLOW, mem |-> m]}
            ELSE IF n = s.capacity THEN {[rv |-> 0, mem |-> m]}
            ELSE resize_buffer_exact(m, b, n)
  BY <1>1, <1>2 DEF add_capacity
<1>6. CASE n = ERR_OVERFLOW
  BY <1>5, <1>6
<1>7. CASE n # ERR_OVERFLOW /\ n = s.capacity
  <2>1. o = [rv |-> 0, mem |-> m]
    BY <1>5, <1>7
  <2>2. o.rv = 0 /\ o.mem = m
    BY <2>1
  <2>3. Frame(m, m, b, mn)
    BY DEF Frame
  <2>4. Reserved(m, m, b, mn, extra)
    BY <1>1, <1>4, <1>7, <2>3 DEF Reserved
  <2> QED BY <2>2, <2>4
<1>8. CASE n # ERR_OVERFLOW /\ n # s.capacity
  <2>1. o \in resize_buffer_exact(m, b, n)
    BY <1>5, <1>8
  <2>2. s.capacity \in Nat
    BY <1>3 DEF BufferSet
  <2>3. n \in Nat /\ m.buf[b].capacity < n /\ n <= SIZE_MAX
    BY <1>1, <1>4, <1>8, <2>2
  <2>4. \/ o.rv = ERR_ALLOC /\ o.mem = m
        \/ /\ o.rv = 0
           /\ MemOK(o.mem, mn)
           /\ Frame(m, o.mem, b, mn)
           /\ o.mem.buf[b].size = m.buf[b].size
           /\ o.mem.buf[b].capacity = n
           /\ \A i \in 1 .. m.buf[b].size :
                 o.mem.heap[o.mem.buf[b].data][i] = m.heap[m.buf[b].data][i]
    BY <2>1, <2>3, ResizeKeeps
  <2> QED BY <1>1, <1>4, <1>8, <2>4 DEF Reserved
<1> QED BY <1>6, <1>7, <1>8

\* Something was appended to b.
Appended(m, q, b, mn, s) ==
    /\ MemOK(q, mn)
    /\ Frame(m, q, b, mn)
    /\ q.buf[b].size = m.buf[b].size + Len(s)
    /\ \A i \in 1 .. m.buf[b].size : q.heap[q.buf[b].data][i] = m.heap[m.buf[b].data][i]
    /\ \A i \in 1 .. Len(s) : q.heap[q.buf[b].data][m.buf[b].size + i] = s[i]

\* The block with s in it.
Pasted(block, n, s) ==
    [i \in 1 .. Len(block) |-> IF i > n /\ i <= n + Len(s) THEN s[i - n] ELSE block[i]]

\* memcpy into a block changes the cells it covers and no others.
LEMMA PastedIs ==
    ASSUME NEW block, IsSeq(block), NEW n \in Nat, NEW s, IsSeq(s), n + Len(s) <= Len(block),
           NEW p, p = Pasted(block, n, s)
    PROVE  /\ IsSeq(p) /\ Len(p) = Len(block)
           /\ \A i \in 1 .. n : p[i] = block[i]
           /\ \A i \in 1 .. Len(s) : p[n + i] = s[i]
<1>1. Len(block) \in Nat /\ Len(s) \in Nat
  BY SeqParts
<1>2. PICK l : l = Len(block)
  OBVIOUS
<1>3. p = [i \in 1 .. l |-> p[i]] /\ \A i \in 1 .. l : p[i] = IF i > n /\ i <= n + Len(s) THEN s[i - n] ELSE block[i]
  BY <1>2 DEF Pasted
<1>4. IsSeq(p) /\ Len(p) = l
  BY <1>1, <1>2, <1>3, SeqMade
<1>5. \A i \in 1 .. n : p[i] = block[i]
  BY <1>1, <1>2, <1>3
<1>6. ASSUME NEW i \in 1 .. Len(s) PROVE p[n + i] = s[i]
  <2>1. n + i \in 1 .. l /\ n + i > n /\ n + i <= n + Len(s) /\ (n + i) - n = i
    BY <1>1, <1>2
  <2> QED BY <1>3, <2>1
<1> QED BY <1>2, <1>4, <1>5, <1>6

\* Memory after s was written behind the contents of b and its size raised.
Filled(m, b, s) ==
    [buf  |-> [m.buf EXCEPT ![b].size = @ + Len(s)],
     heap |-> [m.heap EXCEPT ![m.buf[b].data] = Pasted(@, m.buf[b].size, s)]]

\* What Fill leaves in a block: the old contents, then the new ones.
LEMMA FilledIs ==
    ASSUME NEW m, NEW mn, MemOK(m, mn), NEW b \in Buffers, m.buf[b].data # 0,
           NEW s, IsSeq(s), m.buf[b].size + Len(s) <= m.buf[b].capacity,
           NEW q, q = Filled(m, b, s)
    PROVE  Appended(m, q, b, mn, s)
<1>1. PICK d : d = m.buf[b].data
  OBVIOUS
<1>2. PICK n : n = m.buf[b].size
  OBVIOUS
<1>3. PICK h : h = m.heap
  OBVIOUS
<1>4. PICK p : p = Pasted(h[d], n, s)
  OBVIOUS
<1>5. /\ d \in Addrs /\ n \in Nat /\ Len(s) \in Nat /\ m.buf[b] \in BufferSet
      /\ IsSeq(h[d]) /\ Len(h[d]) = m.buf[b].capacity /\ m.buf[b].capacity > 0
      /\ m.buf[b].capacity <= SIZE_MAX
  BY <1>1, <1>2, <1>3, BufferParts, SeqParts
<1>6. n + Len(s) <= Len(h[d])
  BY <1>2, <1>5
<1>7. /\ IsSeq(p) /\ Len(p) = Len(h[d])
      /\ \A i \in 1 .. n : p[i] = h[d][i]
      /\ \A i \in 1 .. Len(s) : p[n + i] = s[i]
  BY <1>4, <1>5, <1>6, PastedIs
<1>8. PICK t : t = [m.buf[b] EXCEPT !.size = n + Len(s)]
  OBVIOUS
<1>9. t \in BufferSet /\ t.data = d /\ t.size = n + Len(s) /\ t.capacity = m.buf[b].capacity
  BY <1>1, <1>5, <1>8 DEF BufferSet
<1>10. PICK f : f = [m.buf EXCEPT ![b] = t]
  OBVIOUS
<1>11. PICK r : r = [h EXCEPT ![d] = p]
  OBVIOUS
<1>12. q = [buf |-> f, heap |-> r]
  BY <1>1, <1>2, <1>3, <1>4, <1>8, <1>10, <1>11 DEF Filled
<1>13. q.buf = f /\ q.heap = r /\ q = [buf |-> q.buf, heap |-> q.heap]
  BY <1>12, MemParts
<1>14. f \in [Buffers -> BufferSet] /\ f[b] = t /\ \A c \in Buffers : c # b => f[c] = m.buf[c]
  <2>1. m.buf \in [Buffers -> BufferSet]
    BY DEF MemOK
  <2> QED BY <1>9, <1>10, <2>1
<1>15. IsHeap(r) /\ r[d] = p /\ \A x \in Addrs : x # d => r[x] = h[x]
  <2>1. h = [x \in Addrs |-> h[x]]
    BY <1>3 DEF MemOK, IsHeap
  <2> QED BY <1>5, <1>11, <2>1 DEF IsHeap
<1>16. MemOK(q, mn) /\ Frame(m, q, b, mn)
  <2>1. d = m.buf[b].data /\ d = q.buf[b].data /\ d # 0 /\ IsHeap(q.heap)
    BY <1>1, <1>9, <1>13, <1>14, <1>15
  <2>2. IsSeq(q.heap[d]) /\ Len(q.heap[d]) = q.buf[b].capacity /\ q.buf[b].capacity > 0
    BY <1>5, <1>7, <1>9, <1>13, <1>14, <1>15
  <2>3. q.buf[b].size <= q.buf[b].capacity /\ q.buf[b].capacity <= SIZE_MAX
    BY <1>5, <1>6, <1>9, <1>13, <1>14
  <2>4. /\ q.buf \in [Buffers -> BufferSet]
        /\ \A c \in Buffers : c # b => q.buf[c] = m.buf[c]
        /\ \A x \in Addrs : x # d => q.heap[x] = m.heap[x]
    BY <1>3, <1>13, <1>14, <1>15
  <2>5. PICK old : old = d
    OBVIOUS
  <2>6. /\ \A x \in Addrs : x # d /\ x = old => q.heap[x] = <<>>
        /\ \A x \in Addrs : x # d /\ x # old => q.heap[x] = m.heap[x]
        /\ d = 0 => q.buf[b].capacity = 0
        /\ d # 0 => /\ d = old \/ m.heap[d] = <<>>
                    /\ IsSeq(q.heap[d])
                    /\ Len(q.heap[d]) = q.buf[b].capacity
                    /\ q.buf[b].capacity > 0
        /\ old = m.buf[b].data
    BY <2>1, <2>2, <2>4, <2>5
  <2> QED BY <1>13, <2>1, <2>3, <2>4, <2>6, OneChange
<1>17. /\ q.buf[b].size = m.buf[b].size + Len(s)
       /\ \A i \in 1 .. m.buf[b].size : q.heap[q.buf[b].data][i] = m.heap[m.buf[b].data][i]
       /\ \A i \in 1 .. Len(s) : q.heap[q.buf[b].data][m.buf[b].size + i] = s[i]
  BY <1>1, <1>2, <1>3, <1>7, <1>9, <1>13, <1>14, <1>15
<1> QED BY <1>16, <1>17 DEF Appended

\* memcpy to reserved bytes and cx_buffer_add_size append.
LEMMA AddSizeIs ==
    ASSUME NEW m, NEW mn, MemOK(m, mn), NEW b \in Buffers, m.buf[b].data # 0,
           NEW s, IsSeq(s), m.buf[b].size + Len(s) <= m.buf[b].capacity,
           NEW o, o = add_size(Written(m, b, s), b, Len(s))
    PROVE  o.rv = 0 /\ Appended(m, o.mem, b, mn, s)
<1>1. PICK w : w = Written(m, b, s)
  OBVIOUS
<1>2. PICK f : f = m.buf
  OBVIOUS
<1>3. PICK h : h = m.heap
  OBVIOUS
<1>4. m = [buf |-> f, heap |-> h]
  BY <1>2, <1>3 DEF MemOK
<1>5. PICK r : r = [h EXCEPT ![f[b].data] = Pasted(@, f[b].size, s)]
  OBVIOUS
<1>6. w = [buf |-> f, heap |-> r]
  BY <1>1, <1>2, <1>3, <1>4, <1>5 DEF Written, Pasted
<1>7. w.buf = f /\ w.heap = r
  BY <1>6
<1>8. f[b].size + Len(s) <= SIZE_MAX
  <2>1. f[b].size \in Nat /\ f[b].capacity \in Nat /\ f[b].capacity <= SIZE_MAX /\ Len(s) \in Nat
    BY <1>2, BufferParts, SeqParts
  <2> QED BY <1>2, <2>1, SizeMax
<1>9. ~(w.buf[b].size + Len(s) > SIZE_MAX)
  <2>1. f[b].size \in Nat /\ Len(s) \in Nat
    BY <1>2, BufferParts, SeqParts
  <2> QED BY <1>7, <1>8, <2>1, SizeMax
<1>10. PICK l : l = Len(s)
  OBVIOUS
<1>11. PICK g : g = [f EXCEPT ![b].size = @ + l]
  OBVIOUS
<1>12. o = [rv |-> 0, mem |-> [buf |-> g, heap |-> r]]
  BY <1>1, <1>6, <1>9, <1>10, <1>11 DEF add_size
<1>13. Filled(m, b, s) = [buf |-> g, heap |-> r]
  BY <1>2, <1>3, <1>5, <1>10, <1>11 DEF Filled
<1>14. o.rv = 0 /\ o.mem = Filled(m, b, s)
  BY <1>12, <1>13
<1>15. PICK q : q = o.mem
  OBVIOUS
<1>16. Appended(m, q, b, mn, s)
  BY <1>14, <1>15, FilledIs
<1> QED BY <1>14, <1>15, <1>16

\* cx_buffer_append fails without a trace or appends.
LEMMA AppendIs ==
    ASSUME NEW m, NEW mn, MemOK(m, mn), NEW b \in Buffers, NEW s, IsSeq(s),
           NEW o \in append(m, b, s)
    PROVE  \/ o.rv \in {ERR_ALLOC, ERR_OVERFLOW} /\ o.mem = m
           \/ o.rv = 0 /\ Appended(m, o.mem, b, mn, s)
<1>1. m.buf[b].size \in Nat /\ Len(s) \in Nat
  BY BufferParts, SeqParts
<1>2. CASE s = <<>>
  <2>1. o = [rv |-> 0, mem |-> m] /\ Len(s) = 0
    BY <1>2 DEF append
  <2>2. Frame(m, m, b, mn)
    BY DEF Frame
  <2>3. Appended(m, m, b, mn, s)
    BY <1>1, <2>1, <2>2 DEF Appended
  <2> QED BY <2>1, <2>3
<1>3. CASE s # <<>>
  <2>1. PICK p \in add_capacity(m, b, Len(s), FALSE) :
            o = IF p.rv < 0 THEN p ELSE add_size(Written(p.mem, b, s), b, Len(s))
    BY <1>3 DEF append
  <2>2. \/ p.rv \in {ERR_ALLOC, ERR_OVERFLOW} /\ p.mem = m
        \/ p.rv = 0 /\ Reserved(m, p.mem, b, mn, Len(s))
    BY <1>1, AddCapacityIs
  <2>3. CASE p.rv \in {ERR_ALLOC, ERR_OVERFLOW} /\ p.mem = m
    <3>1. p.rv < 0
      BY <2>3 DEF ERR_ALLOC, ERR_OVERFLOW
    <3> QED BY <2>1, <2>3, <3>1
  <2>4. CASE p.rv = 0 /\ Reserved(m, p.mem, b, mn, Len(s))
    <3>1. PICK q : q = p.mem
      OBVIOUS
    <3>2. o = add_size(Written(q, b, s), b, Len(s))
      BY <2>1, <2>4, <3>1
    <3>3. Reserved(m, q, b, mn, Len(s))
      BY <2>4, <3>1
    <3>4. Len(s) > 0
      <4>1. Len(s) = 0 => s = <<>>
        <5>1. IsSeq(<<>>) /\ Len(<<>>) = 0
          BY DEF IsSeq
        <5> QED BY <5>1, SeqSame
      <4> QED BY <1>1, <1>3, <4>1
    <3>5. MemOK(q, mn) /\ q.buf[b].size + Len(s) <= q.buf[b].capacity /\ q.buf[b].size = m.buf[b].size
      BY <3>3 DEF Reserved
    <3>6. q.buf[b].data # 0
      BY <1>1, <3>4, <3>5, BufferParts
    <3>7. o.rv = 0 /\ Appended(q, o.mem, b, mn, s)
      BY <3>2, <3>5, <3>6, AddSizeIs
    <3>8. Frame(m, o.mem, b, mn)
      BY <3>3, <3>7 DEF Reserved, Appended, Frame
    <3>9. Appended(m, o.mem, b, mn, s)
      BY <3>3, <3>7, <3>8 DEF Reserved, Appended
    <3> QED BY <3>7, <3>9
  <2> QED BY <2>2, <2>3, <2>4
<1> QED BY <1>2, <1>3

\* The contents after something was appended.
LEMMA AppendedHolds ==
    ASSUME NEW m, NEW mn, MemOK(m, mn), NEW b \in Buffers, NEW s, IsSeq(s), NEW q,
           Appended(m, q, b, mn, s), NEW t, Holds(m, b, t)
    PROVE  Holds(q, b, t \o s)
<1>1. IsSeq(t) /\ Len(t) = m.buf[b].size /\ \A i \in 1 .. Len(t) : t[i] = m.heap[m.buf[b].data][i]
  BY DEF Holds
<1>2. PICK u : u = t \o s
  OBVIOUS
<1>3. /\ IsSeq(u) /\ Len(u) = Len(t) + Len(s)
      /\ \A i \in 1 .. Len(t) : u[i] = t[i]
      /\ \A i \in 1 .. Len(s) : u[Len(t) + i] = s[i]
  <2>1. IsCat(u, t, s)
    BY <1>1, <1>2, CatIs
  <2> QED BY <2>1 DEF IsCat
<1>4. Len(t) \in Nat /\ Len(s) \in Nat
  BY <1>1, SeqParts
<1>5. Len(u) = q.buf[b].size
  BY <1>1, <1>3 DEF Appended
<1>6. ASSUME NEW i \in 1 .. Len(u) PROVE u[i] = q.heap[q.buf[b].data][i]
  <2>1. CASE i <= Len(t)
    BY <1>1, <1>3, <1>4, <2>1 DEF Appended
  <2>2. CASE i > Len(t)
    <3>1. PICK j : j = i - Len(t)
      OBVIOUS
    <3>2. j \in 1 .. Len(s) /\ i = Len(t) + j
      BY <1>3, <1>4, <2>2, <3>1
    <3>3. u[i] = s[j] /\ q.heap[q.buf[b].data][m.buf[b].size + j] = s[j]
      BY <1>3, <3>2 DEF Appended
    <3> QED BY <1>1, <3>2, <3>3
  <2> QED BY <1>3, <1>4, <2>1, <2>2
<1>7. Holds(q, b, u)
  BY <1>3, <1>5, <1>6 DEF Holds
<1> QED BY <1>2, <1>7

\* The contents of a buffer that was not concerned.
LEMMA FrameHolds ==
    ASSUME NEW m, NEW mn, MemOK(m, mn), NEW b \in Buffers, NEW q, Frame(m, q, b, mn),
           NEW c \in Buffers, c # b, NEW t, Holds(m, c, t)
    PROVE  Holds(q, c, t)
<1>1. q.buf[c] = m.buf[c]
  BY DEF Frame
<1>2. CASE m.buf[c].data # 0
  BY <1>1, <1>2 DEF Frame, Holds
<1>3. CASE m.buf[c].data = 0
  <2>1. m.buf[c].size = 0
    BY <1>3, BufferParts
  <2>2. \A i \in 1 .. 0 : FALSE
    OBVIOUS
  <2> QED BY <1>1, <2>1, <2>2 DEF Holds
<1> QED BY <1>2, <1>3

\* An empty buffer holds nothing.
LEMMA EmptyHolds ==
    ASSUME NEW q, NEW b, q.buf[b].size = 0
    PROVE  Holds(q, b, <<>>)
<1>1. IsSeq(<<>>) /\ Len(<<>>) = 0
  BY DEF IsSeq
<1>2. \A i \in 1 .. 0 : FALSE
  OBVIOUS
<1> QED BY <1>1, <1>2 DEF Holds

\* Empty is a structure.
LEMMA EmptyIs == Empty \in BufferSet /\ Empty.data = 0 /\ Empty.size = 0 /\ Empty.capacity = 0
  BY DEF Empty, BufferSet

\* The heap without the block at d.
Without(h, d) == [a \in Addrs |-> IF a = d THEN <<>> ELSE h[a]]

\* cx_buffer_cleanup frees the block.
LEMMA CleanupIs ==
    ASSUME NEW m, NEW mn, MemOK(m, mn), NEW b \in Buffers, NEW q, q = cleanup(m, b)
    PROVE  /\ MemOK(q, mn)
           /\ Frame(m, q, b, mn)
           /\ q.buf[b] = Empty
<1>1. PICK old : old = m.buf[b].data
  OBVIOUS
<1>2. PICK f : f = [m.buf EXCEPT ![b] = Empty]
  OBVIOUS
<1>3. PICK r : r = Without(m.heap, old)
  OBVIOUS
<1>4. q = [buf |-> f, heap |-> r]
  BY <1>1, <1>2, <1>3 DEF cleanup, Without
<1>5. q.buf = f /\ q.heap = r /\ q = [buf |-> q.buf, heap |-> q.heap]
  BY <1>4, MemParts
<1>6. f \in [Buffers -> BufferSet] /\ f[b] = Empty /\ \A c \in Buffers : c # b => f[c] = m.buf[c]
  <2>1. m.buf \in [Buffers -> BufferSet]
    BY DEF MemOK
  <2> QED BY <1>2, <2>1, EmptyIs
<1>7. IsHeap(r) /\ \A x \in Addrs : (x = old => r[x] = <<>>) /\ (x # old => r[x] = m.heap[x])
  BY <1>3 DEF Without, IsHeap
<1>8. MemOK(q, mn) /\ Frame(m, q, b, mn)
  <2>1. PICK d : d = q.buf[b].data
    OBVIOUS
  <2>2. /\ d = 0 /\ q.buf[b].capacity = 0 /\ q.buf[b].size <= q.buf[b].capacity
        /\ q.buf[b].capacity <= SIZE_MAX
    BY <1>5, <1>6, <2>1, EmptyIs, SizeMax
  <2>3. /\ \A x \in Addrs : x # d /\ x = old => q.heap[x] = <<>>
        /\ \A x \in Addrs : x # d /\ x # old => q.heap[x] = m.heap[x]
        /\ IsHeap(q.heap)
    BY <1>5, <1>7
  <2>4. q.buf \in [Buffers -> BufferSet] /\ \A c \in Buffers : c # b => q.buf[c] = m.buf[c]
    BY <1>5, <1>6
  <2>5. /\ d = 0 => q.buf[b].capacity = 0
        /\ d # 0 => /\ d = old \/ m.heap[d] = <<>>
                    /\ IsSeq(q.heap[d])
                    /\ Len(q.heap[d]) = q.buf[b].capacity
                    /\ q.buf[b].capacity > 0
        /\ q.buf[b].size <= q.buf[b].capacity
        /\ q.buf[b].capacity <= SIZE_MAX
    BY <2>2
  <2> QED BY <1>1, <1>5, <2>1, <2>3, <2>4, <2>5, OneChange
<1> QED BY <1>5, <1>6, <1>8

\* cx_buffer_drain keeps the block and none of its contents.
Drained(m, b) ==
    [buf  |-> [m.buf EXCEPT ![b].size = 0],
     heap |-> [a \in Addrs |-> IF a = m.buf[b].data
                               THEN [i \in 1 .. Len(m.heap[a]) |-> Junk]
                               ELSE m.heap[a]]]

\* cx_buffer_drain empties the buffer and keeps its block.
LEMMA DrainIs ==
    ASSUME NEW m, NEW mn, MemOK(m, mn), NEW b \in Buffers, NEW q, q = Drained(m, b)
    PROVE  /\ MemOK(q, mn)
           /\ Frame(m, q, b, mn)
           /\ q.buf[b].size = 0
<1>1. PICK d : d = m.buf[b].data
  OBVIOUS
<1>2. PICK t : t = [m.buf[b] EXCEPT !.size = 0]
  OBVIOUS
<1>3. PICK f : f = [m.buf EXCEPT ![b] = t]
  OBVIOUS
<1>4. PICK j : j = [i \in 1 .. Len(m.heap[d]) |-> Junk]
  OBVIOUS
<1>5. PICK r : r = [a \in Addrs |-> IF a = d THEN j ELSE m.heap[a]]
  OBVIOUS
<1>6. m.buf[b] \in BufferSet /\ m.buf[b].capacity <= SIZE_MAX /\ d \in Addrs \cup {0}
  BY <1>1, BufferParts
<1>7. t \in BufferSet /\ t.data = d /\ t.size = 0 /\ t.capacity = m.buf[b].capacity /\ t.capacity \in Nat
  BY <1>1, <1>2, <1>6 DEF BufferSet
<1>8. q = [buf |-> f, heap |-> r]
  <2>1. [a \in Addrs |-> IF a = d THEN [i \in 1 .. Len(m.heap[a]) |-> Junk] ELSE m.heap[a]] = r
    BY <1>4, <1>5
  <2>2. [m.buf EXCEPT ![b].size = 0] = f
    BY <1>2, <1>3
  <2> QED BY <1>1, <2>1, <2>2 DEF Drained
<1>9. q.buf = f /\ q.heap = r /\ q = [buf |-> q.buf, heap |-> q.heap]
  BY <1>8, MemParts
<1>10. f \in [Buffers -> BufferSet] /\ f[b] = t /\ \A c \in Buffers : c # b => f[c] = m.buf[c]
  <2>1. m.buf \in [Buffers -> BufferSet]
    BY DEF MemOK
  <2> QED BY <1>3, <1>7, <2>1
<1>11. IsHeap(r) /\ \A x \in Addrs : (x = d => r[x] = j) /\ (x # d => r[x] = m.heap[x])
  BY <1>5 DEF IsHeap
<1>12. d # 0 => IsSeq(j) /\ Len(j) = t.capacity /\ t.capacity > 0
  <2>1. SUFFICES ASSUME d # 0 PROVE IsSeq(j) /\ Len(j) = t.capacity /\ t.capacity > 0
    OBVIOUS
  <2>2. PICK l : l = Len(m.heap[d])
    OBVIOUS
  <2>3. l = t.capacity /\ l > 0 /\ l \in Nat
    BY <1>1, <1>7, <2>1, <2>2, BufferParts
  <2>4. j = [i \in 1 .. l |-> j[i]]
    BY <1>4, <2>2
  <2> QED BY <2>3, <2>4, SeqMade
<1>13. MemOK(q, mn) /\ Frame(m, q, b, mn)
  <2>1. PICK old : old = d
    OBVIOUS
  <2>2. /\ d = q.buf[b].data
        /\ q.buf[b].size <= q.buf[b].capacity
        /\ q.buf[b].capacity <= SIZE_MAX
        /\ d = 0 => q.buf[b].capacity = 0
        /\ old = m.buf[b].data
    BY <1>1, <1>6, <1>7, <1>9, <1>10, <2>1, BufferParts
  <2>3. /\ \A x \in Addrs : x # d /\ x = old => q.heap[x] = <<>>
        /\ \A x \in Addrs : x # d /\ x # old => q.heap[x] = m.heap[x]
        /\ d # 0 => /\ d = old \/ m.heap[d] = <<>>
                    /\ IsSeq(q.heap[d])
                    /\ Len(q.heap[d]) = q.buf[b].capacity
                    /\ q.buf[b].capacity > 0
    BY <1>6, <1>7, <1>9, <1>10, <1>11, <1>12, <2>1
  <2>4. /\ q.buf \in [Buffers -> BufferSet]
        /\ \A c \in Buffers : c # b => q.buf[c] = m.buf[c]
        /\ IsHeap(q.heap)
    BY <1>9, <1>10, <1>11
  <2> QED BY <1>9, <2>2, <2>3, <2>4, OneChange
<1> QED BY <1>7, <1>9, <1>10, <1>13

\* cx_buffer_move after its cleanup: the block changes hands.
LEMMA HandedOver ==
    ASSUME NEW m, NEW mn, MemOK(m, mn), NEW b \in Buffers, NEW source \in Buffers,
           m.buf[b] = Empty, NEW q,
           q = [buf |-> q.buf, heap |-> q.heap],
           q.buf \in [Buffers -> BufferSet],
           q.heap = m.heap,
           q.buf[source] = Empty,
           b # source => q.buf[b] = m.buf[source],
           \A c \in Buffers \ {b, source} : q.buf[c] = m.buf[c]
    PROVE  MemOK(q, mn)
<1>1. IsHeap(q.heap) /\ (\A a \in Addrs : IsSeq(q.heap[a])) /\ mn \subseteq Addrs /\ \A a \in mn : Len(q.heap[a]) > 0
  BY DEF MemOK
<1>2. ASSUME NEW c \in Buffers
      PROVE  /\ q.buf[c].data = 0 => q.buf[c].capacity = 0
             /\ q.buf[c].data # 0 => /\ q.buf[c].capacity = Len(q.heap[q.buf[c].data])
                                     /\ q.buf[c].capacity > 0
                                     /\ q.buf[c].data \notin mn
             /\ q.buf[c].size <= q.buf[c].capacity
             /\ q.buf[c].capacity <= SIZE_MAX
  <2>1. CASE c = source
    BY <2>1, EmptyIs, SizeMax
  <2>2. CASE c # source
    <3>1. PICK e \in Buffers : q.buf[c] = m.buf[e]
      BY <2>2
    <3> QED BY <3>1, BufferParts
  <2> QED BY <2>1, <2>2
<1>3. ASSUME NEW c \in Buffers, NEW e \in Buffers, q.buf[c].data # 0, q.buf[c].data = q.buf[e].data
      PROVE  c = e
  <2>1. c # source /\ e # source
    BY <1>3, EmptyIs
  <2>2. \A x, y \in Buffers : m.buf[x].data # 0 /\ m.buf[x].data = m.buf[y].data => x = y
    BY DEF MemOK
  <2> QED BY <1>3, <2>1, <2>2
<1>4. ASSUME NEW a \in Addrs, Len(q.heap[a]) > 0 PROVE a \in mn \/ \E c \in Buffers : q.buf[c].data = a
  <2>1. a \in mn \/ \E c \in Buffers : m.buf[c].data = a
    BY <1>4 DEF MemOK
  <2>2. ASSUME NEW c \in Buffers, m.buf[c].data = a PROVE \E e \in Buffers : q.buf[e].data = a
    <3>1. c # b
      BY <2>2, EmptyIs, NullIsNoAddress
    <3>2. CASE c = source
      BY <2>2, <3>1, <3>2
    <3>3. CASE c # source
      BY <2>2, <3>1, <3>3
    <3> QED BY <3>2, <3>3
  <2> QED BY <2>1, <2>2
<1> QED BY <1>1, <1>2, <1>3, <1>4 DEF MemOK

\* cx_buffer_move passes on the block and leaves an empty source.
LEMMA MoveIs ==
    ASSUME NEW m, NEW mn, MemOK(m, mn), NEW b \in Buffers, NEW source \in Buffers,
           NEW q, q = move(m, b, source)
    PROVE  /\ MemOK(q, mn)
           /\ q.buf[source] = Empty
           /\ \A t : b # source /\ Holds(m, source, t) => Holds(q, b, t)
           /\ \A c \in Buffers \ {b, source} : \A t : Holds(m, c, t) => Holds(q, c, t)
<1>1. PICK k : k = cleanup(m, b)
  OBVIOUS
<1>2. MemOK(k, mn) /\ Frame(m, k, b, mn) /\ k.buf[b] = Empty
  BY <1>1, CleanupIs
<1>3. PICK f : f = [x \in Buffers |-> IF x = source THEN Empty
                                      ELSE IF x = b THEN k.buf[source] ELSE k.buf[x]]
  OBVIOUS
<1>4. q = [buf |-> f, heap |-> k.heap]
  <2>1. k = [buf |-> k.buf, heap |-> k.heap]
    BY <1>2 DEF MemOK
  <2>2. q = [k EXCEPT !.buf = f]
    BY <1>1, <1>3 DEF move
  <2> QED BY <2>1, <2>2
<1>5. q.buf = f /\ q.heap = k.heap /\ q = [buf |-> q.buf, heap |-> q.heap]
  <2>1. PICK h : h = k.heap
    OBVIOUS
  <2> QED BY <1>4, <2>1, MemParts
<1>6. /\ f \in [Buffers -> BufferSet]
      /\ f[source] = Empty
      /\ b # source => f[b] = k.buf[source]
      /\ \A c \in Buffers \ {b, source} : f[c] = k.buf[c]
  <2>1. k.buf \in [Buffers -> BufferSet]
    BY <1>2 DEF MemOK
  <2> QED BY <1>3, <2>1, EmptyIs
<1>7. /\ q.buf \in [Buffers -> BufferSet]
      /\ q.buf[source] = Empty
      /\ b # source => q.buf[b] = k.buf[source]
      /\ \A c \in Buffers \ {b, source} : q.buf[c] = k.buf[c]
  BY <1>5, <1>6
<1>8. MemOK(q, mn)
  BY <1>2, <1>5, <1>7, HandedOver
<1>9. ASSUME NEW t, b # source, Holds(m, source, t) PROVE Holds(q, b, t)
  <2>1. Holds(k, source, t)
    BY <1>2, <1>9, FrameHolds
  <2> QED BY <1>5, <1>7, <1>9, <2>1 DEF Holds
<1>10. ASSUME NEW c \in Buffers \ {b, source}, NEW t, Holds(m, c, t) PROVE Holds(q, c, t)
  <2>1. Holds(k, c, t)
    BY <1>2, <1>10, FrameHolds
  <2> QED BY <1>5, <1>7, <2>1 DEF Holds
<1> QED BY <1>7, <1>8, <1>9, <1>10

\* The caller's blocks after cx_buffer_unwrap.
GivenOut(mn, m, b) == mn \cup ({m.buf[b].data} \ {0})

\* cx_buffer_unwrap gives the block to the caller.
LEMMA UnwrapIs ==
    ASSUME NEW m, NEW mn, MemOK(m, mn), NEW b \in Buffers, NEW q, q = unwrap(m, b),
           NEW mx, mx = GivenOut(mn, m, b)
    PROVE  /\ MemOK(q, mx)
           /\ q.heap = m.heap
           /\ q.buf[b] = Empty
           /\ \A c \in Buffers : c # b => q.buf[c] = m.buf[c]
<1>1. PICK f : f = [m.buf EXCEPT ![b] = Empty]
  OBVIOUS
<1>2. m.buf \in [Buffers -> BufferSet] /\ m = [buf |-> m.buf, heap |-> m.heap]
  BY DEF MemOK
<1>3. PICK g : g = [m.buf EXCEPT ![b].data = 0]
  OBVIOUS
<1>4. PICK h : h = m.heap
  OBVIOUS
<1>5. g[b].data = 0 /\ [g EXCEPT ![b] = Empty] = f
  BY <1>1, <1>2, <1>3 DEF BufferSet
<1>6. [m EXCEPT !.buf[b].data = 0] = [buf |-> g, heap |-> h]
  BY <1>2, <1>3, <1>4
<1>7. PICK k : k = [buf |-> g, heap |-> h]
  OBVIOUS
<1>8. k.buf = g /\ k.heap = h
  BY <1>7
<1>9. q = cleanup(k, b)
  BY <1>6, <1>7 DEF unwrap
<1>10. q = [buf |-> f, heap |-> Without(h, 0)]
  BY <1>5, <1>8, <1>9 DEF cleanup, Without
<1>11. Without(h, 0) = h
  <2>1. h = [a \in Addrs |-> h[a]]
    BY <1>4 DEF MemOK, IsHeap
  <2> QED BY <2>1, NullIsNoAddress DEF Without
<1>12. q.buf = f /\ q.heap = m.heap /\ q = [buf |-> q.buf, heap |-> q.heap]
  BY <1>4, <1>10, <1>11, MemParts
<1>13. /\ q.buf \in [Buffers -> BufferSet]
       /\ q.buf[b] = Empty
       /\ \A c \in Buffers : c # b => q.buf[c] = m.buf[c]
  BY <1>1, <1>2, <1>12, EmptyIs
<1>14. PICK d : d = m.buf[b].data
  OBVIOUS
<1>15. d \in Addrs \cup {0} /\ (d # 0 => Len(q.heap[d]) > 0) /\ mx = mn \cup ({d} \ {0})
  BY <1>12, <1>14, BufferParts DEF GivenOut
<1>16. /\ IsHeap(q.heap)
       /\ \A a \in Addrs : IsSeq(q.heap[a])
       /\ mx \subseteq Addrs
       /\ \A a \in mx : Len(q.heap[a]) > 0
  BY <1>12, <1>15 DEF MemOK
<1>17. ASSUME NEW c \in Buffers
       PROVE  /\ q.buf[c].data = 0 => q.buf[c].capacity = 0
              /\ q.buf[c].data # 0 => /\ q.buf[c].capacity = Len(q.heap[q.buf[c].data])
                                      /\ q.buf[c].capacity > 0
                                      /\ q.buf[c].data \notin mx
              /\ q.buf[c].size <= q.buf[c].capacity
              /\ q.buf[c].capacity <= SIZE_MAX
  <2>1. CASE c = b
    BY <1>13, <2>1, EmptyIs, SizeMax
  <2>2. CASE c # b
    <3>1. m.buf[c].data # 0 => m.buf[c].data # d
      BY <1>14, <2>2 DEF MemOK
    <3> QED BY <1>12, <1>13, <1>15, <2>2, <3>1, BufferParts
  <2> QED BY <2>1, <2>2
<1>18. ASSUME NEW c \in Buffers, NEW e \in Buffers, q.buf[c].data # 0, q.buf[c].data = q.buf[e].data
       PROVE  c = e
  <2>1. c # b /\ e # b
    BY <1>13, <1>18, EmptyIs
  <2>2. \A x, y \in Buffers : m.buf[x].data # 0 /\ m.buf[x].data = m.buf[y].data => x = y
    BY DEF MemOK
  <2> QED BY <1>13, <1>18, <2>1, <2>2
<1>19. ASSUME NEW a \in Addrs, Len(q.heap[a]) > 0 PROVE a \in mx \/ \E c \in Buffers : q.buf[c].data = a
  <2>1. a \in mn \/ \E c \in Buffers : m.buf[c].data = a
    BY <1>12, <1>19 DEF MemOK
  <2>2. ASSUME NEW c \in Buffers, m.buf[c].data = a, c # b PROVE q.buf[c].data = a
    BY <1>13, <2>2
  <2>3. m.buf[b].data = a => a \in mx
    BY <1>14, <1>15, NullIsNoAddress
  <2> QED BY <1>15, <2>1, <2>2, <2>3
<1>20. MemOK(q, mx)
  BY <1>12, <1>13, <1>16, <1>17, <1>18, <1>19 DEF MemOK
<1> QED BY <1>12, <1>13, <1>20

\* Memory with other contents in a block.
WithBlock(m, a, s) == [m EXCEPT !.heap[a] = s]

\* The caller's blocks after that: a block without cells is a freed one.
OwnedWith(mn, a, s) == IF s = <<>> THEN mn \ {a} ELSE mn

\* Only the block at a is another one.
Rewritten(m, q, a, s, mx) ==
    /\ MemOK(q, mx)
    /\ q.buf = m.buf
    /\ q.heap[a] = s
    /\ \A x \in Addrs : x # a => q.heap[x] = m.heap[x]

\* A caller writes in a block of its own, or frees it.
LEMMA OwnBlock ==
    ASSUME NEW m, NEW mn, MemOK(m, mn), NEW a \in mn, NEW s, IsSeq(s),
           NEW q, q = WithBlock(m, a, s),
           NEW mx, mx = OwnedWith(mn, a, s)
    PROVE  Rewritten(m, q, a, s, mx)
<1>1. PICK h : h = m.heap
  OBVIOUS
<1>2. PICK r : r = [h EXCEPT ![a] = s]
  OBVIOUS
<1>3. m = [buf |-> m.buf, heap |-> h] /\ h = [x \in Addrs |-> h[x]] /\ mn \subseteq Addrs
  BY <1>1 DEF MemOK, IsHeap
<1>4. PICK f : f = m.buf
  OBVIOUS
<1>5. q = [buf |-> f, heap |-> r]
  <2>1. m = [buf |-> f, heap |-> h]
    BY <1>3, <1>4
  <2> QED BY <1>1, <1>2, <2>1 DEF WithBlock
<1>6. q.buf = f /\ q.heap = r /\ q = [buf |-> q.buf, heap |-> q.heap]
  BY <1>5, MemParts
<1>7. IsHeap(r) /\ r[a] = s /\ \A x \in Addrs : x # a => r[x] = h[x]
  BY <1>2, <1>3 DEF IsHeap
<1>8. q.buf = m.buf /\ IsHeap(q.heap) /\ q.heap[a] = s /\ \A x \in Addrs : x # a => q.heap[x] = m.heap[x]
  BY <1>1, <1>4, <1>6, <1>7
<1>9. s # <<>> => Len(s) > 0
  <2>1. IsSeq(<<>>) /\ Len(<<>>) = 0 /\ Len(s) \in Nat
    BY SeqParts DEF IsSeq
  <2> QED BY <2>1, SeqSame
<1>10. mx \subseteq mn /\ mn \subseteq mx \cup {a} /\ (s # <<>> => a \in mx) /\ (s = <<>> => a \notin mx)
  BY DEF OwnedWith
<1>11. \A c \in Buffers : m.buf[c].data # a
  BY <1>3, NullIsNoAddress DEF MemOK
<1>12. ASSUME NEW c \in Buffers
       PROVE  /\ q.buf[c].data = 0 => q.buf[c].capacity = 0
              /\ q.buf[c].data # 0 => /\ q.buf[c].capacity = Len(q.heap[q.buf[c].data])
                                      /\ q.buf[c].capacity > 0
                                      /\ q.buf[c].data \notin mx
              /\ q.buf[c].size <= q.buf[c].capacity
              /\ q.buf[c].capacity <= SIZE_MAX
  <2>1. m.buf[c].data # 0 => q.heap[m.buf[c].data] = m.heap[m.buf[c].data]
    BY <1>8, <1>11, BufferParts
  <2> QED BY <1>8, <1>10, <2>1, BufferParts
<1>13. \A x \in mx : Len(q.heap[x]) > 0
  BY <1>3, <1>8, <1>9, <1>10 DEF MemOK
<1>14. ASSUME NEW x \in Addrs, Len(q.heap[x]) > 0 PROVE x \in mx \/ \E c \in Buffers : q.buf[c].data = x
  <2>1. Len(<<>>) = 0
    OBVIOUS
  <2>2. CASE x = a
    <3>1. s # <<>>
      BY <1>8, <1>14, <2>1, <2>2
    <3> QED BY <1>10, <2>2, <3>1
  <2>3. CASE x # a
    <3>1. x \in mn \/ \E c \in Buffers : m.buf[c].data = x
      BY <1>8, <1>14, <2>3 DEF MemOK
    <3> QED BY <1>8, <1>10, <2>3, <3>1
  <2> QED BY <2>2, <2>3
<1>15. \A x \in Addrs : IsSeq(q.heap[x])
  BY <1>8 DEF MemOK
<1>16. /\ q.buf \in [Buffers -> BufferSet]
       /\ mx \subseteq Addrs
       /\ \A b, c \in Buffers : q.buf[b].data # 0 /\ q.buf[b].data = q.buf[c].data => b = c
  BY <1>3, <1>8, <1>10 DEF MemOK
<1>17. MemOK(q, mx)
  BY <1>6, <1>8, <1>12, <1>13, <1>14, <1>15, <1>16 DEF MemOK
<1> QED BY <1>8, <1>17 DEF Rewritten

-----------------------------------------------------------------------------
\* The calls of the buffer functions.

\* When nothing is reserved.
LEMMA NothingReserved ==
    ASSUME NEW m, NEW mn, MemOK(m, mn), NEW lg, IsLog(lg), \A b \in Buffers : Holds(m, b, lg[b])
    PROVE  BufferOK(m, mn, NoSpare, lg)
<1>1. NoSpare \in [Buffers -> Nat] /\ \A b \in Buffers : NoSpare[b] = 0
  BY DEF NoSpare
<1>2. \A b \in Buffers : m.buf[b].size + NoSpare[b] <= m.buf[b].capacity
  BY <1>1, BufferParts
<1> QED BY <1>1, <1>2 DEF BufferOK

\* Bytes are reserved in b only.
ReservedIn(b, n) == [NoSpare EXCEPT ![b] = n]

\* add_capacity keeps the invariant of all buffers, whatever realloc does.
LEMMA AddCapacityKeeps ==
    ASSUME NEW m, NEW mn, NEW sp, NEW lg, BufferOK(m, mn, sp, lg),
           NEW b \in Buffers, NEW n \in Nat, NEW exact, NEW o \in add_capacity(m, b, n, exact),
           NEW sq, sq = ReservedIn(b, IF o.rv = 0 THEN n ELSE 0)
    PROVE  /\ BufferOK(o.mem, mn, sq, lg)
           /\ o.rv = 0 \/ (o.rv \in {ERR_ALLOC, ERR_OVERFLOW} /\ o.mem = m)
<1>1. MemOK(m, mn) /\ IsLog(lg) /\ \A c \in Buffers : Holds(m, c, lg[c])
  BY DEF BufferOK
<1>2. \/ o.rv \in {ERR_ALLOC, ERR_OVERFLOW} /\ o.mem = m
      \/ o.rv = 0 /\ Reserved(m, o.mem, b, mn, n)
  BY <1>1, AddCapacityIs
<1>3. CASE o.rv \in {ERR_ALLOC, ERR_OVERFLOW} /\ o.mem = m
  <2>1. sq = NoSpare
    BY <1>3 DEF NoSpare, ReservedIn, ERR_ALLOC, ERR_OVERFLOW
  <2> QED BY <1>1, <1>3, <2>1, NothingReserved
<1>4. CASE o.rv = 0 /\ Reserved(m, o.mem, b, mn, n)
  <2>1. PICK q : q = o.mem
    OBVIOUS
  <2>2. sq \in [Buffers -> Nat] /\ sq[b] = n /\ \A c \in Buffers : c # b => sq[c] = 0
    BY <1>4 DEF NoSpare, ReservedIn
  <2>3. MemOK(q, mn) /\ Frame(m, q, b, mn) /\ q.buf[b].size = m.buf[b].size /\ q.buf[b].size + n <= q.buf[b].capacity
    BY <1>4, <2>1 DEF Reserved
  <2>4. \A c \in Buffers : q.buf[c].size + sq[c] <= q.buf[c].capacity
    BY <2>2, <2>3, BufferParts
  <2>5. Holds(q, b, lg[b])
    <3>1. Holds(m, b, lg[b])
      BY <1>1
    <3>2. \A i \in 1 .. m.buf[b].size : q.heap[q.buf[b].data][i] = m.heap[m.buf[b].data][i]
      BY <1>4, <2>1 DEF Reserved
    <3> QED BY <2>3, <3>1, <3>2 DEF Holds
  <2>6. \A c \in Buffers : Holds(q, c, lg[c])
    BY <1>1, <2>3, <2>5, FrameHolds
  <2>7. BufferOK(q, mn, sq, lg)
    BY <1>1, <2>2, <2>3, <2>4, <2>6 DEF BufferOK
  <2> QED BY <1>4, <2>1, <2>7
<1> QED BY <1>2, <1>3, <1>4

\* What appending does to the log.
Logged(lg, b, s) == [lg EXCEPT ![b] = s]

\* A new log entry of one buffer leaves the entries of the others alone.
LEMMA LoggedIs ==
    ASSUME NEW lg, IsLog(lg), NEW b \in Buffers, NEW s, NEW lh, lh = Logged(lg, b, s)
    PROVE  IsLog(lh) /\ lh[b] = s /\ \A c \in Buffers : c # b => lh[c] = lg[c]
  BY DEF Logged, IsLog

\* Logs with the same entries.
LEMMA SameLog ==
    ASSUME NEW lg, IsLog(lg), NEW lh, IsLog(lh), \A b \in Buffers : lh[b] = lg[b]
    PROVE  lh = lg
<1>1. lg = [b \in Buffers |-> lg[b]] /\ lh = [b \in Buffers |-> lh[b]]
  BY DEF IsLog
<1> QED BY <1>1

\* A call that changed one buffer, which now holds s.
LEMMA OneLogged ==
    ASSUME NEW m, NEW mn, NEW sp, NEW lg, BufferOK(m, mn, sp, lg), NEW b \in Buffers,
           NEW q, MemOK(q, mn), Frame(m, q, b, mn), NEW s, Holds(q, b, s),
           NEW lh, lh = Logged(lg, b, s)
    PROVE  BufferOK(q, mn, NoSpare, lh)
<1>1. MemOK(m, mn) /\ IsLog(lg) /\ \A c \in Buffers : Holds(m, c, lg[c])
  BY DEF BufferOK
<1>2. IsLog(lh) /\ lh[b] = s /\ \A c \in Buffers : c # b => lh[c] = lg[c]
  BY <1>1, LoggedIs
<1>3. \A c \in Buffers : Holds(q, c, lh[c])
  BY <1>1, <1>2, FrameHolds
<1> QED BY <1>2, <1>3, NothingReserved

\* cx_buffer_add_size keeps the invariant of all buffers.
LEMMA AddSizeKeeps ==
    ASSUME NEW m, NEW mn, NEW sp, NEW lg, BufferOK(m, mn, sp, lg),
           NEW b \in Buffers, NEW s, IsSeq(s), sp[b] > 0, Len(s) <= sp[b],
           NEW o, o = add_size(Written(m, b, s), b, Len(s)),
           NEW lh, lh = Logged(lg, b, lg[b] \o s)
    PROVE  BufferOK(o.mem, mn, NoSpare, lh) /\ o.rv = 0
<1>1. MemOK(m, mn) /\ Holds(m, b, lg[b]) /\ sp[b] \in Nat /\ m.buf[b].size + sp[b] <= m.buf[b].capacity
  BY DEF BufferOK
<1>2. Len(s) \in Nat /\ m.buf[b].size \in Nat /\ m.buf[b].capacity \in Nat
  BY <1>1, SeqParts, BufferParts
<1>3. m.buf[b].size + Len(s) <= m.buf[b].capacity /\ m.buf[b].capacity > 0
  BY <1>1, <1>2
<1>4. m.buf[b].data # 0
  BY <1>1, <1>3, BufferParts
<1>5. o.rv = 0 /\ Appended(m, o.mem, b, mn, s)
  BY <1>1, <1>3, <1>4, AddSizeIs
<1>6. PICK q : q = o.mem
  OBVIOUS
<1>7. PICK t : t = lg[b] \o s
  OBVIOUS
<1>8. Holds(q, b, t)
  BY <1>1, <1>5, <1>6, <1>7, AppendedHolds
<1>9. MemOK(q, mn) /\ Frame(m, q, b, mn)
  BY <1>5, <1>6 DEF Appended
<1>10. lh = Logged(lg, b, t)
  BY <1>7
<1>11. BufferOK(q, mn, NoSpare, lh)
  BY <1>8, <1>9, <1>10, OneLogged
<1> QED BY <1>5, <1>6, <1>11

\* cx_buffer_append keeps it too, with the appended bytes in the log.
LEMMA AppendKeeps ==
    ASSUME NEW m, NEW mn, NEW sp, NEW lg, BufferOK(m, mn, sp, lg),
           NEW b \in Buffers, NEW s, IsSeq(s), NEW o \in append(m, b, s),
           NEW lh, lh = IF o.rv = 0 THEN Logged(lg, b, lg[b] \o s) ELSE lg
    PROVE  /\ BufferOK(o.mem, mn, NoSpare, lh)
           /\ o.rv = 0 \/ (o.rv \in {ERR_ALLOC, ERR_OVERFLOW} /\ o.mem = m)
           /\ o.rv = 0 => Appended(m, o.mem, b, mn, s)
<1>1. MemOK(m, mn) /\ IsLog(lg) /\ \A c \in Buffers : Holds(m, c, lg[c])
  BY DEF BufferOK
<1>2. \/ o.rv \in {ERR_ALLOC, ERR_OVERFLOW} /\ o.mem = m
      \/ o.rv = 0 /\ Appended(m, o.mem, b, mn, s)
  BY <1>1, AppendIs
<1>3. CASE o.rv \in {ERR_ALLOC, ERR_OVERFLOW} /\ o.mem = m
  <2>1. lh = lg /\ o.rv # 0
    BY <1>3 DEF ERR_ALLOC, ERR_OVERFLOW
  <2> QED BY <1>1, <1>3, <2>1, NothingReserved
<1>4. CASE o.rv = 0 /\ Appended(m, o.mem, b, mn, s)
  <2>1. PICK q : q = o.mem
    OBVIOUS
  <2>2. PICK t : t = lg[b] \o s
    OBVIOUS
  <2>3. Appended(m, q, b, mn, s)
    BY <1>4, <2>1
  <2>4. Holds(q, b, t)
    BY <1>1, <2>2, <2>3, AppendedHolds
  <2>5. MemOK(q, mn) /\ Frame(m, q, b, mn)
    BY <2>3 DEF Appended
  <2>6. lh = Logged(lg, b, t)
    BY <1>4, <2>2
  <2>7. BufferOK(q, mn, NoSpare, lh)
    BY <2>4, <2>5, <2>6, OneLogged
  <2> QED BY <1>4, <2>1, <2>7
<1> QED BY <1>2, <1>3, <1>4

\* cx_buffer_move keeps it, and the log moves with the block.
LEMMA MoveKeeps ==
    ASSUME NEW m, NEW mn, NEW sp, NEW lg, BufferOK(m, mn, sp, lg),
           NEW b \in Buffers, NEW source \in Buffers, NEW q, q = move(m, b, source),
           NEW lh, lh = Logged(Logged(lg, b, lg[source]), source, <<>>)
    PROVE  BufferOK(q, mn, NoSpare, lh)
<1>1. MemOK(m, mn) /\ IsLog(lg) /\ \A c \in Buffers : Holds(m, c, lg[c])
  BY DEF BufferOK
<1>2. PICK li : li = Logged(lg, b, lg[source])
  OBVIOUS
<1>3. PICK t : t = lg[source]
  OBVIOUS
<1>4. IsLog(li) /\ li[b] = t /\ \A c \in Buffers : c # b => li[c] = lg[c]
  BY <1>1, <1>2, <1>3, LoggedIs
<1>5. IsLog(lh) /\ lh[source] = <<>> /\ \A c \in Buffers : c # source => lh[c] = li[c]
  BY <1>2, <1>4, LoggedIs
<1>6. /\ MemOK(q, mn)
      /\ q.buf[source] = Empty
      /\ \A u : b # source /\ Holds(m, source, u) => Holds(q, b, u)
      /\ \A c \in Buffers \ {b, source} : \A u : Holds(m, c, u) => Holds(q, c, u)
  BY <1>1, MoveIs
<1>7. Holds(q, source, <<>>)
  BY <1>6, EmptyHolds, EmptyIs
<1>8. ASSUME NEW c \in Buffers PROVE Holds(q, c, lh[c])
  <2>1. CASE c = source
    BY <1>5, <1>7, <2>1
  <2>2. CASE c # source /\ c = b
    BY <1>1, <1>3, <1>4, <1>5, <1>6, <2>2
  <2>3. CASE c # source /\ c # b
    BY <1>1, <1>4, <1>5, <1>6, <2>3
  <2> QED BY <2>1, <2>2, <2>3
<1> QED BY <1>5, <1>6, <1>8, NothingReserved

\* cx_buffer_unwrap keeps it: the block leaves the structure as a whole.
LEMMA UnwrapKeeps ==
    ASSUME NEW m, NEW mn, NEW sp, NEW lg, BufferOK(m, mn, sp, lg),
           NEW b \in Buffers, NEW q, q = unwrap(m, b),
           NEW mx, mx = GivenOut(mn, m, b),
           NEW lh, lh = Logged(lg, b, <<>>)
    PROVE  BufferOK(q, mx, NoSpare, lh)
<1>1. MemOK(m, mn) /\ IsLog(lg) /\ \A c \in Buffers : Holds(m, c, lg[c])
  BY DEF BufferOK
<1>2. /\ MemOK(q, mx)
      /\ q.heap = m.heap
      /\ q.buf[b] = Empty
      /\ \A c \in Buffers : c # b => q.buf[c] = m.buf[c]
  BY <1>1, UnwrapIs
<1>3. IsLog(lh) /\ lh[b] = <<>> /\ \A c \in Buffers : c # b => lh[c] = lg[c]
  BY <1>1, LoggedIs
<1>4. Holds(q, b, <<>>)
  BY <1>2, EmptyHolds, EmptyIs
<1>5. \A c \in Buffers : c # b => Holds(q, c, lg[c])
  BY <1>1, <1>2 DEF Holds
<1>6. \A c \in Buffers : Holds(q, c, lh[c])
  BY <1>3, <1>4, <1>5
<1> QED BY <1>2, <1>3, <1>6, NothingReserved

\* A caller that frees its own block keeps it: no buffer shares the block.
LEMMA FreeKeeps ==
    ASSUME NEW m, NEW mn, NEW sp, NEW lg, BufferOK(m, mn, sp, lg),
           NEW a \in mn, NEW q, q = WithBlock(m, a, <<>>)
    PROVE  BufferOK(q, mn \ {a}, NoSpare, lg)
<1>1. MemOK(m, mn) /\ IsLog(lg) /\ \A c \in Buffers : Holds(m, c, lg[c])
  BY DEF BufferOK
<1>2. IsSeq(<<>>)
  BY DEF IsSeq
<1>3. PICK mx : mx = mn \ {a}
  OBVIOUS
<1>4. PICK s : s = <<>>
  OBVIOUS
<1>5. /\ MemOK(q, mx)
      /\ q.buf = m.buf
      /\ \A x \in Addrs : x # a => q.heap[x] = m.heap[x]
  <2>1. mx = OwnedWith(mn, a, s) /\ q = WithBlock(m, a, s) /\ IsSeq(s)
    BY <1>2, <1>3, <1>4 DEF OwnedWith
  <2>2. Rewritten(m, q, a, s, mx)
    BY <1>1, <2>1, OwnBlock
  <2> QED BY <2>2 DEF Rewritten
<1>6. ASSUME NEW c \in Buffers PROVE Holds(q, c, lg[c])
  <2>1. Holds(m, c, lg[c]) /\ m.buf[c].data # a
    BY <1>1, NullIsNoAddress DEF MemOK
  <2>2. CASE m.buf[c].data = 0
    <3>1. m.buf[c].size = 0
      BY <1>1, <2>2, BufferParts
    <3>2. \A i \in 1 .. 0 : FALSE
      OBVIOUS
    <3> QED BY <1>5, <2>1, <3>1, <3>2 DEF Holds
  <2>3. CASE m.buf[c].data # 0
    <3>1. m.buf[c].data \in Addrs
      BY <1>1, <2>3, BufferParts
    <3> QED BY <1>5, <2>1, <3>1 DEF Holds
  <2> QED BY <2>2, <2>3
<1> QED BY <1>1, <1>3, <1>5, <1>6, NothingReserved

\* The strings of callers and iterators.
LEMMA TextIs ==
    ASSUME NEW s \in Texts
    PROVE  IsSeq(s)
  BY SeqOf, CollectorAssumption DEF CollectorAssumption

\* A call of a buffer function keeps the invariant, and if it fails it leaves
\* memory alone.
LEMMA BufferCallKeeps ==
    ASSUME BufferInv, BufferCall(Sizes, Texts)
    PROVE  BufferInv' /\ rv' \in {0, ERR_ALLOC, ERR_OVERFLOW} /\ (rv' # 0 => mem' = mem)
<1>1. PICK m : m = mem
  OBVIOUS
<1>2. PICK mn : mn = mine
  OBVIOUS
<1>3. PICK sp : sp = spare
  OBVIOUS
<1>4. PICK lg : lg = log
  OBVIOUS
<1>5. BufferOK(m, mn, sp, lg)
  BY <1>1, <1>2, <1>3, <1>4 DEF BufferInv
<1>6. PICK q : q = mem'
  OBVIOUS
<1>7. PICK lh : lh = log'
  OBVIOUS
<1>8. SUFFICES BufferOK(q, mine', spare', lh) /\ rv' \in {0, ERR_ALLOC, ERR_OVERFLOW} /\ (rv' # 0 => q = m)
  BY <1>1, <1>6, <1>7 DEF BufferInv
<1>9. ASSUME NEW b \in Buffers, NEW n \in Sizes, NEW exact \in BOOLEAN, cx_buffer_add_capacity(b, n, exact)
      PROVE  BufferOK(q, mine', spare', lh) /\ rv' \in {0, ERR_ALLOC, ERR_OVERFLOW} /\ (rv' # 0 => q = m)
  <2>1. PICK o \in add_capacity(m, b, n, exact) :
           /\ q = o.mem
           /\ rv' = o.rv
           /\ spare' = [NoSpare EXCEPT ![b] = IF o.rv = 0 THEN n ELSE 0]
    BY <1>1, <1>6, <1>9 DEF cx_buffer_add_capacity
  <2>2. mine' = mn /\ lh = lg
    BY <1>2, <1>4, <1>7, <1>9 DEF cx_buffer_add_capacity
  <2>3. PICK sq : sq = spare'
    OBVIOUS
  <2>4. n \in Nat
    BY CollectorAssumption DEF CollectorAssumption
  <2>5. sq = ReservedIn(b, IF o.rv = 0 THEN n ELSE 0)
    BY <2>1, <2>3 DEF ReservedIn
  <2>6. BufferOK(o.mem, mn, sq, lg) /\ (o.rv = 0 \/ (o.rv \in {ERR_ALLOC, ERR_OVERFLOW} /\ o.mem = m))
    BY <1>5, <2>4, <2>5, AddCapacityKeeps
  <2> QED BY <2>1, <2>2, <2>3, <2>6
<1>10. ASSUME NEW b \in Buffers, NEW s \in Texts, cx_buffer_add_size(b, s)
       PROVE  BufferOK(q, mine', spare', lh) /\ rv' \in {0, ERR_ALLOC, ERR_OVERFLOW} /\ (rv' # 0 => q = m)
  <2>1. PICK o : o = add_size(Written(m, b, s), b, Len(s))
    OBVIOUS
  <2>2. q = o.mem /\ rv' = o.rv /\ spare' = NoSpare /\ mine' = mn /\ sp[b] > 0 /\ Len(s) <= sp[b]
    BY <1>1, <1>2, <1>3, <1>6, <1>10, <2>1 DEF cx_buffer_add_size
  <2>3. lh = Logged(lg, b, lg[b] \o s)
    <3>1. lh = [lg EXCEPT ![b] = lg[b] \o s]
      BY <1>4, <1>7, <1>10 DEF cx_buffer_add_size
    <3> QED BY <3>1 DEF Logged
  <2>4. BufferOK(o.mem, mn, NoSpare, lh) /\ o.rv = 0
    BY <1>5, <2>1, <2>2, <2>3, TextIs, AddSizeKeeps
  <2> QED BY <2>2, <2>4
<1>11. ASSUME NEW b \in Buffers, NEW s \in Texts, cx_buffer_append(b, s)
       PROVE  BufferOK(q, mine', spare', lh) /\ rv' \in {0, ERR_ALLOC, ERR_OVERFLOW} /\ (rv' # 0 => q = m)
  <2>1. PICK o \in append(m, b, s) :
           q = o.mem /\ rv' = o.rv /\ lh = IF o.rv = 0 THEN [lg EXCEPT ![b] = lg[b] \o s] ELSE lg
    BY <1>1, <1>4, <1>6, <1>7, <1>11 DEF cx_buffer_append
  <2>2. spare' = NoSpare /\ mine' = mn
    BY <1>2, <1>11 DEF cx_buffer_append
  <2>3. lh = IF o.rv = 0 THEN Logged(lg, b, lg[b] \o s) ELSE lg
    BY <2>1 DEF Logged
  <2>4. BufferOK(o.mem, mn, NoSpare, lh) /\ (o.rv = 0 \/ (o.rv \in {ERR_ALLOC, ERR_OVERFLOW} /\ o.mem = m))
    BY <1>5, <2>3, TextIs, AppendKeeps
  <2> QED BY <2>1, <2>2, <2>4
<1>12. ASSUME NEW b \in Buffers, NEW source \in Buffers, cx_buffer_move(b, source)
       PROVE  BufferOK(q, mine', spare', lh) /\ rv' \in {0, ERR_ALLOC, ERR_OVERFLOW} /\ (rv' # 0 => q = m)
  <2>1. q = move(m, b, source) /\ spare' = NoSpare /\ mine' = mn /\ rv' = 0
    BY <1>1, <1>2, <1>6, <1>12 DEF cx_buffer_move
  <2>2. lh = Logged(Logged(lg, b, lg[source]), source, <<>>)
    <3>1. lh = [lg EXCEPT ![b] = lg[source], ![source] = <<>>]
      BY <1>4, <1>7, <1>12 DEF cx_buffer_move
    <3> QED BY <3>1 DEF Logged
  <2>3. BufferOK(q, mn, NoSpare, lh)
    BY <1>5, <2>1, <2>2, MoveKeeps
  <2> QED BY <2>1, <2>3
<1>13. ASSUME NEW b \in Buffers, cx_buffer_drain(b)
       PROVE  BufferOK(q, mine', spare', lh) /\ rv' \in {0, ERR_ALLOC, ERR_OVERFLOW} /\ (rv' # 0 => q = m)
  <2>1. q = Drained(m, b) /\ spare' = NoSpare /\ mine' = mn /\ rv' = 0 /\ lh = Logged(lg, b, <<>>)
    BY <1>1, <1>2, <1>4, <1>6, <1>7, <1>13 DEF cx_buffer_drain, Drained, Logged
  <2>2. MemOK(m, mn)
    BY <1>5 DEF BufferOK
  <2>3. MemOK(q, mn) /\ Frame(m, q, b, mn) /\ q.buf[b].size = 0
    BY <2>1, <2>2, DrainIs
  <2>4. PICK s : s = <<>>
    OBVIOUS
  <2>5. Holds(q, b, s) /\ lh = Logged(lg, b, s)
    BY <2>1, <2>3, <2>4, EmptyHolds
  <2>6. BufferOK(q, mn, NoSpare, lh)
    BY <1>5, <2>3, <2>5, OneLogged
  <2> QED BY <2>1, <2>6
<1>14. ASSUME NEW b \in Buffers, cx_buffer_unwrap(b)
       PROVE  BufferOK(q, mine', spare', lh) /\ rv' \in {0, ERR_ALLOC, ERR_OVERFLOW} /\ (rv' # 0 => q = m)
  <2>1. PICK mx : mx = mine'
    OBVIOUS
  <2>2. /\ q = unwrap(m, b) /\ spare' = NoSpare /\ rv' = 0
        /\ mx = GivenOut(mn, m, b)
        /\ lh = Logged(lg, b, <<>>)
    BY <1>1, <1>2, <1>4, <1>6, <1>7, <1>14, <2>1 DEF cx_buffer_unwrap, GivenOut, Logged
  <2>3. BufferOK(q, mx, NoSpare, lh)
    BY <1>5, <2>2, UnwrapKeeps
  <2> QED BY <2>1, <2>2, <2>3
<1>15. ASSUME NEW b \in Buffers, cx_buffer_cleanup(b)
       PROVE  BufferOK(q, mine', spare', lh) /\ rv' \in {0, ERR_ALLOC, ERR_OVERFLOW} /\ (rv' # 0 => q = m)
  <2>1. q = cleanup(m, b) /\ spare' = NoSpare /\ mine' = mn /\ rv' = 0 /\ lh = Logged(lg, b, <<>>)
    BY <1>1, <1>2, <1>4, <1>6, <1>7, <1>15 DEF cx_buffer_cleanup, Logged
  <2>2. MemOK(m, mn)
    BY <1>5 DEF BufferOK
  <2>3. MemOK(q, mn) /\ Frame(m, q, b, mn) /\ q.buf[b] = Empty
    BY <2>1, <2>2, CleanupIs
  <2>4. PICK s : s = <<>>
    OBVIOUS
  <2>5. Holds(q, b, s) /\ lh = Logged(lg, b, s)
    BY <2>1, <2>3, <2>4, EmptyHolds, EmptyIs
  <2>6. BufferOK(q, mn, NoSpare, lh)
    BY <1>5, <2>3, <2>5, OneLogged
  <2> QED BY <2>1, <2>6
<1>16. ASSUME NEW a \in mine, free(a)
       PROVE  BufferOK(q, mine', spare', lh) /\ rv' \in {0, ERR_ALLOC, ERR_OVERFLOW} /\ (rv' # 0 => q = m)
  <2>1. q = WithBlock(m, a, <<>>) /\ spare' = NoSpare /\ mine' = mn \ {a} /\ rv' = 0 /\ lh = lg /\ a \in mn
    BY <1>1, <1>2, <1>4, <1>6, <1>7, <1>16 DEF free, WithBlock
  <2>2. BufferOK(q, mn \ {a}, NoSpare, lg)
    BY <1>5, <2>1, FreeKeeps
  <2> QED BY <2>1, <2>2
<1> QED BY <1>9, <1>10, <1>11, <1>12, <1>13, <1>14, <1>15, <1>16 DEF BufferCall

\* The first state.
LEMMA InitHolds == Init => CollectorInv
<1> SUFFICES ASSUME Init PROVE CollectorInv
  OBVIOUS
<1>1. PICK m : m = mem
  OBVIOUS
<1>2. PICK f : f = [b \in Buffers |-> Empty]
  OBVIOUS
<1>3. PICK h : h = [a \in Addrs |-> <<>>]
  OBVIOUS
<1>4. m = [buf |-> f, heap |-> h]
  BY <1>1, <1>2, <1>3 DEF Init, BufferInit
<1>5. m.buf = f /\ m.heap = h /\ m = [buf |-> m.buf, heap |-> m.heap]
  BY <1>4, MemParts
<1>6. /\ m.buf \in [Buffers -> BufferSet]
      /\ \A b \in Buffers : m.buf[b] = Empty
      /\ IsHeap(m.heap)
      /\ \A a \in Addrs : m.heap[a] = <<>>
  BY <1>2, <1>3, <1>5, EmptyIs DEF IsHeap
<1>7. IsSeq(<<>>) /\ Len(<<>>) = 0
  BY DEF IsSeq
<1>8. MemOK(m, {})
  BY <1>5, <1>6, <1>7, EmptyIs, SizeMax DEF MemOK
<1>9. PICK lg : lg = log
  OBVIOUS
<1>10. IsLog(lg) /\ \A b \in Buffers : lg[b] = <<>>
  BY <1>9 DEF Init, BufferInit, IsLog
<1>11. \A b \in Buffers : Holds(m, b, lg[b])
  BY <1>6, <1>10, EmptyHolds, EmptyIs
<1>12. BufferOK(m, {}, NoSpare, lg)
  BY <1>8, <1>10, <1>11, NothingReserved
<1>13. BufferInv
  BY <1>1, <1>9, <1>12 DEF BufferInv, Init, BufferInit
<1>14. yielded \in Seq(Texts)
  BY DEF Init
<1> QED BY <1>13, <1>14 DEF Init, BufferInit, CollectorInv, Collected

-----------------------------------------------------------------------------
\* The array of pointers.

\* A word is WORD cells.
LEMMA WordIs ==
    ASSUME NEW v, NEW s, s = Word(v)
    PROVE  IsSeq(s) /\ Len(s) = WORD /\ \A p \in 1 .. WORD : s[p] = [word |-> v, part |-> p]
<1>1. WORD \in Nat
  BY CollectorAssumption DEF CollectorAssumption
<1>2. s = [p \in 1 .. WORD |-> s[p]] /\ \A p \in 1 .. WORD : s[p] = [word |-> v, part |-> p]
  BY DEF Word
<1> QED BY <1>1, <1>2, SeqMade

\* The i-th word of n lies inside the array.
LEMMA WordsFit ==
    ASSUME NEW n \in Nat, NEW i \in 1 .. n
    PROVE  (i - 1) * WORD \in Nat /\ n * WORD \in Nat /\ (i - 1) * WORD + WORD <= n * WORD
<1>1. WORD \in Nat
  BY CollectorAssumption DEF CollectorAssumption
<1>2. PICK w : w = WORD
  OBVIOUS
<1>3. w \in Nat /\ n - i \in Nat /\ i - 1 \in Nat
  BY <1>1, <1>2
<1>4. PICK x : x = (n - i) * w
  OBVIOUS
<1>5. PICK y : y = (i - 1) * w
  OBVIOUS
<1>6. PICK z : z = n * w
  OBVIOUS
<1>7. x \in Nat /\ y \in Nat /\ z \in Nat
  BY <1>3, <1>4, <1>5, <1>6
<1>8. z = x + y + w
  BY <1>3, <1>4, <1>5, <1>6
<1>9. y + w <= z
  BY <1>3, <1>7, <1>8
<1> QED BY <1>2, <1>5, <1>6, <1>7, <1>9

\* handle_next adds a word, the string and a NUL.
LEMMA LayoutGrows ==
    ASSUME NEW words, IsSeq(words), NEW text, IsSeq(text), NEW ys \in Seq(Texts),
           Layout(words, text, ys), NEW value \in Texts,
           NEW words2, words2 = words \o Word(Len(text)),
           NEW text1, text1 = text \o value,
           NEW text2, text2 = text1 \o <<NUL>>,
           NEW ys2, ys2 = Append(ys, value)
    PROVE  Layout(words2, text2, ys2)
<1>1. PICK n : n = Len(ys)
  OBVIOUS
<1>2. PICK l : l = Len(text)
  OBVIOUS
<1>3. PICK word : word = Word(l)
  OBVIOUS
<1>4. IsSeq(word) /\ Len(word) = WORD /\ \A p \in 1 .. WORD : word[p] = [word |-> l, part |-> p]
  BY <1>3, WordIs
<1>5. PICK z : z = <<NUL>>
  OBVIOUS
<1>6. IsSeq(z) /\ Len(z) = 1 /\ z[1] = NUL
  <2>1. z \in Seq({NUL}) /\ Len(z) = 1 /\ z[1] = NUL
    BY <1>5
  <2> QED BY <2>1, SeqOf
<1>7. IsSeq(value) /\ IsSeq(text1)
  <2>1. IsSeq(value)
    BY TextIs
  <2>2. IsCat(text1, text, value)
    BY <2>1, CatIs
  <2> QED BY <2>1, <2>2 DEF IsCat
<1>8. IsCat(words2, words, word) /\ IsCat(text1, text, value) /\ IsCat(text2, text1, z)
  BY <1>2, <1>3, <1>4, <1>5, <1>6, <1>7, CatIs
<1>9. /\ n \in Nat /\ Len(ys2) = n + 1 /\ ys2[n + 1] = value
      /\ \A i \in 1 .. n : ys2[i] = ys[i] /\ ys[i] \in Texts
  BY <1>1
<1>10. WORD \in Nat \ {0} /\ l \in Nat /\ Len(words) = n * WORD /\ n * WORD \in Nat /\ Len(value) \in Nat
  <2>1. WORD \in Nat \ {0} /\ l \in Nat /\ Len(value) \in Nat
    BY <1>2, <1>7, SeqParts, CollectorAssumption DEF CollectorAssumption
  <2>2. Len(words) = n * WORD /\ Len(words) \in Nat
    BY <1>1, SeqParts DEF Layout
  <2> QED BY <2>1, <2>2
<1>11. Len(words2) = (n + 1) * WORD
  <2>1. Len(words2) = Len(words) + WORD
    BY <1>4, <1>8 DEF IsCat
  <2>2. (n + 1) * WORD = n * WORD + WORD
    BY <1>9, <1>10
  <2> QED BY <1>10, <2>1, <2>2
<1>12. /\ Len(text1) = l + Len(value) /\ Len(text2) = l + Len(value) + 1
       /\ \A p \in 1 .. l : text2[p] = text[p]
       /\ \A p \in 1 .. Len(value) : text2[l + p] = value[p]
       /\ text2[l + Len(value) + 1] = NUL
  <2>1. Len(text1) = l + Len(value) /\ Len(text2) = Len(text1) + 1
    BY <1>2, <1>6, <1>8 DEF IsCat
  <2>2. \A p \in 1 .. l : text1[p] = text[p]
    BY <1>2, <1>8 DEF IsCat
  <2>3. \A p \in 1 .. Len(value) : text1[l + p] = value[p]
    BY <1>2, <1>8 DEF IsCat
  <2>4. \A p \in 1 .. Len(text1) : text2[p] = text1[p]
    BY <1>8 DEF IsCat
  <2>5. text2[Len(text1) + 1] = NUL
    BY <1>6, <1>8 DEF IsCat
  <2> QED BY <1>10, <2>1, <2>2, <2>3, <2>4, <2>5
<1>13. /\ \A p \in 1 .. n * WORD : words2[p] = words[p]
       /\ \A p \in 1 .. WORD : words2[n * WORD + p] = [word |-> l, part |-> p]
  BY <1>4, <1>8, <1>10 DEF IsCat
<1>14. ASSUME NEW i \in 1 .. n PROVE \E offset \in Nat : Laid(words2, text2, ys2, i, offset)
  <2>1. PICK offset \in Nat : Laid(words, text, ys, i, offset)
    BY <1>1 DEF Layout
  <2>2. PICK k : k = (i - 1) * WORD
    OBVIOUS
  <2>3. k \in Nat /\ k + WORD <= n * WORD
    BY <1>9, <2>2, WordsFit
  <2>4. \A p \in 1 .. WORD : k + p \in 1 .. n * WORD
    BY <1>10, <2>3
  <2>5. \A p \in 1 .. WORD : words2[k + p] = [word |-> offset, part |-> p]
    BY <1>13, <2>1, <2>2, <2>4 DEF Laid
  <2>6. PICK y : y = ys[i]
    OBVIOUS
  <2>7. ys2[i] = y /\ Len(y) \in Nat
    BY <1>9, <2>6, TextIs, SeqParts
  <2>8. /\ offset + Len(y) + 1 <= l
        /\ \A p \in 1 .. Len(y) : text[offset + p] = y[p]
        /\ text[offset + Len(y) + 1] = NUL
    BY <1>2, <2>1, <2>6 DEF Laid
  <2>9. /\ offset + Len(y) + 1 <= Len(text2)
        /\ \A p \in 1 .. Len(y) : text2[offset + p] = y[p]
        /\ text2[offset + Len(y) + 1] = NUL
    <3>1. \A p \in 1 .. Len(y) : offset + p \in 1 .. l
      <4>1. PICK ly : ly = Len(y)
        OBVIOUS
      <4>2. ly \in Nat /\ offset + ly + 1 <= l
        BY <2>7, <2>8, <4>1
      <4>3. \A p \in 1 .. ly : offset + p \in 1 .. l
        BY <1>10, <4>2
      <4> QED BY <4>1, <4>3
    <3>2. offset + Len(y) + 1 \in 1 .. l
      <4>1. PICK ly : ly = Len(y)
        OBVIOUS
      <4>2. ly \in Nat /\ offset + ly + 1 <= l
        BY <2>7, <2>8, <4>1
      <4>3. offset + ly + 1 \in 1 .. l
        BY <1>10, <4>2
      <4> QED BY <4>1, <4>3
    <3>3. offset + Len(y) + 1 <= Len(text2)
      <4>1. Len(text2) \in Nat /\ l <= Len(text2)
        BY <1>10, <1>12
      <4> QED BY <1>10, <2>7, <2>8, <4>1
    <3> QED BY <1>12, <2>8, <3>1, <3>2, <3>3
  <2>10. Laid(words2, text2, ys2, i, offset)
    BY <2>2, <2>5, <2>7, <2>9 DEF Laid
  <2> QED BY <2>10
<1>15. Laid(words2, text2, ys2, n + 1, l)
  <2>1. ((n + 1) - 1) * WORD = n * WORD
    BY <1>9
  <2>2. \A p \in 1 .. WORD : words2[((n + 1) - 1) * WORD + p] = [word |-> l, part |-> p]
    BY <1>13, <2>1
  <2>3. PICK y : y = ys2[n + 1]
    OBVIOUS
  <2>4. y = value
    BY <1>9, <2>3
  <2>5. l + Len(y) + 1 <= Len(text2)
    <3>1. PICK ly : ly = Len(value)
      OBVIOUS
    <3>2. Len(text2) = l + ly + 1 /\ ly \in Nat
      BY <1>10, <1>12, <3>1
    <3> QED BY <1>10, <2>4, <3>1, <3>2
  <2>6. (\A p \in 1 .. Len(y) : text2[l + p] = y[p]) /\ text2[l + Len(y) + 1] = NUL
    BY <1>12, <2>4
  <2> QED BY <2>2, <2>3, <2>5, <2>6 DEF Laid
<1>16. ASSUME NEW i \in 1 .. n + 1 PROVE \E offset \in Nat : Laid(words2, text2, ys2, i, offset)
  <2>1. i \in 1 .. n \/ i = n + 1
    BY <1>9
  <2> QED BY <1>10, <1>14, <1>15, <2>1
<1> QED BY <1>9, <1>11, <1>16 DEF Layout

\* Nothing was yielded yet.
LEMMA LayoutStarts == Layout(<<>>, <<>>, <<>>)
<1>1. Len(<<>>) = 0 /\ \A i \in 1 .. 0 : FALSE
  OBVIOUS
<1>2. WORD \in Nat
  BY CollectorAssumption DEF CollectorAssumption
<1>3. 0 * WORD = 0
  BY <1>2
<1> QED BY <1>1, <1>3 DEF Layout

\* The array after the NULL pointer and the strings were appended and the
\* offsets became addresses.
LEMMA FixUpDelivers ==
    ASSUME NEW words, IsSeq(words), NEW text, IsSeq(text), NEW ys \in Seq(Texts),
           Layout(words, text, ys), NEW a \in Nat, NEW base, base = Len(words) + WORD,
           NEW block, IsSeq(block), base + Len(text) <= Len(block),
           \A p \in 1 .. Len(words) : block[p] = words[p],
           \A p \in 1 .. WORD : block[Len(words) + p] = [word |-> 0, part |-> p],
           \A p \in 1 .. Len(text) : block[base + p] = text[p],
           NEW fixed, fixed = FixUp(block, a, base, Len(ys))
    PROVE  IsSeq(fixed) /\ Len(fixed) = Len(block) /\ Delivered(fixed, a, ys)
<1>1. PICK n : n = Len(ys)
  OBVIOUS
<1>2. PICK k : k = n * WORD
  OBVIOUS
<1>3. PICK size : size = Len(block)
  OBVIOUS
<1>4. PICK l : l = Len(text)
  OBVIOUS
<1>5. n \in Nat /\ WORD \in Nat \ {0} /\ size \in Nat /\ l \in Nat
  BY <1>1, <1>3, <1>4, SeqParts, CollectorAssumption DEF CollectorAssumption
<1>6. k = Len(words) /\ k \in Nat /\ base = k + WORD /\ base \in Nat /\ base + l <= size
  <2>1. k = Len(words) /\ Len(words) \in Nat
    BY <1>1, <1>2, SeqParts DEF Layout
  <2> QED BY <1>3, <1>4, <1>5, <2>1
<1>7. /\ fixed = [i \in 1 .. size |-> fixed[i]]
      /\ \A i \in 1 .. size : i <= k => fixed[i] = [block[i] EXCEPT !.word = @ + base + a]
      /\ \A i \in 1 .. size : ~(i <= k) => fixed[i] = block[i]
  BY <1>1, <1>2, <1>3 DEF FixUp
<1>8. IsSeq(fixed) /\ Len(fixed) = size
  BY <1>5, <1>7, SeqMade
<1>9. /\ \A p \in 1 .. WORD : fixed[k + p] = [word |-> 0, part |-> p]
      /\ \A p \in 1 .. l : fixed[base + p] = text[p]
  <2>1. ASSUME NEW p \in 1 .. WORD PROVE fixed[k + p] = [word |-> 0, part |-> p]
    <3>1. k + p \in 1 .. size /\ ~(k + p <= k)
      BY <1>5, <1>6
    <3>2. block[k + p] = [word |-> 0, part |-> p]
      BY <1>6
    <3> QED BY <1>7, <3>1, <3>2
  <2>2. ASSUME NEW p \in 1 .. l PROVE fixed[base + p] = text[p]
    <3>1. base + p \in 1 .. size /\ ~(base + p <= k)
      BY <1>5, <1>6
    <3>2. block[base + p] = text[p]
      BY <1>4
    <3> QED BY <1>7, <3>1, <3>2
  <2> QED BY <2>1, <2>2
<1>10. SubSeq(fixed, k + 1, k + WORD) = Word(0)
  <2>1. PICK u : u = SubSeq(fixed, k + 1, k + WORD)
    OBVIOUS
  <2>2. PICK i : i = k + 1
    OBVIOUS
  <2>3. PICK j : j = k + WORD
    OBVIOUS
  <2>4. i \in Nat \ {0} /\ j \in Nat /\ i <= j + 1 /\ j <= Len(fixed) /\ j - i + 1 = WORD /\ u = SubSeq(fixed, i, j)
    BY <1>5, <1>6, <1>8, <2>1, <2>2, <2>3
  <2>5. IsSeq(u) /\ Len(u) = WORD /\ \A p \in 1 .. WORD : u[p] = fixed[i + p - 1]
    <3>1. IsSeq(u) /\ Len(u) = j - i + 1 /\ \A p \in 1 .. j - i + 1 : u[p] = fixed[i + p - 1]
      BY <1>8, <2>4, SubSeqIs
    <3> QED BY <2>4, <3>1
  <2>6. \A p \in 1 .. WORD : i + p - 1 = k + p
    BY <1>5, <1>6, <2>2
  <2>7. PICK v : v = Word(0)
    OBVIOUS
  <2>8. IsSeq(v) /\ Len(v) = WORD /\ \A p \in 1 .. WORD : v[p] = [word |-> 0, part |-> p]
    <3>1. PICK c : c = 0
      OBVIOUS
    <3>2. v = Word(c)
      BY <2>7, <3>1
    <3>3. IsSeq(v) /\ Len(v) = WORD /\ \A p \in 1 .. WORD : v[p] = [word |-> c, part |-> p]
      BY <3>2, WordIs
    <3> QED BY <3>1, <3>3
  <2>9. \A p \in 1 .. WORD : u[p] = v[p]
    BY <1>9, <2>5, <2>6, <2>8
  <2>10. u = v
    BY <2>5, <2>8, <2>9, SeqSame
  <2> QED BY <2>1, <2>7, <2>10
<1>11. SubSeq(fixed, Len(ys) * WORD + 1, (Len(ys) + 1) * WORD) = Word(0)
  <2>1. (n + 1) * WORD = k + WORD
    BY <1>2, <1>5
  <2> QED BY <1>1, <1>2, <1>10, <2>1
<1>12. ASSUME NEW i \in 1 .. n
       PROVE  LET from == WordAt(fixed, i - 1) - a
                  to   == from + Len(ys[i]) + 1
              IN  /\ from >= 0 /\ to <= Len(fixed)
                  /\ SubSeq(fixed, from + 1, to) = ys[i] \o <<NUL>>
  <2>1. PICK offset \in Nat : Laid(words, text, ys, i, offset)
    BY <1>1 DEF Layout
  <2>2. PICK j : j = (i - 1) * WORD
    OBVIOUS
  <2>3. j \in Nat /\ j + WORD <= k
    BY <1>2, <1>5, <2>2, WordsFit
  <2>4. j + 1 \in 1 .. size /\ j + 1 <= k /\ j + 1 \in 1 .. Len(words) /\ 1 \in 1 .. WORD
    BY <1>5, <1>6, <2>3
  <2>5. words[j + 1] = [word |-> offset, part |-> 1]
    BY <2>1, <2>2, <2>4 DEF Laid
  <2>6. block[j + 1] = [word |-> offset, part |-> 1]
    BY <2>4, <2>5
  <2>7. fixed[j + 1] = [block[j + 1] EXCEPT !.word = @ + base + a]
    BY <1>7, <2>4
  <2>8. fixed[j + 1].word = offset + base + a
    BY <2>6, <2>7
  <2>9. WordAt(fixed, i - 1) = offset + base + a
    BY <2>2, <2>8 DEF WordAt
  <2>10. PICK from : from = WordAt(fixed, i - 1) - a
    OBVIOUS
  <2>11. from = offset + base /\ from \in Nat
    BY <1>6, <2>9, <2>10
  <2>12. PICK y : y = ys[i]
    OBVIOUS
  <2>13. IsSeq(y) /\ Len(y) \in Nat
    <3>1. y \in Texts
      BY <1>1, <2>12
    <3> QED BY <3>1, TextIs, SeqParts
  <2>14. PICK ly : ly = Len(y)
    OBVIOUS
  <2>15. PICK to : to = from + ly + 1
    OBVIOUS
  <2>16. /\ ly \in Nat
         /\ offset + ly + 1 <= l
         /\ \A p \in 1 .. ly : text[offset + p] = y[p]
         /\ text[offset + ly + 1] = NUL
    BY <1>4, <2>1, <2>12, <2>13, <2>14 DEF Laid
  <2>17. /\ from + 1 \in Nat \ {0} /\ to \in Nat /\ from + 1 <= to + 1 /\ to <= Len(fixed)
         /\ to - (from + 1) + 1 = ly + 1
    BY <1>5, <1>6, <1>8, <2>11, <2>15, <2>16
  <2>18. PICK u : u = SubSeq(fixed, from + 1, to)
    OBVIOUS
  <2>19. IsSeq(u) /\ Len(u) = ly + 1 /\ \A p \in 1 .. ly + 1 : u[p] = fixed[(from + 1) + p - 1]
    <3>1. PICK f : f = from + 1
      OBVIOUS
    <3>2. /\ f \in Nat \ {0} /\ to \in Nat /\ f <= to + 1 /\ to <= Len(fixed)
          /\ to - f + 1 = ly + 1 /\ u = SubSeq(fixed, f, to)
      BY <2>17, <2>18, <3>1
    <3>3. IsSeq(u) /\ Len(u) = to - f + 1 /\ \A p \in 1 .. to - f + 1 : u[p] = fixed[f + p - 1]
      BY <1>8, <3>2, SubSeqIs
    <3> QED BY <3>1, <3>2, <3>3
  <2>20. \A p \in 1 .. ly + 1 : u[p] = text[offset + p]
    <3> SUFFICES ASSUME NEW p \in 1 .. ly + 1 PROVE u[p] = text[offset + p]
      OBVIOUS
    <3>1. (from + 1) + p - 1 = base + (offset + p)
      <4>1. p \in Nat
        BY <2>16
      <4>2. base \in Nat /\ offset \in Nat
        BY <1>6
      <4>3. \A i1, i2, i3 \in Nat : ((i1 + i2) + 1) + i3 - 1 = i2 + (i1 + i3)
        OBVIOUS
      <4>4. ((offset + base) + 1) + p - 1 = base + (offset + p)
        BY <4>1, <4>2, <4>3, Zenon
      <4> QED BY <2>11, <4>4, Zenon
    <3>2. offset + p \in 1 .. l
      BY <1>5, <2>16
    <3>3. fixed[base + (offset + p)] = text[offset + p]
      BY <1>9, <3>2
    <3> QED BY <2>19, <3>1, <3>3
  <2>21. PICK z : z = <<NUL>>
    OBVIOUS
  <2>22. IsSeq(z) /\ Len(z) = 1 /\ z[1] = NUL
    <3>1. z \in Seq({NUL}) /\ Len(z) = 1 /\ z[1] = NUL
      BY <2>21
    <3> QED BY <3>1, SeqOf
  <2>23. PICK v : v = y \o z
    OBVIOUS
  <2>24. IsCat(v, y, z)
    BY <2>13, <2>22, <2>23, CatIs
  <2>25. IsSeq(v) /\ Len(v) = ly + 1 /\ (\A p \in 1 .. ly : v[p] = y[p]) /\ v[ly + 1] = NUL
    BY <2>14, <2>22, <2>24 DEF IsCat
  <2>26. ASSUME NEW p \in 1 .. ly + 1 PROVE u[p] = v[p]
    <3>1. CASE p \in 1 .. ly
      BY <2>16, <2>20, <2>25, <3>1
    <3>2. CASE p = ly + 1
      <4>1. offset + p = offset + ly + 1
        BY <2>16, <3>2
      <4> QED BY <2>16, <2>20, <2>25, <3>2, <4>1
    <3> QED BY <2>16, <3>1, <3>2
  <2>27. u = v
    BY <2>19, <2>25, <2>26, SeqSame
  <2>28. from >= 0 /\ to <= Len(fixed) /\ SubSeq(fixed, from + 1, to) = y \o <<NUL>>
    <3>1. SubSeq(fixed, from + 1, to) = y \o <<NUL>>
      BY <2>18, <2>21, <2>23, <2>27, Zenon
    <3>2. from >= 0 /\ to <= Len(fixed)
      BY <2>11, <2>17
    <3> QED BY <3>1, <3>2, Zenon
  <2> QED BY <2>10, <2>12, <2>14, <2>15, <2>28
<1> QED BY <1>1, <1>3, <1>8, <1>11, <1>12 DEF Delivered

-----------------------------------------------------------------------------
\* The steps of cx_collect.

\* Its buffers.
LEMMA LocalBuffers == list \in Buffers /\ list_values \in Buffers /\ list # list_values
  BY CollectorAssumption DEF CollectorAssumption

\* The label out leaves no structure with a block.
LEMMA OutIs ==
    ASSUME NEW m, NEW mn, MemOK(m, mn), OthersEmpty(m), NEW q, q = Out(m)
    PROVE  /\ MemOK(q, mn)
           /\ \A b \in Buffers : q.buf[b] = Empty
           /\ \A a \in mn : q.heap[a] = m.heap[a]
<1>1. PICK k : k = cleanup(m, list)
  OBVIOUS
<1>2. MemOK(k, mn) /\ Frame(m, k, list, mn) /\ k.buf[list] = Empty
  BY <1>1, LocalBuffers, CleanupIs
<1>3. q = cleanup(k, list_values)
  BY <1>1 DEF Out
<1>4. MemOK(q, mn) /\ Frame(k, q, list_values, mn) /\ q.buf[list_values] = Empty
  BY <1>2, <1>3, LocalBuffers, CleanupIs
<1>5. ASSUME NEW b \in Buffers PROVE q.buf[b] = Empty
  BY <1>2, <1>4, LocalBuffers DEF Frame, OthersEmpty
<1>6. \A a \in mn : q.heap[a] = m.heap[a]
  BY <1>2, <1>4 DEF Frame
<1> QED BY <1>4, <1>5, <1>6

\* Memory without structures that have a block.
LEMMA AllEmpty ==
    ASSUME NEW q, NEW mn, MemOK(q, mn), \A b \in Buffers : q.buf[b] = Empty,
           NEW lh, lh = [b \in Buffers |-> <<>>]
    PROVE  /\ BufferOK(q, mn, NoSpare, lh)
           /\ \A a \in Addrs : q.heap[a] # <<>> => a \in mn
<1>1. IsLog(lh) /\ \A b \in Buffers : lh[b] = <<>>
  BY DEF IsLog
<1>2. \A b \in Buffers : Holds(q, b, lh[b])
  BY <1>1, EmptyHolds, EmptyIs
<1>3. BufferOK(q, mn, NoSpare, lh)
  BY <1>1, <1>2, NothingReserved
<1>4. ASSUME NEW a \in Addrs, q.heap[a] # <<>> PROVE a \in mn
  <2>1. IsSeq(<<>>) /\ Len(<<>>) = 0 /\ IsSeq(q.heap[a])
    BY DEF IsSeq, MemOK
  <2>2. Len(q.heap[a]) # 0
    <3>1. SUFFICES ASSUME Len(q.heap[a]) = 0 PROVE FALSE
      OBVIOUS
    <3>2. PICK s : s = q.heap[a]
      OBVIOUS
    <3>3. IsSeq(s) /\ Len(s) = 0 /\ s # <<>>
      BY <1>4, <2>1, <3>1, <3>2
    <3>4. s = <<>>
      BY <2>1, <3>3, SeqSame
    <3> QED BY <3>3, <3>4
  <2>3. Len(q.heap[a]) > 0
    BY <2>1, <2>2, SeqParts
  <2>4. a \in mn \/ \E b \in Buffers : q.buf[b].data = a
    BY <2>3 DEF MemOK
  <2> QED BY <2>4, EmptyIs, NullIsNoAddress
<1> QED BY <1>3, <1>4

\* What a call may leave behind when it fails.
NoTrace ==
    rv' < 0 =>
        IF collecting THEN target' = target /\ \A a \in Addrs : mem'.heap[a] # <<>> => a \in mine
        ELSE mem' = mem

\* A failed cx_collect frees both buffers and keeps the invariant.
LEMMA CollectFailsKeeps ==
    ASSUME CollectorInv, collecting, NEW m, MemOK(m, mine), OthersEmpty(m),
           NEW err \in {ERR_ALLOC, ERR_OVERFLOW}, collect_fails(m, err)
    PROVE  CollectorInv' /\ NoTrace
<1>1. PICK q : q = mem'
  OBVIOUS
<1>2. PICK mn : mn = mine
  OBVIOUS
<1>3. q = Out(m) /\ MemOK(m, mn)
  BY <1>1, <1>2 DEF collect_fails
<1>4. MemOK(q, mn) /\ \A b \in Buffers : q.buf[b] = Empty
  BY <1>3, OutIs
<1>5. PICK lh : lh = log'
  OBVIOUS
<1>6. lh = [b \in Buffers |-> <<>>]
  BY <1>5 DEF collect_fails
<1>7. BufferOK(q, mn, NoSpare, lh) /\ \A a \in Addrs : q.heap[a] # <<>> => a \in mn
  BY <1>4, <1>6, AllEmpty
<1>8. spare' = NoSpare /\ mine' = mn /\ target' = target /\ target = 0 /\ collecting' = FALSE /\ yielded' = <<>> /\ rv' = err
  BY <1>2 DEF collect_fails, CollectorInv
<1>9. BufferInv'
  BY <1>1, <1>5, <1>7, <1>8 DEF BufferInv
<1>10. yielded' \in Seq(Texts)
  BY <1>8
<1>11. Collected'
  BY <1>8 DEF Collected
<1>12. CollectorInv'
  BY <1>8, <1>9, <1>10, <1>11 DEF CollectorInv
<1> QED BY <1>1, <1>2, <1>7, <1>8, <1>12 DEF NoTrace

\* One of its appends.
LEMMA CollectAppends ==
    ASSUME NEW m, NEW mn, NEW sp, NEW lg, BufferOK(m, mn, sp, lg), OthersEmpty(m),
           NEW b \in {list, list_values}, NEW s, IsSeq(s), NEW o \in append(m, b, s),
           NEW lh, lh = Logged(lg, b, lg[b] \o s)
    PROVE  /\ MemOK(o.mem, mn)
           /\ OthersEmpty(o.mem)
           /\ o.rv < 0 => o.rv \in {ERR_ALLOC, ERR_OVERFLOW}
           /\ ~(o.rv < 0) => BufferOK(o.mem, mn, NoSpare, lh) /\ Appended(m, o.mem, b, mn, s)
<1>1. PICK li : li = IF o.rv = 0 THEN Logged(lg, b, lg[b] \o s) ELSE lg
  OBVIOUS
<1>2. b \in Buffers
  BY LocalBuffers
<1>3. /\ BufferOK(o.mem, mn, NoSpare, li)
      /\ o.rv = 0 \/ (o.rv \in {ERR_ALLOC, ERR_OVERFLOW} /\ o.mem = m)
      /\ o.rv = 0 => Appended(m, o.mem, b, mn, s)
  BY <1>1, <1>2, AppendKeeps
<1>4. MemOK(o.mem, mn)
  BY <1>3 DEF BufferOK
<1>5. CASE o.rv = 0
  <2>1. li = lh /\ ~(o.rv < 0)
    BY <1>1, <1>5
  <2>2. OthersEmpty(o.mem)
    BY <1>3, <1>5 DEF Appended, Frame, OthersEmpty
  <2> QED BY <1>3, <1>4, <1>5, <2>1, <2>2
<1>6. CASE o.rv \in {ERR_ALLOC, ERR_OVERFLOW} /\ o.mem = m
  <2>1. o.rv < 0
    BY <1>6 DEF ERR_ALLOC, ERR_OVERFLOW
  <2> QED BY <1>4, <1>6, <2>1
<1> QED BY <1>3, <1>5, <1>6

\* The log after handle_next.
HandledLog(lg, w, value) ==
    [lg EXCEPT ![list] = @ \o w, ![list_values] = @ \o value \o <<NUL>>]

\* handle_next succeeds: the log and the layout grow together.
LEMMA HandledKeeps ==
    ASSUME CollectorInv, collecting, NEW value \in Texts,
           NEW q, OthersEmpty(q), NEW lg, lg = log, NEW w, w = Word(Len(lg[list_values])),
           NEW lg1, lg1 = Logged(lg, list, lg[list] \o w),
           NEW lg2, lg2 = Logged(lg1, list_values, lg1[list_values] \o value),
           NEW lg3, lg3 = Logged(lg2, list_values, lg2[list_values] \o <<NUL>>),
           BufferOK(q, mine, NoSpare, lg3),
           NEW lh, lh = log', lh = HandledLog(lg, w, value),
           mem' = q, rv' = 1, yielded' = Append(yielded, value),
           UNCHANGED <<mine, spare, collecting, target>>
    PROVE  CollectorInv'
<1>1. IsLog(lg) /\ IsSeq(lg[list]) /\ IsSeq(lg[list_values])
  BY LocalBuffers DEF CollectorInv, BufferInv, BufferOK, Holds
<1>2. /\ spare = NoSpare /\ target = 0 /\ yielded \in Seq(Texts)
      /\ Layout(lg[list], lg[list_values], yielded)
  BY DEF CollectorInv
<1>3. PICK t : t = lg[list_values] \o value
  OBVIOUS
<1>4. PICK u : u = lg[list] \o w
  OBVIOUS
<1>5. PICK v : v = t \o <<NUL>>
  OBVIOUS
<1>6. IsLog(lg1) /\ lg1[list] = u /\ \A c \in Buffers : c # list => lg1[c] = lg[c]
  <2>1. lg1 = Logged(lg, list, u)
    BY <1>4
  <2> QED BY <1>1, <2>1, LocalBuffers, LoggedIs
<1>7. IsLog(lg2) /\ lg2[list_values] = t /\ \A c \in Buffers : c # list_values => lg2[c] = lg1[c]
  <2>1. lg2 = Logged(lg1, list_values, t)
    BY <1>3, <1>6, LocalBuffers
  <2> QED BY <1>6, <2>1, LocalBuffers, LoggedIs
<1>8. IsLog(lg3) /\ lg3[list_values] = v /\ \A c \in Buffers : c # list_values => lg3[c] = lg2[c]
  <2>1. lg3 = Logged(lg2, list_values, v)
    BY <1>5, <1>7
  <2> QED BY <1>7, <2>1, LocalBuffers, LoggedIs
<1>9. lg3[list] = u /\ \A c \in Buffers : c # list /\ c # list_values => lg3[c] = lg[c]
  BY <1>6, <1>7, <1>8, LocalBuffers
<1>10. lh = [lg EXCEPT ![list] = u, ![list_values] = v]
  BY <1>3, <1>4, <1>5, LocalBuffers DEF HandledLog
<1>11. lh = lg3
  <2>1. lg = [c \in Buffers |-> lg[c]] /\ lg3 = [c \in Buffers |-> lg3[c]]
    BY <1>1, <1>8 DEF IsLog
  <2>2. lh = [c \in Buffers |-> lh[c]] /\ lh[list] = u /\ lh[list_values] = v /\ \A c \in Buffers \ {list, list_values} : lh[c] = lg[c]
    BY <1>10, <2>1, LocalBuffers
  <2>3. \A c \in Buffers : lh[c] = lg3[c]
    BY <1>8, <1>9, <2>2
  <2>4. IsLog(lh)
    BY <2>2 DEF IsLog
  <2> QED BY <1>8, <2>3, <2>4, SameLog
<1>12. PICK ys : ys = yielded'
  OBVIOUS
<1>13. Layout(u, v, ys)
  <2>1. PICK words : words = lg[list]
    OBVIOUS
  <2>2. PICK text : text = lg[list_values]
    OBVIOUS
  <2>3. PICK xs : xs = yielded
    OBVIOUS
  <2>4. IsSeq(words) /\ IsSeq(text) /\ xs \in Seq(Texts) /\ Layout(words, text, xs)
    BY <1>1, <1>2, <2>1, <2>2, <2>3
  <2>5. u = words \o Word(Len(text)) /\ t = text \o value /\ v = t \o <<NUL>> /\ ys = Append(xs, value)
    BY <1>3, <1>4, <1>5, <1>12, <2>1, <2>2, <2>3
  <2> QED BY <2>4, <2>5, LayoutGrows
<1>14. Layout(log'[list], log'[list_values], yielded')
  BY <1>8, <1>9, <1>11, <1>12, <1>13
<1>15. BufferInv'
  BY <1>2, <1>11 DEF BufferInv
<1>16. yielded' \in Seq(Texts)
  BY <1>2
<1>17. target' = 0 /\ spare' = NoSpare /\ collecting' = TRUE /\ OthersEmpty(mem')
  BY <1>2 DEF CollectorInv
<1>18. Collected'
  BY <1>17 DEF Collected
<1> QED BY <1>14, <1>15, <1>16, <1>17, <1>18 DEF CollectorInv, OthersEmpty

\* One string of the iterator keeps the invariant, however its appends end.
LEMMA HandleNextKeeps ==
    ASSUME CollectorInv, NEW value \in Texts, handle_next(value)
    PROVE  CollectorInv' /\ NoTrace
<1> DEFINE offset == mem.buf[list_values].size
           C3(o) == IF o.rv < 0 THEN collect_fails(o.mem, o.rv)
                    ELSE /\ mem' = o.mem
                         /\ rv' = 1
                         /\ log' = [log EXCEPT ![list] = @ \o Word(offset),
                                               ![list_values] = @ \o value \o <<NUL>>]
                         /\ yielded' = Append(yielded, value)
                         /\ UNCHANGED <<mine, spare, collecting, target>>
           C2(o) == IF o.rv < 0 THEN collect_fails(o.mem, o.rv)
                    ELSE \E o3 \in append(o.mem, list_values, <<NUL>>) : C3(o3)
           C1(o) == IF o.rv < 0 THEN collect_fails(o.mem, o.rv)
                    ELSE \E o2 \in append(o.mem, list_values, value) : C2(o2)
<1>1. collecting /\ \E o1 \in append(mem, list, Word(offset)) : C1(o1)
  BY DEF handle_next
<1>2. PICK m : m = mem
  OBVIOUS
<1>3. PICK mn : mn = mine
  OBVIOUS
<1>4. PICK lg : lg = log
  OBVIOUS
<1>5. PICK sp : sp = spare
  OBVIOUS
<1>6. BufferOK(m, mn, sp, lg) /\ OthersEmpty(m)
  BY <1>1, <1>2, <1>3, <1>4, <1>5 DEF CollectorInv, BufferInv
<1>7. PICK w : w = Word(offset)
  OBVIOUS
<1>8. w = Word(Len(lg[list_values]))
  <2>1. Len(lg[list_values]) = offset
    BY <1>2, <1>6, LocalBuffers DEF BufferOK, Holds
  <2> QED BY <1>7, <2>1
<1>9. IsSeq(w)
  BY <1>7, WordIs
<1>10. IsSeq(value)
  BY TextIs
<1>11. PICK z : z = <<NUL>>
  OBVIOUS
<1>12. IsSeq(z)
  <2>1. z \in Seq({NUL})
    BY <1>11
  <2> QED BY <2>1, SeqOf
<1> HIDE DEF C1, C2, C3
<1>13. PICK o1 \in append(m, list, w) : C1(o1)
  BY <1>1, <1>2, <1>7
<1>14. PICK lg1 : lg1 = Logged(lg, list, lg[list] \o w)
  OBVIOUS
<1>15. PICK m1 : m1 = o1.mem
  OBVIOUS
<1>16. /\ MemOK(m1, mn) /\ OthersEmpty(m1)
       /\ o1.rv < 0 => o1.rv \in {ERR_ALLOC, ERR_OVERFLOW}
       /\ ~(o1.rv < 0) => BufferOK(m1, mn, NoSpare, lg1)
  BY <1>6, <1>9, <1>14, <1>15, CollectAppends
<1>17. CASE o1.rv < 0
  <2>1. PICK e : e = o1.rv
    OBVIOUS
  <2>2. collect_fails(m1, e) /\ e \in {ERR_ALLOC, ERR_OVERFLOW} /\ MemOK(m1, mine)
    BY <1>3, <1>13, <1>15, <1>16, <1>17, <2>1 DEF C1
  <2> QED BY <1>1, <1>16, <2>2, CollectFailsKeeps
<1>18. CASE ~(o1.rv < 0)
  <2>1. PICK o2 \in append(m1, list_values, value) : C2(o2)
    BY <1>13, <1>15, <1>18 DEF C1
  <2>2. PICK lg2 : lg2 = Logged(lg1, list_values, lg1[list_values] \o value)
    OBVIOUS
  <2>3. PICK m2 : m2 = o2.mem
    OBVIOUS
  <2>4. /\ MemOK(m2, mn) /\ OthersEmpty(m2)
        /\ o2.rv < 0 => o2.rv \in {ERR_ALLOC, ERR_OVERFLOW}
        /\ ~(o2.rv < 0) => BufferOK(m2, mn, NoSpare, lg2)
    BY <1>10, <1>16, <1>18, <2>2, <2>3, CollectAppends
  <2>5. CASE o2.rv < 0
    <3>1. PICK e : e = o2.rv
      OBVIOUS
    <3>2. collect_fails(m2, e) /\ e \in {ERR_ALLOC, ERR_OVERFLOW} /\ MemOK(m2, mine)
      BY <1>3, <2>1, <2>3, <2>4, <2>5, <3>1 DEF C2
    <3> QED BY <1>1, <2>4, <3>2, CollectFailsKeeps
  <2>6. CASE ~(o2.rv < 0)
    <3>1. PICK o3 \in append(m2, list_values, z) : C3(o3)
      BY <1>11, <2>1, <2>3, <2>6 DEF C2
    <3>2. PICK lg3 : lg3 = Logged(lg2, list_values, lg2[list_values] \o z)
      OBVIOUS
    <3>3. PICK m3 : m3 = o3.mem
      OBVIOUS
    <3>4. /\ MemOK(m3, mn) /\ OthersEmpty(m3)
          /\ o3.rv < 0 => o3.rv \in {ERR_ALLOC, ERR_OVERFLOW}
          /\ ~(o3.rv < 0) => BufferOK(m3, mn, NoSpare, lg3)
      BY <1>12, <2>4, <2>6, <3>2, <3>3, CollectAppends
    <3>5. CASE o3.rv < 0
      <4>1. PICK e : e = o3.rv
        OBVIOUS
      <4>2. collect_fails(m3, e) /\ e \in {ERR_ALLOC, ERR_OVERFLOW} /\ MemOK(m3, mine)
        BY <1>3, <3>1, <3>3, <3>4, <3>5, <4>1 DEF C3
      <4> QED BY <1>1, <3>4, <4>2, CollectFailsKeeps
    <3>6. CASE ~(o3.rv < 0)
      <4>1. PICK lh : lh = log'
        OBVIOUS
      <4>2. /\ mem' = m3 /\ rv' = 1 /\ yielded' = Append(yielded, value)
            /\ UNCHANGED <<mine, spare, collecting, target>>
        BY <3>1, <3>3, <3>6 DEF C3
      <4>3. lh = HandledLog(lg, w, value)
        BY <1>4, <1>7, <3>1, <3>6, <4>1 DEF C3, HandledLog
      <4>4. lg3 = Logged(lg2, list_values, lg2[list_values] \o <<NUL>>) /\ BufferOK(m3, mine, NoSpare, lg3)
        BY <1>3, <1>11, <3>2, <3>4, <3>6
      <4>5. CollectorInv'
        BY <1>1, <1>4, <1>8, <1>14, <2>2, <3>4, <4>1, <4>2, <4>3, <4>4, HandledKeeps
      <4> QED BY <4>2, <4>5 DEF NoTrace
    <3> QED BY <3>5, <3>6
  <2> QED BY <2>5, <2>6
<1> QED BY <1>17, <1>18

\* The contents of a buffer, as the code finds them.
LEMMA ContentsAre ==
    ASSUME NEW m, NEW mn, MemOK(m, mn), NEW b \in Buffers, NEW t, Holds(m, b, t)
    PROVE  t = IF m.buf[b].data = 0 THEN <<>> ELSE SubSeq(m.heap[m.buf[b].data], 1, m.buf[b].size)
<1>1. PICK n : n = m.buf[b].size
  OBVIOUS
<1>2. n \in Nat /\ IsSeq(t) /\ Len(t) = n
  BY <1>1, BufferParts DEF Holds
<1>3. CASE m.buf[b].data = 0
  <2>1. n = 0
    BY <1>1, <1>3, BufferParts
  <2>2. IsSeq(<<>>) /\ Len(<<>>) = 0 /\ \A i \in 1 .. 0 : FALSE
    BY DEF IsSeq
  <2>3. t = <<>>
    BY <1>2, <2>1, <2>2, SeqSame
  <2> QED BY <1>3, <2>3
<1>4. CASE m.buf[b].data # 0
  <2>1. PICK s : s = m.heap[m.buf[b].data]
    OBVIOUS
  <2>2. IsSeq(s) /\ n <= Len(s) /\ \A i \in 1 .. n : t[i] = s[i]
    BY <1>1, <1>2, <1>4, <2>1, BufferParts DEF Holds
  <2>3. PICK u : u = SubSeq(s, 1, n)
    OBVIOUS
  <2>4. IsSeq(u) /\ Len(u) = n - 1 + 1 /\ \A i \in 1 .. n - 1 + 1 : u[i] = s[1 + i - 1]
    <3>1. PICK k : k = 1
      OBVIOUS
    <3>2. k \in Nat \ {0} /\ k <= n + 1 /\ u = SubSeq(s, k, n)
      BY <1>2, <2>3, <3>1
    <3>3. IsSeq(u) /\ Len(u) = n - k + 1 /\ \A i \in 1 .. n - k + 1 : u[i] = s[k + i - 1]
      BY <1>2, <2>2, <3>2, SubSeqIs
    <3> QED BY <3>1, <3>3
  <2>5. n - 1 + 1 = n /\ \A i \in 1 .. n : 1 + i - 1 = i
    BY <1>2
  <2>6. Len(u) = n /\ \A i \in 1 .. n : t[i] = u[i]
    BY <2>2, <2>4, <2>5
  <2>7. t = u
    BY <1>2, <2>4, <2>6, SeqSame
  <2> QED BY <1>1, <1>4, <2>1, <2>3, <2>7
<1> QED BY <1>3, <1>4

\* The end of cx_collect: m is memory with the whole array in list, of the block
\* at result; it goes to the caller.
LEMMA HandedOut ==
    ASSUME NEW m, NEW mn, MemOK(m, mn), OthersEmpty(m),
           NEW result, result = m.buf[list].data, result # 0,
           NEW fixed, IsSeq(fixed), Len(fixed) = Len(m.heap[result]),
           NEW u, u = unwrap(m, list), NEW k, k = WithBlock(u, result, fixed), NEW q, q = Out(k),
           NEW mx, mx = GivenOut(mn, m, list)
    PROVE  /\ MemOK(q, mx)
           /\ \A b \in Buffers : q.buf[b] = Empty
           /\ q.heap[result] = fixed
<1>1. MemOK(u, mx) /\ u.heap = m.heap /\ u.buf[list] = Empty /\ \A c \in Buffers : c # list => u.buf[c] = m.buf[c]
  BY LocalBuffers, UnwrapIs
<1>2. fixed # <<>>
  <2>1. Len(m.heap[result]) > 0 /\ Len(<<>>) = 0
    BY LocalBuffers, BufferParts
  <2> QED BY <2>1
<1>3. PICK my : my = OwnedWith(mx, result, fixed)
  OBVIOUS
<1>4. my = mx /\ result \in mx
  BY <1>2, <1>3 DEF GivenOut, OwnedWith
<1>5. MemOK(k, my) /\ k.buf = u.buf /\ k.heap[result] = fixed
  <2>1. MemOK(u, mx) /\ result \in mx
    BY <1>1, <1>4
  <2>2. Rewritten(u, k, result, fixed, my)
    BY <1>3, <2>1, OwnBlock
  <2> QED BY <2>2 DEF Rewritten
<1>6. OthersEmpty(k)
  BY <1>1, <1>5, LocalBuffers DEF OthersEmpty
<1>7. MemOK(q, mx) /\ (\A b \in Buffers : q.buf[b] = Empty) /\ \A a \in mx : q.heap[a] = k.heap[a]
  BY <1>4, <1>5, <1>6, OutIs
<1> QED BY <1>4, <1>5, <1>7

\* The array with the NULL pointer and the strings behind it.
Whole(block, words, text, base) ==
    /\ IsSeq(block) /\ base + Len(text) <= Len(block)
    /\ \A p \in 1 .. Len(words) : block[p] = words[p]
    /\ \A p \in 1 .. WORD : block[Len(words) + p] = [word |-> 0, part |-> p]
    /\ \A p \in 1 .. Len(text) : block[base + p] = text[p]

\* The block at the end: the words, the NULL pointer, then the strings.
LEMMA WholeArray ==
    ASSUME NEW m, NEW mn, MemOK(m, mn), NEW words, IsSeq(words), NEW text, IsSeq(text),
           NEW s1, s1 = words \o Word(0), NEW s2, s2 = s1 \o text, Holds(m, list, s2),
           NEW block, block = m.heap[m.buf[list].data], NEW base, base = Len(words) + WORD
    PROVE  m.buf[list].data # 0 /\ Whole(block, words, text, base)
<1>1. PICK z : z = 0
  OBVIOUS
<1>2. PICK w : w = Word(z)
  OBVIOUS
<1>3. IsSeq(w) /\ Len(w) = WORD /\ \A p \in 1 .. WORD : w[p] = [word |-> z, part |-> p]
  BY <1>2, WordIs
<1>4. IsCat(s1, words, w)
  <2>1. s1 = words \o w
    BY <1>1, <1>2
  <2> QED BY <1>3, <2>1, CatIs
<1>5. IsSeq(s1) /\ Len(s1) = base
  BY <1>3, <1>4 DEF IsCat
<1>6. IsCat(s2, s1, text)
  BY <1>5, CatIs
<1>7. PICK k : k = Len(words)
  OBVIOUS
<1>8. PICK l : l = Len(text)
  OBVIOUS
<1>9. WORD \in Nat \ {0} /\ k \in Nat /\ l \in Nat /\ base = k + WORD
  BY <1>7, <1>8, SeqParts, CollectorAssumption DEF CollectorAssumption
<1>10. /\ \A p \in 1 .. k : s1[p] = words[p]
       /\ \A p \in 1 .. WORD : s1[k + p] = [word |-> 0, part |-> p]
  BY <1>1, <1>3, <1>4, <1>7 DEF IsCat
<1>11. /\ Len(s2) = base + l
       /\ \A p \in 1 .. base : s2[p] = s1[p]
       /\ \A p \in 1 .. l : s2[base + p] = text[p]
  BY <1>5, <1>6, <1>8 DEF IsCat
<1>12. m.buf[list].size = base + l /\ \A p \in 1 .. base + l : s2[p] = block[p]
  BY <1>11 DEF Holds
<1>13. m.buf[list].data # 0 /\ IsSeq(block) /\ base + l <= Len(block)
  <2>1. m.buf[list].size > 0
    BY <1>9, <1>12
  <2>2. /\ m.buf[list].size <= m.buf[list].capacity
        /\ m.buf[list].data = 0 => m.buf[list].capacity = 0
        /\ m.buf[list].data # 0 => IsSeq(m.heap[m.buf[list].data]) /\ Len(m.heap[m.buf[list].data]) = m.buf[list].capacity
        /\ m.buf[list].size \in Nat /\ m.buf[list].capacity \in Nat
    BY LocalBuffers, BufferParts
  <2>3. m.buf[list].data # 0
    BY <2>1, <2>2
  <2> QED BY <1>12, <2>2, <2>3
<1>14. ASSUME NEW p \in 1 .. k PROVE block[p] = words[p]
  <2>1. p \in 1 .. base /\ p \in 1 .. base + l
    BY <1>9
  <2> QED BY <1>10, <1>11, <1>12, <2>1
<1>15. ASSUME NEW p \in 1 .. WORD PROVE block[k + p] = [word |-> 0, part |-> p]
  <2>1. k + p \in 1 .. base /\ k + p \in 1 .. base + l
    BY <1>9
  <2> QED BY <1>10, <1>11, <1>12, <2>1
<1>16. ASSUME NEW p \in 1 .. l PROVE block[base + p] = text[p]
  <2>1. base + p \in 1 .. base + l
    BY <1>9
  <2> QED BY <1>11, <1>12, <2>1
<1> QED BY <1>7, <1>8, <1>13, <1>14, <1>15, <1>16 DEF Whole

\* The end of cx_collect keeps the invariant and delivers the result.
LEMMA CollectEndsKeeps ==
    ASSUME CollectorInv, collect_ends
    PROVE  CollectorInv' /\ NoTrace
<1> DEFINE values == mem.buf[list_values]
           Text(o1) == IF values.data = 0 THEN <<>> ELSE SubSeq(o1.mem.heap[values.data], 1, values.size)
           Result(o2) == o2.mem.buf[list].data
           Fixed(o1, o2) == FixUp(o2.mem.heap[Result(o2)], Result(o2), BaseSize(o1.mem, mem), Len(yielded))
           C2(o1, o2) == IF o2.rv < 0 THEN collect_fails(o2.mem, o2.rv)
                         ELSE /\ mem' = Out([unwrap(o2.mem, list) EXCEPT !.heap[Result(o2)] = Fixed(o1, o2)])
                              /\ mine' = mine \cup {Result(o2)}
                              /\ target' = Result(o2)
                              /\ rv' = 0
                              /\ collecting' = FALSE
                              /\ log' = [b \in Buffers |-> <<>>]
                              /\ UNCHANGED <<spare, yielded>>
           C1(o1) == IF o1.rv < 0 THEN collect_fails(o1.mem, o1.rv)
                     ELSE \E o2 \in append(o1.mem, list, Text(o1)) : C2(o1, o2)
<1>1. collecting /\ \E o1 \in append(mem, list, Word(0)) : C1(o1)
  BY DEF collect_ends
<1>2. PICK m : m = mem
  OBVIOUS
<1>3. PICK mn : mn = mine
  OBVIOUS
<1>4. PICK lg : lg = log
  OBVIOUS
<1>5. PICK sp : sp = spare
  OBVIOUS
<1>6. BufferOK(m, mn, sp, lg) /\ OthersEmpty(m)
  BY <1>1, <1>2, <1>3, <1>4, <1>5 DEF CollectorInv, BufferInv
<1>7. PICK z : z = 0
  OBVIOUS
<1>8. PICK w : w = Word(z)
  OBVIOUS
<1>9. IsSeq(w)
  BY <1>8, WordIs
<1>10. PICK words : words = lg[list]
  OBVIOUS
<1>11. PICK text : text = lg[list_values]
  OBVIOUS
<1>12. PICK ys : ys = yielded
  OBVIOUS
<1>13. /\ MemOK(m, mn) /\ IsLog(lg) /\ IsSeq(words) /\ IsSeq(text)
       /\ Holds(m, list, words) /\ Holds(m, list_values, text)
       /\ ys \in Seq(Texts) /\ Layout(words, text, ys) /\ spare = NoSpare
  BY <1>1, <1>4, <1>6, <1>10, <1>11, <1>12, LocalBuffers DEF CollectorInv, BufferOK, Holds
<1> HIDE DEF C1, C2
<1>14. PICK o1 \in append(m, list, w) : C1(o1)
  BY <1>1, <1>2, <1>7, <1>8
<1>15. PICK lg1 : lg1 = Logged(lg, list, lg[list] \o w)
  OBVIOUS
<1>16. PICK m1 : m1 = o1.mem
  OBVIOUS
<1>17. /\ MemOK(m1, mn) /\ OthersEmpty(m1)
       /\ o1.rv < 0 => o1.rv \in {ERR_ALLOC, ERR_OVERFLOW}
       /\ ~(o1.rv < 0) => BufferOK(m1, mn, NoSpare, lg1) /\ Appended(m, m1, list, mn, w)
  BY <1>6, <1>9, <1>15, <1>16, CollectAppends
<1>18. CASE o1.rv < 0
  <2>1. PICK e : e = o1.rv
    OBVIOUS
  <2>2. collect_fails(m1, e) /\ e \in {ERR_ALLOC, ERR_OVERFLOW} /\ MemOK(m1, mine)
    BY <1>3, <1>14, <1>16, <1>17, <1>18, <2>1 DEF C1
  <2> QED BY <1>1, <1>17, <2>2, CollectFailsKeeps
<1>19. CASE ~(o1.rv < 0)
  <2>1. Appended(m, m1, list, mn, w) /\ BufferOK(m1, mn, NoSpare, lg1)
    BY <1>17, <1>19
  <2>2. m1.buf[list_values] = m.buf[list_values] /\ Holds(m1, list_values, text)
    <3>1. Frame(m, m1, list, mn)
      BY <2>1 DEF Appended
    <3> QED BY <1>13, <3>1, LocalBuffers, FrameHolds DEF Frame
  <2>3. Text(o1) = text
    <3>1. text = IF m1.buf[list_values].data = 0 THEN <<>>
                 ELSE SubSeq(m1.heap[m1.buf[list_values].data], 1, m1.buf[list_values].size)
      BY <1>17, <2>2, LocalBuffers, ContentsAre
    <3> QED BY <1>2, <1>16, <2>2, <3>1
  <2> HIDE DEF Text
  <2>4. PICK o2 \in append(m1, list, text) : C2(o1, o2)
    BY <1>14, <1>16, <1>19, <2>3 DEF C1
  <2>5. PICK lg2 : lg2 = Logged(lg1, list, lg1[list] \o text)
    OBVIOUS
  <2>6. PICK m2 : m2 = o2.mem
    OBVIOUS
  <2>7. /\ MemOK(m2, mn) /\ OthersEmpty(m2)
        /\ o2.rv < 0 => o2.rv \in {ERR_ALLOC, ERR_OVERFLOW}
        /\ ~(o2.rv < 0) => BufferOK(m2, mn, NoSpare, lg2)
    BY <1>13, <1>17, <2>1, <2>5, <2>6, CollectAppends
  <2>8. CASE o2.rv < 0
    <3>1. PICK e : e = o2.rv
      OBVIOUS
    <3>2. collect_fails(m2, e) /\ e \in {ERR_ALLOC, ERR_OVERFLOW} /\ MemOK(m2, mine)
      BY <1>3, <2>4, <2>6, <2>7, <2>8, <3>1 DEF C2
    <3> QED BY <1>1, <2>7, <3>2, CollectFailsKeeps
  <2>9. CASE ~(o2.rv < 0)
    <3>1. PICK s1 : s1 = words \o w
      OBVIOUS
    <3>2. PICK s2 : s2 = s1 \o text
      OBVIOUS
    <3>3. Holds(m2, list, s2)
      <4>1. lg1[list] = s1
        <5>1. lg1 = Logged(lg, list, s1)
          BY <1>10, <1>15, <3>1
        <5> QED BY <1>13, <5>1, LocalBuffers, LoggedIs
      <4>2. lg2 = Logged(lg1, list, s2)
        BY <2>5, <3>2, <4>1
      <4>3. IsLog(lg1)
        BY <2>1 DEF BufferOK
      <4>4. lg2[list] = s2
        BY <4>2, <4>3, LocalBuffers, LoggedIs
      <4> QED BY <2>7, <2>9, <4>4, LocalBuffers DEF BufferOK
    <3>4. PICK result : result = m2.buf[list].data
      OBVIOUS
    <3>5. PICK block : block = m2.heap[result]
      OBVIOUS
    <3>6. PICK base : base = Len(words) + WORD
      OBVIOUS
    <3>7. base = m1.buf[list].size
      <4>1. m1.buf[list].size = m.buf[list].size + Len(w) /\ Len(w) = WORD /\ Len(words) = m.buf[list].size
        BY <1>8, <1>13, <2>1, WordIs DEF Appended, Holds
      <4> QED BY <3>6, <4>1
    <3>8. /\ result # 0 /\ IsSeq(block) /\ base + Len(text) <= Len(block)
          /\ \A p \in 1 .. Len(words) : block[p] = words[p]
          /\ \A p \in 1 .. WORD : block[Len(words) + p] = [word |-> 0, part |-> p]
          /\ \A p \in 1 .. Len(text) : block[base + p] = text[p]
      <4>1. s1 = words \o Word(0) /\ block = m2.heap[m2.buf[list].data]
        BY <1>7, <1>8, <3>1, <3>4, <3>5
      <4>2. m2.buf[list].data # 0 /\ Whole(block, words, text, base)
        BY <1>13, <2>7, <3>2, <3>3, <3>6, <4>1, WholeArray
      <4> QED BY <3>4, <4>2 DEF Whole
    <3>9. result \in Nat
      <4>1. result \in Addrs
        BY <2>7, <3>4, <3>8, LocalBuffers, BufferParts
      <4> QED BY <4>1, NullIsNoAddress
    <3>10. PICK fixed : fixed = FixUp(block, result, base, Len(ys))
      OBVIOUS
    <3>11. IsSeq(fixed) /\ Len(fixed) = Len(block) /\ Delivered(fixed, result, ys)
      BY <1>13, <3>6, <3>8, <3>9, <3>10, FixUpDelivers
    <3>12. Result(o2) = result /\ Fixed(o1, o2) = fixed
      BY <1>12, <1>16, <2>6, <3>4, <3>5, <3>7, <3>10 DEF BaseSize
    <3> HIDE DEF Result, Fixed
    <3>13. PICK q : q = mem'
      OBVIOUS
    <3>14. /\ q = Out(WithBlock(unwrap(m2, list), result, fixed))
           /\ mine' = mn \cup {result}
           /\ target' = result
           /\ rv' = 0
           /\ collecting' = FALSE
           /\ log' = [b \in Buffers |-> <<>>]
           /\ spare' = NoSpare /\ yielded' = ys
      BY <1>3, <1>12, <1>13, <2>4, <2>6, <2>9, <3>12, <3>13 DEF C2, WithBlock
    <3>15. PICK mx : mx = mn \cup {result}
      OBVIOUS
    <3>16. MemOK(q, mx) /\ (\A b \in Buffers : q.buf[b] = Empty) /\ q.heap[result] = fixed
      <4>1. Len(fixed) = Len(m2.heap[result]) /\ IsSeq(fixed) /\ result # 0
        BY <3>5, <3>8, <3>11
      <4>2. PICK u : u = unwrap(m2, list)
        OBVIOUS
      <4>3. PICK k : k = WithBlock(u, result, fixed)
        OBVIOUS
      <4>4. q = Out(k)
        BY <3>14, <4>2, <4>3
      <4>5. mx = GivenOut(mn, m2, list)
        BY <3>4, <3>15, <4>1 DEF GivenOut
      <4> QED BY <2>7, <3>4, <4>1, <4>2, <4>3, <4>4, <4>5, HandedOut
    <3>17. PICK lh : lh = log'
      OBVIOUS
    <3>18. BufferOK(q, mx, NoSpare, lh)
      BY <3>14, <3>16, <3>17, AllEmpty
    <3>19. BufferInv'
      BY <3>13, <3>14, <3>15, <3>17, <3>18 DEF BufferInv
    <3>20. Delivered(mem'.heap[target'], target', yielded')
      BY <3>11, <3>13, <3>14, <3>16
    <3>21. Collected'
      BY <3>20 DEF Collected, Delivered
    <3>22. target' \in mine' \cup {0} /\ target' # 0 /\ yielded' \in Seq(Texts)
      BY <1>13, <3>8, <3>14
    <3>23. CollectorInv'
      BY <3>14, <3>19, <3>21, <3>22 DEF CollectorInv
    <3> QED BY <3>14, <3>23 DEF NoTrace
  <2> QED BY <2>8, <2>9
<1> QED BY <1>18, <1>19

-----------------------------------------------------------------------------
\* The invariant.

\* Calls on the callers' own buffers.
LEMMA BufferCallStep ==
    ASSUME CollectorInv, buffer_call
    PROVE  CollectorInv' /\ NoTrace
<1>1. ~collecting /\ target = 0 /\ UNCHANGED <<collecting, yielded, target>> /\ BufferCall(Sizes, Texts)
  BY DEF buffer_call
<1>2. BufferInv
  BY DEF CollectorInv
<1>3. BufferInv' /\ rv' \in {0, ERR_ALLOC, ERR_OVERFLOW} /\ (rv' # 0 => mem' = mem)
  BY <1>1, <1>2, BufferCallKeeps
<1>4. target' = 0 /\ collecting' = FALSE /\ yielded' = <<>> /\ yielded' \in Seq(Texts)
  BY <1>1 DEF CollectorInv
<1>5. Collected'
  BY <1>4 DEF Collected
<1>6. CollectorInv'
  BY <1>3, <1>4, <1>5 DEF CollectorInv
<1> QED BY <1>1, <1>3, <1>6 DEF NoTrace

\* The caller frees what cx_collect gave it.
LEMMA FreeTargetStep ==
    ASSUME CollectorInv, free_target
    PROVE  CollectorInv' /\ NoTrace
<1>1. PICK a : a = target
  OBVIOUS
<1>2. PICK m : m = mem
  OBVIOUS
<1>3. PICK mn : mn = mine
  OBVIOUS
<1>4. PICK sp : sp = spare
  OBVIOUS
<1>5. PICK lg : lg = log
  OBVIOUS
<1>6. PICK q : q = mem'
  OBVIOUS
<1>7. BufferOK(m, mn, sp, lg)
  BY <1>2, <1>3, <1>4, <1>5 DEF CollectorInv, BufferInv
<1>8. /\ a \in mn /\ q = WithBlock(m, a, <<>>) /\ mine' = mn \ {a} /\ spare' = NoSpare
      /\ rv' = 0 /\ log' = lg /\ yielded' = <<>> /\ target' = 0 /\ collecting' = FALSE
  BY <1>1, <1>2, <1>3, <1>5, <1>6 DEF free_target, free, WithBlock, CollectorInv
<1>9. BufferOK(q, mn \ {a}, NoSpare, lg)
  BY <1>7, <1>8, FreeKeeps
<1>10. BufferInv'
  BY <1>6, <1>8, <1>9 DEF BufferInv
<1>11. yielded' \in Seq(Texts)
  BY <1>8
<1>12. Collected'
  BY <1>8 DEF Collected
<1>13. NoTrace
  BY <1>8 DEF NoTrace
<1>14. /\ target' \in mine' \cup {0}
       /\ collecting' = FALSE /\ yielded' = <<>>
       /\ rv' \in {0, 1, ERR_ALLOC, ERR_OVERFLOW}
  BY <1>8
<1>15. CollectorInv'
  BY <1>10, <1>11, <1>12, <1>14 DEF CollectorInv
<1> QED BY <1>13, <1>15

\* The start of cx_collect.
LEMMA CollectStep ==
    ASSUME CollectorInv, cx_collect
    PROVE  CollectorInv' /\ NoTrace
<1>1. PICK m : m = mem
  OBVIOUS
<1>2. PICK mn : mn = mine
  OBVIOUS
<1>3. PICK sp : sp = spare
  OBVIOUS
<1>4. PICK lg : lg = log
  OBVIOUS
<1>5. /\ MemOK(m, mn) /\ IsLog(lg) /\ \A b \in Buffers : Holds(m, b, lg[b])
  BY <1>1, <1>2, <1>4 DEF CollectorInv, BufferInv, BufferOK
<1>6. /\ \A b \in Buffers : m.buf[b] = Empty
      /\ target = 0 /\ target' = 0 /\ collecting' = TRUE /\ spare' = NoSpare /\ rv' = 0
      /\ mem' = m /\ mine' = mn /\ log' = lg /\ yielded' = yielded
      /\ yielded = <<>>
  BY <1>1, <1>2, <1>4 DEF cx_collect, CollectorInv
<1>7. BufferOK(m, mn, NoSpare, lg)
  BY <1>5, NothingReserved
<1>8. BufferInv'
  BY <1>6, <1>7 DEF BufferInv
<1>9. ASSUME NEW b \in Buffers PROVE lg[b] = <<>>
  <2>1. PICK t : t = lg[b]
    OBVIOUS
  <2>2. IsSeq(t) /\ Len(t) = 0
    BY <1>5, <1>6, <2>1, EmptyIs DEF Holds
  <2>3. IsSeq(<<>>) /\ Len(<<>>) = 0 /\ \A i \in 1 .. 0 : FALSE
    BY DEF IsSeq
  <2>4. t = <<>>
    BY <2>2, <2>3, SeqSame
  <2> QED BY <2>1, <2>4
<1>10. Layout(log'[list], log'[list_values], yielded')
  BY <1>6, <1>9, LocalBuffers, LayoutStarts
<1>11. yielded' \in Seq(Texts) /\ OthersEmpty(mem')
  BY <1>6 DEF OthersEmpty
<1>12. Collected'
  BY <1>6 DEF Collected
<1> QED BY <1>6, <1>8, <1>10, <1>11, <1>12 DEF CollectorInv, OthersEmpty, NoTrace

\* The iterator reports an error.
LEMMA NextFailsStep ==
    ASSUME CollectorInv, next_fails
    PROVE  CollectorInv' /\ NoTrace
<1>1. collecting /\ collect_fails(mem, ERR_ALLOC)
  BY DEF next_fails
<1>2. PICK m : m = mem
  OBVIOUS
<1>3. PICK e : e = ERR_ALLOC
  OBVIOUS
<1>4. MemOK(m, mine) /\ OthersEmpty(m) /\ collect_fails(m, e) /\ e \in {ERR_ALLOC, ERR_OVERFLOW}
  BY <1>1, <1>2, <1>3 DEF CollectorInv, BufferInv, BufferOK
<1> QED BY <1>1, <1>4, CollectFailsKeeps

\* Every step keeps the invariant, and a failed call leaves no trace.
LEMMA NextHolds == CollectorInv /\ Next => CollectorInv' /\ NoTrace
<1> SUFFICES ASSUME CollectorInv, Next PROVE CollectorInv' /\ NoTrace
  OBVIOUS
<1>1. CASE buffer_call
  BY <1>1, BufferCallStep
<1>2. CASE free_target
  BY <1>2, FreeTargetStep
<1>3. CASE cx_collect
  BY <1>3, CollectStep
<1>4. CASE next_fails
  BY <1>4, NextFailsStep
<1>5. ASSUME NEW value \in Texts, handle_next(value) PROVE CollectorInv' /\ NoTrace
  BY <1>5, HandleNextKeeps
<1>6. CASE collect_ends
  BY <1>6, CollectEndsKeeps
<1> QED BY <1>1, <1>2, <1>3, <1>4, <1>5, <1>6 DEF Next

\* Stuttering keeps the invariant.
LEMMA StutterHolds == CollectorInv /\ UNCHANGED vars => CollectorInv'
<1> SUFFICES ASSUME CollectorInv, UNCHANGED vars PROVE CollectorInv'
  OBVIOUS
<1>1. /\ mem' = mem /\ mine' = mine /\ spare' = spare /\ log' = log /\ rv' = rv
      /\ collecting' = collecting /\ yielded' = yielded /\ target' = target
  BY DEF vars, bufferVars
<1>2. BufferInv'
  BY <1>1 DEF CollectorInv, BufferInv
<1>3. Collected'
  BY <1>1 DEF CollectorInv, Collected
<1> QED BY <1>1, <1>2, <1>3 DEF CollectorInv, OthersEmpty

\* CollectorInv holds in every reachable state.
LEMMA CollectorInvariant == Spec => []CollectorInv
<1>1. CollectorInv /\ [Next]_vars => CollectorInv'
  BY NextHolds, StutterHolds
<1> QED BY <1>1, InitHolds, PTL DEF Spec

-----------------------------------------------------------------------------
\* The results.

\* Every structure describes its block and what a caller reserved fits in it,
\* which every function of buffer.c relies on.
THEOREM TypeCorrect == Spec => []TypeOK
<1>1. CollectorInv => TypeOK
  <2> SUFFICES ASSUME CollectorInv PROVE TypeOK
    OBVIOUS
  <2>1. MemOK(mem, mine) /\ \A b \in Buffers : mem.buf[b].size + spare[b] <= mem.buf[b].capacity
    BY DEF CollectorInv, BufferInv, BufferOK
  <2>2. Shape
    <3>1. ASSUME NEW b \in Buffers
          PROVE  /\ mem.buf[b].capacity = IF mem.buf[b].data = 0 THEN 0 ELSE Len(mem.heap[mem.buf[b].data])
                 /\ mem.buf[b].size + spare[b] <= mem.buf[b].capacity
                 /\ mem.buf[b].capacity <= SIZE_MAX
      BY <2>1 DEF MemOK
    <3> QED BY <3>1 DEF Shape
  <2>3. \A b \in Buffers : mem.buf[b].data \in Addrs \cup {0}
    BY <2>1, BufferParts
  <2>4. mine \in SUBSET Addrs
    BY <2>1 DEF MemOK
  <2> QED BY <2>2, <2>3, <2>4 DEF TypeOK, CollectorInv
<1> QED BY <1>1, CollectorInvariant, PTL

\* The contents of a buffer are what was appended to it since it was empty, in
\* order, whatever realloc moved and wherever cx_buffer_move put them.
THEOREM ContentsKeptHolds == Spec => []ContentsKept
<1>1. CollectorInv => ContentsKept
  <2> SUFFICES ASSUME CollectorInv PROVE ContentsKept
    OBVIOUS
  <2>1. PICK m : m = mem
    OBVIOUS
  <2>2. PICK mn : mn = mine
    OBVIOUS
  <2>3. MemOK(m, mn) /\ \A b \in Buffers : Holds(m, b, log[b])
    BY <2>1, <2>2 DEF CollectorInv, BufferInv, BufferOK
  <2>4. ASSUME NEW b \in Buffers
        PROVE  log[b] = IF mem.buf[b].data = 0 THEN <<>> ELSE SubSeq(mem.heap[mem.buf[b].data], 1, mem.buf[b].size)
    <3>1. PICK t : t = log[b]
      OBVIOUS
    <3>2. Holds(m, b, t)
      BY <2>3, <3>1
    <3>3. t = IF m.buf[b].data = 0 THEN <<>> ELSE SubSeq(m.heap[m.buf[b].data], 1, m.buf[b].size)
      BY <2>3, <3>2, ContentsAre
    <3> QED BY <2>1, <3>1, <3>3
  <2> QED BY <2>4 DEF ContentsKept
<1> QED BY <1>1, CollectorInvariant, PTL

\* Every block has exactly one owner, a buffer or a caller of cx_buffer_unwrap:
\* the functions leak no block and free none twice.
THEOREM OneOwnerHolds == Spec => []OneOwner
<1>1. CollectorInv => OneOwner
  <2> SUFFICES ASSUME CollectorInv, NEW a \in Addrs
               PROVE  LET owners == {b \in Buffers : mem.buf[b].data = a}
                      IN  IF mem.heap[a] = <<>> THEN owners = {} /\ a \notin mine
                          ELSE IF a \in mine THEN owners = {} ELSE Cardinality(owners) = 1
    BY DEF OneOwner
  <2> DEFINE owners == {b \in Buffers : mem.buf[b].data = a}
  <2>1. MemOK(mem, mine) /\ a # 0
    BY NullIsNoAddress DEF CollectorInv, BufferInv, BufferOK
  <2>2. CASE mem.heap[a] = <<>>
    <3>1. Len(mem.heap[a]) = 0
      BY <2>2
    <3>2. a \notin mine
      <4>1. \A x \in mine : Len(mem.heap[x]) > 0
        BY <2>1 DEF MemOK
      <4> QED BY <3>1, <4>1
    <3>3. ASSUME NEW b \in Buffers, mem.buf[b].data = a PROVE FALSE
      BY <2>1, <3>1, <3>3, BufferParts
    <3> QED BY <2>2, <3>2, <3>3
  <2>3. CASE mem.heap[a] # <<>> /\ a \in mine
    <3>1. ASSUME NEW b \in Buffers, mem.buf[b].data = a PROVE FALSE
      BY <2>1, <2>3, <3>1, BufferParts
    <3> QED BY <2>3, <3>1
  <2>4. CASE mem.heap[a] # <<>> /\ a \notin mine
    <3>1. PICK s : s = mem.heap[a]
      OBVIOUS
    <3>2. IsSeq(s) /\ s # <<>> /\ IsSeq(<<>>) /\ Len(<<>>) = 0
      BY <2>1, <2>4, <3>1 DEF MemOK, IsSeq
    <3>3. Len(s) # 0 /\ Len(s) \in Nat
      BY <3>2, SeqSame, SeqParts
    <3>4. \E b \in Buffers : mem.buf[b].data = a
      <4>1. Len(mem.heap[a]) > 0
        BY <3>1, <3>3
      <4> QED BY <2>1, <2>4, <4>1 DEF MemOK
    <3>5. PICK b \in Buffers : mem.buf[b].data = a
      BY <3>4
    <3>6. \A c \in Buffers : mem.buf[c].data = a => c = b
      BY <2>1, <3>5 DEF MemOK
    <3>7. owners = {b}
      BY <3>5, <3>6
    <3>8. Cardinality(owners) = 1
      <4> HIDE DEF owners
      <4> QED BY <3>7, FS_Singleton
    <3> QED BY <2>4, <3>8
  <2> QED BY <2>2, <2>3, <2>4
<1> QED BY <1>1, CollectorInvariant, PTL

\* cx_collect returns one block with a pointer to each string of the iterator,
\* in order, the strings with their NUL inside the block, and a NULL pointer.
THEOREM CollectedHolds == Spec => []Collected
<1>1. CollectorInv => Collected
  BY DEF CollectorInv
<1> QED BY <1>1, CollectorInvariant, PTL

\* "On error, the buffer is not modified", and a failed cx_collect leaves no
\* block behind.
THEOREM FailedCallsHolds == Spec => FailedCallsLeaveNoTrace
<1>1. CollectorInv /\ [Next]_vars =>
          [rv' < 0 => IF collecting THEN target' = target /\ \A a \in Addrs : mem'.heap[a] # <<>> => a \in mine
                      ELSE mem' = mem]_vars
  BY NextHolds DEF NoTrace
<1> QED BY <1>1, CollectorInvariant, PTL DEF Spec, FailedCallsLeaveNoTrace
=============================================================================
