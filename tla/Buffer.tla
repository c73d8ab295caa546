------------------------------- MODULE Buffer -------------------------------
(***************************************************************************)
(* The growing buffer of lib/collection/buffer.c.                          *)
(*                                                                         *)
(* The functions are operators on memory, a record of the CxBuffer         *)
(* structures and the heap.  A function that allocates has several         *)
(* outcomes, because realloc may fail, grow the block where it is or move  *)
(* it; it is modelled by the set of its outcomes, so that callers such as  *)
(* the collector can chain calls.  An address is a number, 0 is NULL, and  *)
(* a block is a sequence of cells that starts at its address.              *)
(***************************************************************************)
EXTENDS Integers, Sequences, FiniteSetsExt

CONSTANTS
    Buffers,    \* the CxBuffer structures
    Addrs,      \* addresses of blocks, further apart than a block is long
    Cells,      \* values of a byte
    Junk,       \* the value of a byte that was not written
    SIZE_BITS,  \* bits of size_t
    Faults      \* {"alloc"} if realloc may fail

SIZE_MAX == 2^SIZE_BITS - 1

ASSUME BufferAssumption ==
    /\ Addrs \subseteq Nat \ {0}
    /\ Junk \notin Cells
    /\ SIZE_BITS \in Nat \ {0}
    /\ Faults \subseteq {"alloc"}

VARIABLES
    mem,    \* the structures (buf) and the blocks (heap; <<>> is no block)
    mine,   \* blocks that cx_buffer_unwrap gave to the caller
    spare,  \* bytes the last cx_buffer_add_capacity reserved, until the next call
    log,    \* what was appended since the buffer was empty
    rv      \* the result of the last call, 0 if it has none

bufferVars == <<mem, mine, spare, log, rv>>

ERR_ALLOC    == -1
ERR_OVERFLOW == -2

Empty == [data |-> 0, size |-> 0, capacity |-> 0]

NoSpare == [b \in Buffers |-> 0]

Free(m) == {a \in Addrs : m.heap[a] = <<>>}

-----------------------------------------------------------------------------
\* Mutant: the size itself, not the size less one, is measured.
round_to_next_pow2_late(i) ==
    IF i <= 1 THEN 1
    ELSE IF i >= 2^(SIZE_BITS - 1) THEN ERR_OVERFLOW
    ELSE 2^(Min({n \in 0 .. SIZE_BITS : i < 2^n}) - 1)

\* round_to_next_pow2.  SIZE_BITS less the leading zeros of i - 1 is the
\* number of its binary digits; without a leading zero there is no power.
round_to_next_pow2(i) ==
    IF i <= 1 THEN 1
    ELSE IF i - 1 >= 2^(SIZE_BITS - 1) THEN ERR_OVERFLOW
    ELSE 2^Min({n \in 0 .. SIZE_BITS : i - 1 < 2^n})

\* The capacity that cx_buffer_add_capacity or its exact variant ends with.
NewCapacity(b, extra, exact) ==
    LET new == b.size + extra
    IN  IF new > SIZE_MAX THEN ERR_OVERFLOW
        ELSE IF new <= b.capacity THEN b.capacity
        ELSE IF exact THEN new ELSE round_to_next_pow2(new)

\* Mutant: a new block is not filled from the old one.
Resized_blank(heap, old, new, n) ==
    [a \in Addrs |-> IF a = new THEN [i \in 1 .. n |-> Junk]
                     ELSE IF a = old THEN <<>> ELSE heap[a]]

\* The block at old with n cells, as realloc leaves it at address new.
Resized(heap, old, new, n) ==
    [a \in Addrs |->
        IF a = new THEN [i \in 1 .. n |-> IF old # 0 /\ i <= Len(heap[old])
                                          THEN heap[old][i] ELSE Junk]
        ELSE IF a = old THEN <<>> ELSE heap[a]]

\* resize_buffer_exact.  Of the free addresses the lowest stands for all.
resize_buffer_exact(m, b, n) ==
    LET old    == m.buf[b].data
        target == (IF old = 0 THEN {} ELSE {old}) \cup (IF Free(m) = {} THEN {} ELSE {Min(Free(m))})
    IN  {[rv |-> 0,
          mem |-> [buf  |-> [m.buf EXCEPT ![b].data = a, ![b].capacity = n],
                   heap |-> Resized(m.heap, old, a, n)]] : a \in target}
        \cup {[rv |-> ERR_ALLOC, mem |-> m] : f \in Faults}

\* cx_buffer_add_capacity and cx_buffer_add_capacity_exact.
add_capacity(m, b, extra, exact) ==
    LET n == NewCapacity(m.buf[b], extra, exact)
    IN  IF n = ERR_OVERFLOW THEN {[rv |-> ERR_OVERFLOW, mem |-> m]}
        ELSE IF n = m.buf[b].capacity THEN {[rv |-> 0, mem |-> m]}
        ELSE resize_buffer_exact(m, b, n)

\* memcpy of s to the cells behind the buffer's contents.
Written(m, b, s) ==
    LET n == m.buf[b].size
    IN  [m EXCEPT !.heap[m.buf[b].data] =
            [i \in 1 .. Len(@) |-> IF i > n /\ i <= n + Len(s) THEN s[i - n] ELSE @[i]]]

\* cx_buffer_add_size.
add_size(m, b, n) ==
    IF m.buf[b].size + n > SIZE_MAX THEN [rv |-> ERR_OVERFLOW, mem |-> m]
    ELSE [rv |-> 0, mem |-> [m EXCEPT !.buf[b].size = @ + n]]

\* cx_buffer_append.
append(m, b, s) ==
    IF s = <<>> THEN {[rv |-> 0, mem |-> m]}
    ELSE {IF o.rv < 0 THEN o ELSE add_size(Written(o.mem, b, s), b, Len(s)) :
             o \in add_capacity(m, b, Len(s), FALSE)}

\* cx_buffer_cleanup.
cleanup(m, b) ==
    [buf  |-> [m.buf EXCEPT ![b] = Empty],
     heap |-> [a \in Addrs |-> IF a = m.buf[b].data THEN <<>> ELSE m.heap[a]]]

\* Mutant: the source keeps its pointer.
move_shares(m, b, source) ==
    LET c == cleanup(m, b) IN [c EXCEPT !.buf[b] = c.buf[source]]

\* cx_buffer_move.
move(m, b, source) ==
    LET c == cleanup(m, b)
    IN  [c EXCEPT !.buf = [x \in Buffers |-> IF x = source THEN Empty
                                             ELSE IF x = b THEN c.buf[source] ELSE c.buf[x]]]

\* cx_buffer_unwrap: the structure is cleaned up without its data.
unwrap(m, b) == cleanup([m EXCEPT !.buf[b].data = 0], b)

-----------------------------------------------------------------------------
(***************************************************************************)
(* Callers                                                                 *)
(***************************************************************************)

BufferInit ==
    /\ mem = [buf |-> [b \in Buffers |-> Empty], heap |-> [a \in Addrs |-> <<>>]]
    /\ mine = {}
    /\ spare = NoSpare
    /\ log = [b \in Buffers |-> <<>>]
    /\ rv = 0

\* A caller reserves room, to use it before it calls anything else.
cx_buffer_add_capacity(b, n, exact) ==
    /\ \E o \in add_capacity(mem, b, n, exact) :
          /\ mem' = o.mem
          /\ rv' = o.rv
          /\ spare' = [NoSpare EXCEPT ![b] = IF o.rv = 0 THEN n ELSE 0]
    /\ UNCHANGED <<mine, log>>

\* A caller fills part of what it reserved and adds it to the size.
cx_buffer_add_size(b, s) ==
    /\ spare[b] > 0
    /\ Len(s) <= spare[b]
    /\ LET o == add_size(Written(mem, b, s), b, Len(s))
       IN  mem' = o.mem /\ rv' = o.rv
    /\ spare' = NoSpare
    /\ log' = [log EXCEPT ![b] = @ \o s]
    /\ UNCHANGED mine

cx_buffer_append(b, s) ==
    /\ \E o \in append(mem, b, s) :
          /\ mem' = o.mem
          /\ rv' = o.rv
          /\ log' = IF o.rv = 0 THEN [log EXCEPT ![b] = @ \o s] ELSE log
    /\ spare' = NoSpare
    /\ UNCHANGED mine

\* A buffer moved to itself is empty afterwards.
cx_buffer_move(b, source) ==
    /\ mem' = move(mem, b, source)
    /\ log' = [log EXCEPT ![b] = log[source], ![source] = <<>>]
    /\ spare' = NoSpare
    /\ rv' = 0
    /\ UNCHANGED mine

\* The block stays; its old contents are of no use to anybody.
cx_buffer_drain(b) ==
    /\ mem' = [buf  |-> [mem.buf EXCEPT ![b].size = 0],
               heap |-> [a \in Addrs |-> IF a = mem.buf[b].data
                                         THEN [i \in 1 .. Len(mem.heap[a]) |-> Junk]
                                         ELSE mem.heap[a]]]
    /\ log' = [log EXCEPT ![b] = <<>>]
    /\ spare' = NoSpare
    /\ rv' = 0
    /\ UNCHANGED mine

cx_buffer_unwrap(b) ==
    /\ mem' = unwrap(mem, b)
    /\ mine' = mine \cup ({mem.buf[b].data} \ {0})
    /\ log' = [log EXCEPT ![b] = <<>>]
    /\ spare' = NoSpare
    /\ rv' = 0

cx_buffer_cleanup(b) ==
    /\ mem' = cleanup(mem, b)
    /\ log' = [log EXCEPT ![b] = <<>>]
    /\ spare' = NoSpare
    /\ rv' = 0
    /\ UNCHANGED mine

\* A caller frees a block that cx_buffer_unwrap gave it.
free(a) ==
    /\ a \in mine
    /\ mem' = [mem EXCEPT !.heap[a] = <<>>]
    /\ mine' = mine \ {a}
    /\ spare' = NoSpare
    /\ rv' = 0
    /\ UNCHANGED log

BufferCall(sizes, texts) ==
    \/ \E b \in Buffers, n \in sizes, exact \in BOOLEAN : cx_buffer_add_capacity(b, n, exact)
    \/ \E b \in Buffers, s \in texts : cx_buffer_add_size(b, s)
    \/ \E b \in Buffers, s \in texts : cx_buffer_append(b, s)
    \/ \E b, source \in Buffers : cx_buffer_move(b, source)
    \/ \E b \in Buffers : cx_buffer_drain(b)
    \/ \E b \in Buffers : cx_buffer_unwrap(b)
    \/ \E b \in Buffers : cx_buffer_cleanup(b)
    \/ \E a \in mine : free(a)

-----------------------------------------------------------------------------
\* A structure describes its block: capacity is the length of the block, the
\* contents and the bytes a caller reserved fit in it.
Shape ==
    \A b \in Buffers :
        LET s == mem.buf[b]
        IN  /\ s.capacity = IF s.data = 0 THEN 0 ELSE Len(mem.heap[s.data])
            /\ s.size + spare[b] <= s.capacity
            /\ s.capacity <= SIZE_MAX

\* The contents are what was appended, in order, whatever realloc moved and
\* wherever cx_buffer_move put them.
ContentsKept ==
    \A b \in Buffers :
        LET s == mem.buf[b]
        IN  log[b] = IF s.data = 0 THEN <<>> ELSE SubSeq(mem.heap[s.data], 1, s.size)

\* Every block has exactly one owner, a buffer or the caller of
\* cx_buffer_unwrap: nothing is leaked and nothing is freed twice.
OneOwner ==
    \A a \in Addrs :
        LET owners == {b \in Buffers : mem.buf[b].data = a}
        IN  IF mem.heap[a] = <<>> THEN owners = {} /\ a \notin mine
            ELSE IF a \in mine THEN owners = {} ELSE Cardinality(owners) = 1
=============================================================================
