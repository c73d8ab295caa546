----------------------------- MODULE Collector ------------------------------
(***************************************************************************)
(* cx_collect of lib/collection/collector.c on top of the buffers.  It     *)
(* turns what an iterator yields into one block: an array of pointers that *)
(* ends with NULL, followed by the strings they point to.  While it        *)
(* collects, the array holds offsets and the strings grow in a buffer of   *)
(* their own.  Callers of the buffer functions share the heap with it; the *)
(* two local buffers of cx_collect are elements of Buffers that no other   *)
(* caller uses meanwhile.                                                  *)
(***************************************************************************)
EXTENDS Buffer

CONSTANTS
    list, list_values,  \* the local buffers
    WORD,               \* sizeof(uintptr_t)
    NUL,                \* the byte 0
    Texts,              \* strings that callers append and iterators yield
    Sizes,              \* arguments of cx_buffer_add_capacity
    MaxItems,           \* bound: strings an iterator yields
    MaxBytes,           \* bound: bytes that callers keep in all buffers
    MaxBlocks           \* bound: blocks a caller keeps

ASSUME CollectorAssumption ==
    /\ {list, list_values} \subseteq Buffers /\ list # list_values
    /\ WORD \in Nat \ {0}
    /\ NUL \in Cells
    /\ Texts \subseteq Seq(Cells)
    /\ Sizes \subseteq Nat

VARIABLES
    collecting,  \* cx_collect is running
    yielded,     \* the strings the iterator yielded
    target       \* the block *target points to, 0 if there is none

vars == <<bufferVars, collecting, yielded, target>>

\* A word in memory: WORD cells that only make sense together.
Word(v) == [i \in 1 .. WORD |-> [word |-> v, part |-> i]]

\* The word at index i of a block, counted from 0.
WordAt(block, i) == block[i * WORD + 1].word

Init ==
    /\ BufferInit
    /\ collecting = FALSE
    /\ yielded = <<>>
    /\ target = 0

\* A caller of the buffer functions, which has freed what cx_collect returned.
buffer_call ==
    /\ ~collecting
    /\ target = 0
    /\ BufferCall(Sizes, Texts)
    /\ Cardinality(mine') <= MaxBlocks
    /\ MapThenSumSet(LAMBDA b : Len(log'[b]), Buffers) <= MaxBytes
    /\ UNCHANGED <<collecting, yielded, target>>

\* The caller of cx_collect frees the block.
free_target ==
    /\ ~collecting
    /\ target # 0
    /\ free(target)
    /\ yielded' = <<>>
    /\ target' = 0
    /\ UNCHANGED collecting

\* cx_collect is called: both buffers are initialised.
cx_collect ==
    /\ ~collecting
    /\ \A b \in Buffers : mem.buf[b] = Empty
    /\ Cardinality(mine) < MaxBlocks
    /\ target = 0
    /\ collecting' = TRUE
    /\ spare' = NoSpare
    /\ rv' = 0
    /\ UNCHANGED <<mem, mine, log, yielded, target>>

\* Mutant: the values are not freed on the way out.
Out_keeps_values(m) == cleanup(m, list)

\* The label out: both buffers are cleaned up.
Out(m) == cleanup(cleanup(m, list), list_values)

\* cx_collect returns an error.
collect_fails(m, err) ==
    /\ mem' = Out(m)
    /\ rv' = err
    /\ collecting' = FALSE
    /\ log' = [b \in Buffers |-> <<>>]
    /\ yielded' = <<>>
    /\ UNCHANGED <<mine, spare, target>>

\* The callback returned an error.
next_fails == collecting /\ collect_fails(mem, ERR_ALLOC)

\* handle_next with a string: its offset, the string and a NUL are appended.
\* Each of the three appends may fail.
handle_next(value) ==
    LET offset == mem.buf[list_values].size
    IN
    /\ collecting
    /\ Len(yielded) < MaxItems
    /\ \E o1 \in append(mem, list, Word(offset)) :
          IF o1.rv < 0 THEN collect_fails(o1.mem, o1.rv)
          ELSE \E o2 \in append(o1.mem, list_values, value) :
          IF o2.rv < 0 THEN collect_fails(o2.mem, o2.rv)
          ELSE \E o3 \in append(o2.mem, list_values, <<NUL>>) :
          IF o3.rv < 0 THEN collect_fails(o3.mem, o3.rv)
          ELSE /\ mem' = o3.mem
               /\ rv' = 1
               /\ log' = [log EXCEPT ![list] = @ \o Word(offset),
                                     ![list_values] = @ \o value \o <<NUL>>]
               /\ yielded' = Append(yielded, value)
               /\ UNCHANGED <<mine, spare, collecting, target>>

\* Mutant: base_size is read before the NULL pointer is appended.
BaseSize_early(m, before) == before.buf[list].size

\* base_size: where the strings will start.
BaseSize(m, before) == m.buf[list].size

\* The last loop: offsets become addresses.
FixUp(block, addr, base, elements) ==
    [i \in 1 .. Len(block) |->
        IF i <= elements * WORD THEN [block[i] EXCEPT !.word = @ + base + addr] ELSE block[i]]

\* The iterator ends: the NULL pointer and the strings are appended to the
\* array, which is unwrapped and given to the caller.
collect_ends ==
    /\ collecting
    /\ \E o1 \in append(mem, list, Word(0)) :
          IF o1.rv < 0 THEN collect_fails(o1.mem, o1.rv)
          ELSE LET values == mem.buf[list_values]
                   text   == IF values.data = 0 THEN <<>>
                             ELSE SubSeq(o1.mem.heap[values.data], 1, values.size)
               IN  \E o2 \in append(o1.mem, list, text) :
          IF o2.rv < 0 THEN collect_fails(o2.mem, o2.rv)
          ELSE LET result == o2.mem.buf[list].data
                   fixed  == FixUp(o2.mem.heap[result], result, BaseSize(o1.mem, mem), Len(yielded))
               IN  /\ mem' = Out([unwrap(o2.mem, list) EXCEPT !.heap[result] = fixed])
                   /\ mine' = mine \cup {result}
                   /\ target' = result
                   /\ rv' = 0
                   /\ collecting' = FALSE
                   /\ log' = [b \in Buffers |-> <<>>]
                   /\ UNCHANGED <<spare, yielded>>

Next ==
    \/ buffer_call
    \/ free_target
    \/ cx_collect
    \/ next_fails
    \/ \E value \in Texts : handle_next(value)
    \/ collect_ends

Spec == Init /\ [][Next]_vars

-----------------------------------------------------------------------------
\* The data in its types, and Shape, which the code relies on in every call.
TypeOK ==
    /\ Shape
    /\ \A b \in Buffers : mem.buf[b].data \in Addrs \cup {0}
    /\ mine \in SUBSET Addrs
    /\ target \in mine \cup {0}
    /\ collecting \in BOOLEAN
    /\ rv \in {0, 1, ERR_ALLOC, ERR_OVERFLOW}

\* The block that cx_collect returns has a pointer for every string that the
\* iterator yielded, in order, each to the string's bytes followed by NUL,
\* all inside the block, and then the NULL pointer.
Collected ==
    target # 0 =>
        LET block == mem.heap[target]
            n     == Len(yielded)
        IN  /\ \A i \in 1 .. n :
                  LET from == WordAt(block, i - 1) - target
                      to   == from + Len(yielded[i]) + 1
                  IN  /\ from >= 0 /\ to <= Len(block)
                      /\ SubSeq(block, from + 1, to) = yielded[i] \o <<NUL>>
            /\ SubSeq(block, n * WORD + 1, (n + 1) * WORD) = Word(0)

\* "On error, the buffer is not modified": a failed call of a buffer function
\* changes neither structures nor heap, and a failed cx_collect leaves no
\* block behind and *target alone.
FailedCallsLeaveNoTrace ==
    [][rv' < 0 =>
          IF collecting THEN target' = target /\ \A a \in Addrs : mem'.heap[a] # <<>> => a \in mine
          ELSE mem' = mem]_vars
=============================================================================
