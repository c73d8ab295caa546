----------------------------- MODULE WidthTable -----------------------------
(***************************************************************************)
(* The tables that lib/unicode/codegen/char_width.c generates from the     *)
(* files of the Unicode database, and table_lookup of unicode-width.c that *)
(* reads them.  A line of a file has a first and a last code point and a   *)
(* class, which is the field that parse_range compares; last is None if    *)
(* the line names a single code point and first is None if it names none.  *)
(* Ranges ascend.  A byte is the set of the bits that are set in it.       *)
(***************************************************************************)
EXTENDS Integers, Sequences, FiniteSetsExt, SequencesExt

CONSTANTS
    None,
    UINT8_MAX   \* the largest entry of a lookup table

\* The classes parse_range accepts: wide, and the four of width 0.
Accepted == {"W", "Cc", "Cf", "Mn", "Me"}

\* parse_range: the range of a line that counts, <<>> for other lines.
parse_range(line) ==
    IF line.first = None \/ line.class \notin Accepted THEN <<>>
    ELSE <<line.first, IF line.last = None THEN line.first ELSE line.last>>

\* find_max: one more than the largest code point, 1 for a file without any.
find_max(file) ==
    1 + Max({0} \cup UNION {Range(parse_range(file[i])) : i \in DOMAIN file})

\* generate_flat_table, as the set of the code points marked TRUE.
generate_flat_table(file) ==
    UNION {LET r == parse_range(file[i]) IN IF r = <<>> THEN {} ELSE r[1] .. r[2] :
              i \in DOMAIN file}

\* A block of n code points whose bits are all set, as far as there are any.
AllSet(flat, size, n, i) == \A j \in 0 .. n - 1 : i * n + j < size => i * n + j \in flat
AllUnset(flat, size, n, i) == \A j \in 0 .. n - 1 : i * n + j < size => i * n + j \notin flat

\* print_radix_table: every block that is neither full nor empty is written;
\* full and empty blocks share one copy each, written at the end if needed.
print_radix_table(flat, size, radix) ==
    LET n        == 2^radix
        blocks   == 0 .. ((size \div n) + (IF size % n = 0 THEN 0 ELSE 1)) - 1
        full     == {i \in blocks : AllSet(flat, size, n, i)}
        null     == {i \in blocks : AllUnset(flat, size, n, i)}
        mixed    == blocks \ (full \cup null)
        TBL(i)   == Cardinality({j \in mixed : j < i})
        TBL_FULL == Cardinality(mixed)
        TBL_NULL == TBL_FULL + (IF full = {} THEN 0 ELSE 1)
        copies   == TBL_NULL + (IF null = {} THEN 0 ELSE 1)
        bytes(c, k) ==
            IF c < TBL_FULL
            THEN LET i == CHOOSE i \in mixed : TBL(i) = c
                 IN  {b \in 0 .. 7 : i * n + k * 8 + b \in flat}
            ELSE IF c < TBL_NULL THEN 0 .. 7 ELSE {}
    IN  [tbl    |-> [p \in 1 .. copies * (n \div 8) |->
                        bytes((p - 1) \div (n \div 8), (p - 1) % (n \div 8))],
         lookup |-> [i \in blocks |->
                        (IF i \in full THEN TBL_FULL
                         ELSE IF i \in null THEN TBL_NULL ELSE TBL(i)) % (UINT8_MAX + 1)],
         size   |-> size,
         radix  |-> radix]

\* main.
codegen(file, radix) ==
    print_radix_table(generate_flat_table(file), find_max(file), radix)

\* Mutant: the last code point is left out.
table_lookup_short(t, cp) ==
    /\ cp < t.size - 1
    /\ LET index == t.lookup[cp \div (2^t.radix)]
           byte  == t.tbl[((index * (2^t.radix)) \div 8) + ((cp % (2^t.radix)) \div 8) + 1]
       IN  cp % 8 \in byte

\* table_lookup of unicode-width.c.
table_lookup(t, cp) ==
    /\ cp < t.size
    /\ LET index == t.lookup[cp \div (2^t.radix)]
           byte  == t.tbl[((index * (2^t.radix)) \div 8) + ((cp % (2^t.radix)) \div 8) + 1]
       IN  cp % 8 \in byte

-----------------------------------------------------------------------------
\* The copies of blocks in a table can be numbered by a byte.
Fits(t) == Len(t.tbl) <= (UINT8_MAX + 1) * ((2^t.radix) \div 8)
=============================================================================
