-------------------------------- MODULE Utf8 --------------------------------
(***************************************************************************)
(* The UTF-8 functions of lib/unicode/utf8.c and utf16.c, and the tables   *)
(* of lib/unicode/codegen/byte_size.c they use.  A string is a sequence of *)
(* bytes; byte index i of the code is element i + 1.  The functions look   *)
(* only at leading bytes: continuation bytes are not checked.  A NULL      *)
(* string, for which cx_utf8_cp returns 0, is left out.                    *)
(***************************************************************************)
EXTENDS Integers, Sequences

Byte == 0 .. 255

\* utf8_len_map: the bytes of a character by its first byte, 0 if it has none.
utf8_len_map(b) ==
    IF b < 128 THEN 1
    ELSE IF b \in 192 .. 223 THEN 2
    ELSE IF b \in 224 .. 239 THEN 3
    ELSE IF b \in 240 .. 247 THEN 4
    ELSE 0

\* utf16_len_map.  A character of three bytes counts as two.
utf16_len_map(b) ==
    IF b < 128 THEN 1
    ELSE IF b \in 192 .. 223 THEN 1
    ELSE IF b \in 224 .. 247 THEN 2
    ELSE 0

\* cx_utf8_csize: the size of the first character, 0 if it is cut off.
cx_utf8_csize(s, length) ==
    IF utf8_len_map(s[1]) > length THEN 0 ELSE utf8_len_map(s[1])

\* The loop of cx_utf8_clen and cx_utf8_16len: the sum over all characters,
\* -1 at a byte that begins none.
SumLeads(s, weight) ==
    LET from[i \in Nat] ==
            IF i >= Len(s) THEN 0
            ELSE LET n    == utf8_len_map(s[i + 1])
                     rest == from[i + n]
                 IN  IF n = 0 \/ rest = -1 THEN -1 ELSE rest + weight[s[i + 1]]
    IN  from[0]

cx_utf8_clen(s) == SumLeads(s, [b \in Byte |-> 1])

cx_utf8_16len(s) == SumLeads(s, [b \in Byte |-> utf16_len_map(b)])

\* The loop of cx_utf8_bidx: byte_index after n turns, -1 after the early return.
SkipChars(s, n) ==
    LET at[i \in 0 .. n] ==
            IF i = 0 THEN 0
            ELSE LET byte_index == at[i - 1]
                     char_len   == utf8_len_map(s[byte_index + 1])
                 IN  IF byte_index = -1 \/ byte_index >= Len(s) THEN byte_index
                     ELSE IF char_len = 0 THEN -1 ELSE byte_index + char_len
    IN  at[n]

\* Mutant: an index behind the end is returned.
cx_utf8_bidx_unchecked(s, char_index) == SkipChars(s, char_index)

\* cx_utf8_bidx.
cx_utf8_bidx(s, char_index) ==
    LET byte_index == SkipChars(s, char_index)
    IN  IF byte_index > Len(s) THEN -1 ELSE byte_index

\* Mutant: the mask is 0x1F.
Payload_narrow(b) == b % 32

\* The bits of a continuation byte, b & 0x3F.
Payload(b) == b % 64

\* cx_utf8_cp: the masked bits of the bytes, shifted.
cx_utf8_cp(s, length) ==
    CASE cx_utf8_csize(s, length) = 1 -> s[1]
      [] cx_utf8_csize(s, length) = 2 -> (s[1] % 32) * 64 + Payload(s[2])
      [] cx_utf8_csize(s, length) = 3 -> (s[1] % 16) * 4096 + Payload(s[2]) * 64 + Payload(s[3])
      [] cx_utf8_csize(s, length) = 4 -> (s[1] % 8) * (64 * 4096) + Payload(s[2]) * 4096
                                         + Payload(s[3]) * 64 + Payload(s[4])
      [] OTHER -> -1

-----------------------------------------------------------------------------
\* What the functions are compared with: the bytes the Unicode standard gives
\* a code point.
Encoded(cp) ==
    IF cp < 128 THEN <<cp>>
    ELSE IF cp < 2048 THEN <<192 + (cp \div 64), 128 + (cp % 64)>>
    ELSE IF cp < 16 * 4096
    THEN <<224 + (cp \div 4096), 128 + ((cp \div 64) % 64), 128 + (cp % 64)>>
    ELSE <<240 + (cp \div (64 * 4096)), 128 + ((cp \div 4096) % 64),
           128 + ((cp \div 64) % 64), 128 + (cp % 64)>>
=============================================================================
