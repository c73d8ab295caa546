------------------------------ MODULE Unicode -------------------------------
(***************************************************************************)
(* Text in a terminal: lib/unicode/unicode-width.c over the UTF-8          *)
(* functions (Utf8) and the generated tables (WidthTable).                 *)
(*                                                                         *)
(* The functions have no state; the state machine enumerates their inputs. *)
(* First the files of the Unicode database get lines, and the build        *)
(* generates the tables.  Then a text is typed, character by character,    *)
(* and may be damaged: cut, or followed by stray bytes.                    *)
(***************************************************************************)
EXTENDS Utf8, WidthTable

CONSTANTS
    Lines,      \* lines of the database files
    MaxLines,   \* bound: lines of a file
    TextFiles,  \* bound: the pairs of files over which texts are typed
    Radix,      \* the radix of both tables (8 and 9 in the build)
    CodePoints, \* characters that are typed
    MaxChars,   \* bound: characters of a text
    Stray,      \* bytes of a damaged text
    MaxStray,   \* bound: stray bytes
    Columns,    \* column arguments of cx_utf8_colidx
    TAB_SIZE

ASSUME UnicodeAssumption ==
    /\ \A cp \in CodePoints : cp \in Nat /\ cp < 272 * 4096  \* below 0x110000
    /\ Stray \subseteq Byte
    /\ TAB_SIZE \in Nat \ {0}
    /\ Columns \subseteq Nat

\* The tables are made of blocks of whole bytes.
ASSUME TableAssumption ==
    /\ \A line \in Lines : line.first \in Nat \cup {None} /\ line.last \in Nat \cup {None}
    /\ UINT8_MAX \in Nat
    /\ 2^Radix \in Nat /\ 2^Radix >= 8 /\ 2^Radix % 8 = 0

VARIABLES
    file,    \* file.double: EastAsianWidth.txt, file.zero: UnicodeData.txt
    table,   \* the tables generated from them, None before the build
    text,    \* the code points typed
    str,     \* the bytes
    damage   \* bytes that were cut off or are stray

vars == <<file, table, text, str, damage>>

Init ==
    /\ file = [double |-> <<>>, zero |-> <<>>]
    /\ table = None
    /\ text = <<>>
    /\ str = <<>>
    /\ damage = 0

\* The database gets another line.
add_line(f, line) ==
    /\ table = None
    /\ Len(file[f]) < MaxLines
    /\ file' = [file EXCEPT ![f] = Append(@, line)]
    /\ UNCHANGED <<table, text, str, damage>>

\* The build runs codegen_char_width for both files.
build ==
    /\ table = None
    /\ table' = [double |-> codegen(file.double, Radix), zero |-> codegen(file.zero, Radix)]
    /\ UNCHANGED <<file, text, str, damage>>

\* A character is typed.
type(cp) ==
    /\ table # None /\ file \in TextFiles
    /\ damage = 0
    /\ Len(text) < MaxChars
    /\ text' = Append(text, cp)
    /\ str' = str \o Encoded(cp)
    /\ UNCHANGED <<file, table, damage>>

\* The last byte is lost.
cut ==
    /\ str # <<>>
    /\ damage < MaxStray
    /\ str' = Front(str)
    /\ damage' = damage + 1
    /\ UNCHANGED <<file, table, text>>

\* A byte follows that need not begin or continue a character.
stray(b) ==
    /\ table # None /\ file \in TextFiles
    /\ damage < MaxStray
    /\ str' = Append(str, b)
    /\ damage' = damage + 1
    /\ UNCHANGED <<file, table, text>>

Next ==
    \/ \E f \in {"double", "zero"}, line \in Lines : add_line(f, line)
    \/ build
    \/ \E cp \in CodePoints : type(cp)
    \/ cut
    \/ \E b \in Stray : stray(b)

Spec == Init /\ [][Next]_vars

-----------------------------------------------------------------------------
\* cx_cp_width: 1, and 1 more or less by the two tables.
cx_cp_width(cp) ==
    (IF table_lookup(table.double, cp) THEN 1 ELSE 0)
    + (IF table_lookup(table.zero, cp) THEN 0 ELSE 1)

\* The string from byte index i on, and the character there as the loops of
\* cx_utf8_cols and cx_utf8_colidx take it.
Rest(s, i) == SubSeq(s, i + 1, Len(s))
CharSize(s, i) == cx_utf8_csize(Rest(s, i), Len(s) - i)
CharAt(s, i) == cx_utf8_cp(Rest(s, i), CharSize(s, i))

\* cx_utf8_cols.
cx_utf8_cols(s) ==
    LET from[i \in Nat] ==
            IF i >= Len(s) THEN 0
            ELSE LET cp   == CharAt(s, i)
                     rest == from[i + CharSize(s, i)]
                 IN  IF cp < 0 \/ rest = -1 THEN -1 ELSE rest + cx_cp_width(cp)
    IN  from[0]

\* cx_utf8_colidx: from[<<i, column>>] is the result from byte index i on, with
\* so many columns to go.  A tab rounds them up to the next multiple.
cx_utf8_colidx(s, col, tab_size) ==
    LET from[at \in Nat \X Nat] ==
            LET i      == at[1]
                column == at[2]
                cp     == CharAt(s, i)
                width  == cx_cp_width(cp)
            IN  IF i >= Len(s) THEN i
                ELSE IF s[i + 1] = 9
                THEN from[<<i + 1, ((column \div tab_size) + 1) * tab_size>>]
                ELSE IF cp < 0 THEN -1
                ELSE IF column < width THEN i
                ELSE from[<<i + CharSize(s, i), column - width>>]
    IN  from[<<0, col>>]

-----------------------------------------------------------------------------
\* The width of a code point as the files say it.
Width(cp) ==
    (IF cp \in generate_flat_table(file.double) THEN 1 ELSE 0)
    + (IF cp \in generate_flat_table(file.zero) THEN 0 ELSE 1)

\* Sum of the first n of the weights of the characters of the text.
SumText(weights, n) ==
    LET sum[k \in 0 .. n] == IF k = 0 THEN 0 ELSE sum[k - 1] + weights[k]
    IN  sum[n]

\* The bytes, the UTF-16 units and the columns of the characters of the text.
\* A character of three bytes counts as two units.
Bytes   == [k \in DOMAIN text |-> Len(Encoded(text[k]))]
Units   == [k \in DOMAIN text |-> IF text[k] < 2048 THEN 1 ELSE 2]
Widths  == [k \in DOMAIN text |-> Width(text[k])]

\* Reading the generated tables through their two levels says of every code
\* point, also beyond the last one in the file, what the lines of the file
\* say, as long as the blocks can be numbered by a byte.
TablesExact ==
    table # None => \A f \in {"double", "zero"} : Fits(table[f]) =>
        \A cp \in 0 .. find_max(file[f]) + 2^Radix :
            table_lookup(table[f], cp) <=> cp \in generate_flat_table(file[f])

\* On a well-formed text every function agrees with the text: its characters
\* are found at the byte indices cx_utf8_bidx gives, and decoded to what was
\* typed; cx_utf8_clen and cx_utf8_cols are their number and their columns;
\* cx_utf8_16len is the number of UTF-16 units, and one more for every
\* character of three bytes.  In a text without tabs cx_utf8_colidx finds the
\* first character that reaches beyond the column, or the end.
TextMeasured ==
    damage = 0 =>
        /\ cx_utf8_clen(str) = Len(text)
        /\ cx_utf8_16len(str) = SumText(Units, Len(text))
        /\ \A n \in 0 .. Len(text) :
              LET i == cx_utf8_bidx(str, n)
              IN  /\ i = SumText(Bytes, n)
                  /\ n < Len(text) => CharAt(str, i) = text[n + 1]
        /\ table # None /\ Fits(table.double) /\ Fits(table.zero) =>
              /\ cx_utf8_cols(str) = SumText(Widths, Len(text))
              /\ 9 \notin Range(text) => \A column \in Columns :
                    LET beyond == {n \in 0 .. Len(text) - 1 : SumText(Widths, n + 1) > column}
                        n      == IF beyond = {} THEN Len(text) ELSE Min(beyond)
                    IN  cx_utf8_colidx(str, column, TAB_SIZE) = cx_utf8_bidx(str, n)

\* On any bytes: an index cx_utf8_bidx returns is inside the string and grows
\* with its argument up to the end; cx_utf8_cols fails exactly if a byte
\* begins no character or the last character is cut off, which cx_utf8_clen
\* counts and cx_utf8_bidx refuses; and cx_utf8_colidx returns the beginning
\* of a character or the end.
DamageSeen ==
    LET chars    == cx_utf8_clen(str)
        index(n) == cx_utf8_bidx(str, n)
    IN  /\ \A n \in 0 .. Len(str) : index(n) \in -1 .. Len(str)
        /\ \A n \in 1 .. Len(str) :
              index(n) # -1 => index(n - 1) < index(n) \/ index(n) = Len(str)
        /\ chars >= 0 => \A n \in 0 .. chars - 1 : index(n) \in 0 .. Len(str) - 1
        /\ table # None =>
              /\ cx_utf8_cols(str) >= 0 <=> chars >= 0 /\ index(chars) = Len(str)
              /\ \A column \in Columns :
                    cx_utf8_colidx(str, column, TAB_SIZE) \in {index(n) : n \in 0 .. Len(str)}
=============================================================================
