----------------------------- MODULE MCUnicode ------------------------------
(***************************************************************************)
(* A small instance of Unicode for TLC.                                    *)
(***************************************************************************)
EXTENDS Unicode

Line(first, last, class) == [first |-> first, last |-> last, class |-> class]

\* Ranges that fill a block of 16, end inside one, cross a boundary, are a
\* single code point; a line of another class and a comment.
MCLines == {Line(0, 31, "Cc"), Line(16, 31, "W"), Line(5, 18, "Mn"), Line(40, None, "Me"),
            Line(120, 135, "W"), Line(30, 50, "N"), Line(None, None, "W")}

\* Code points 0 to 31 and 40 have width 0, those from 120 to 135 are wide.
MCTextFiles == {[double |-> <<Line(120, 135, "W")>>,
                 zero   |-> <<Line(0, 31, "Cc"), Line(40, None, "Me")>>]}
=============================================================================
