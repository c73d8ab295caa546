------------------------------ MODULE RcMapOps ------------------------------
(***************************************************************************)
(* The functions of lib/collection/rc_map.c on the value of a CxRcMap: a   *)
(* record of the reference counts and the contents of its slots.  The      *)
(* content of an empty slot is not read by any function; it is NULL here.  *)
(* RcMap drives these functions with clients, RcHashMap puts them behind   *)
(* a hash table.                                                           *)
(***************************************************************************)
EXTENDS Integers

CONSTANT NULL

\* cx_rc_map_init: all counts are zero.
cx_rc_map_init(Slots) ==
    [ref_count |-> [i \in Slots |-> 0], data |-> [i \in Slots |-> NULL]]

\* cx_rc_map_is_empty.
is_empty(m, i) == m.ref_count[i] = 0

\* retain_rc.
retain_rc(m, i) == [m EXCEPT !.ref_count[i] = @ + 1]

\* cx_rc_map_retain, which returns NULL for an empty slot.
retain(m, i) == IF is_empty(m, i) THEN m ELSE retain_rc(m, i)

\* cx_rc_map_set: an occupied slot keeps its content.
set(m, i, d) ==
    IF is_empty(m, i)
    THEN retain_rc([m EXCEPT !.data[i] = d], i)
    ELSE retain(m, i)

\* Mutant: the item that finds the slot occupied is dropped.
SetCleans_nothing(m, i, d) == {}

\* The items cx_rc_map_set passes to the cleanup function.
SetCleans(m, i, d) == IF is_empty(m, i) THEN {} ELSE {d}

\* release_rc.
release_rc(m, i) == [m EXCEPT !.ref_count[i] = @ - 1]

\* cx_rc_map_release_index.
release_index(m, i) ==
    LET r == release_rc(m, i)
    IN  IF is_empty(r, i) THEN [r EXCEPT !.data[i] = NULL] ELSE r

\* The items cx_rc_map_release_index passes to the cleanup function.
ReleaseCleans(m, i) == IF is_empty(release_rc(m, i), i) THEN {m.data[i]} ELSE {}
=============================================================================
