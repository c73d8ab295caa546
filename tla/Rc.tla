--------------------------------- MODULE Rc ---------------------------------
(***************************************************************************)
(* The atomic reference count of lib/memory/rc.c.  A holder is a pointer   *)
(* to the counted object; it is made by cx_rc_init or by copying another   *)
(* one after cx_rc_retain, and given up with cx_rc_release.  The holder    *)
(* that is told TRUE must free the object.  Each function is one atomic    *)
(* operation on an unsigned int.                                           *)
(***************************************************************************)
EXTENDS Integers, FiniteSets

CONSTANTS
    Holders,
    Creator,    \* the holder that calls cx_rc_init
    UINT_MAX

\* There are never more references than an unsigned int can count.
ASSUME RcAssumption ==
    /\ IsFiniteSet(Holders)
    /\ Creator \in Holders
    /\ UINT_MAX \in Nat
    /\ Cardinality(Holders) <= UINT_MAX

VARIABLES
    rc_count,  \* rc->count
    ref        \* per holder "none", "held", "released", "last" (told TRUE), "freed"

rcVars == <<rc_count, ref>>

\* cx_rc_init.
RcInit ==
    /\ rc_count = 1
    /\ ref = [h \in Holders |-> IF h = Creator THEN "held" ELSE "none"]

\* cx_rc_retain: holder h makes a copy of its pointer, g.
cx_rc_retain(h, g) ==
    /\ ref[h] = "held" /\ ref[g] = "none"
    /\ rc_count' = (rc_count + 1) % (UINT_MAX + 1)
    /\ ref' = [ref EXCEPT ![g] = "held"]

\* Mutant: one reference too early.
WasLast_early(old) == old <= 2

\* The result of cx_rc_release for the count before.
WasLast(old) == old = 1

\* cx_rc_release.
cx_rc_release(h) ==
    /\ ref[h] = "held"
    /\ rc_count' = (rc_count - 1) % (UINT_MAX + 1)
    /\ ref' = [ref EXCEPT ![h] = IF WasLast(rc_count) THEN "last" ELSE "released"]

\* The holder that was told TRUE frees the object.
Free(h) ==
    /\ ref[h] = "last"
    /\ ref' = [ref EXCEPT ![h] = "freed"]
    /\ UNCHANGED rc_count

RcNext == \E h \in Holders :
    \/ \E g \in Holders : cx_rc_retain(h, g)
    \/ cx_rc_release(h)
    \/ Free(h)

RcSpec == RcInit /\ [][RcNext]_rcVars

-----------------------------------------------------------------------------
RcTypeOK ==
    /\ rc_count \in 0 .. UINT_MAX
    /\ ref \in [Holders -> {"none", "held", "released", "last", "freed"}]

\* However the holders race, exactly one is told by cx_rc_release to free the
\* object: nobody while there is a reference, and one once there is none.
FreedByOne ==
    LET Freeing == {h \in Holders : ref[h] \in {"last", "freed"}}
        Held    == {h \in Holders : ref[h] = "held"}
    IN  /\ \A h, g \in Freeing : h = g
        /\ Freeing = {} <=> Held # {}
=============================================================================
