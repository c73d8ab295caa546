------------------------------- MODULE Future -------------------------------
(***************************************************************************)
(* The future of lib/concurrency/future.c: a value that is set once and    *)
(* handed to every thread that waits for it.  out_value is only accessed   *)
(* under the mutex, so each critical section is one action; NULL is the    *)
(* value that means "not resolved".  The unlock at the end of a call is a  *)
(* step of its own, since it still uses the future.                        *)
(* cx_future_get_in_value only reads a field that never changes and is no  *)
(* action.                                                                 *)
(***************************************************************************)
CONSTANTS
    Resolvers,  \* threads that call cx_future_resolve, once each
    Waiters,    \* threads that call cx_future_wait, once each
    Values,     \* the values passed to cx_future_resolve; NULL may be among them
    NULL

VARIABLES
    out_value,  \* future->out_value
    rvalue,     \* the argument of a resolver's call
    rv,         \* its result: "none" before the call, then "0" or "-1"
    wpc,        \* "idle", "enter" or "woken" (competing for the mutex), "asleep", "done"
    got,        \* what cx_future_wait returned
    leaving,    \* threads in the pthread_mutex_unlock at the end of their call
    freed       \* cx_future_destroy was called

vars == <<out_value, rvalue, rv, wpc, got, leaving, freed>>

\* out_value and the results are values; the threads are where they can be.
TypeOK ==
    /\ out_value \in Values \cup {NULL}
    /\ rvalue \in [Resolvers -> Values \cup {NULL}]
    /\ rv \in [Resolvers -> {"none", "0", "-1"}]
    /\ wpc \in [Waiters -> {"idle", "enter", "woken", "asleep", "done"}]
    /\ got \in [Waiters -> Values \cup {NULL}]
    /\ \A w \in Waiters : wpc[w] = "done" => got[w] # NULL
    /\ leaving \subseteq Resolvers \cup Waiters
    /\ freed \in BOOLEAN

\* cx_future_init returned a zeroed structure with its in_value.
Init ==
    /\ out_value = NULL
    /\ rvalue = [r \in Resolvers |-> NULL]
    /\ rv = [r \in Resolvers |-> "none"]
    /\ wpc = [w \in Waiters |-> "idle"]
    /\ got = [w \in Waiters |-> NULL]
    /\ leaving = {}
    /\ freed = FALSE

\* A thread calls cx_future_wait.
wait_enter(w) ==
    /\ wpc[w] = "idle"
    /\ wpc' = [wpc EXCEPT ![w] = "enter"]
    /\ UNCHANGED <<out_value, rvalue, rv, got, leaving, freed>>

\* The condition of the while loop of cx_future_wait.
MustSleep(w) == out_value = NULL

\* cx_future_wait with the mutex held: sleep, or return the value.
cx_future_wait(w) ==
    /\ wpc[w] \in {"enter", "woken"}
    /\ IF MustSleep(w)
       THEN /\ wpc' = [wpc EXCEPT ![w] = "asleep"]
            /\ UNCHANGED <<got, leaving>>
       ELSE /\ wpc' = [wpc EXCEPT ![w] = "done"]
            /\ got' = [got EXCEPT ![w] = out_value]
            /\ leaving' = leaving \cup {w}
    /\ UNCHANGED <<out_value, rvalue, rv, freed>>

\* pthread_cond_wait may return without a broadcast.
spurious_wakeup(w) ==
    /\ wpc[w] = "asleep"
    /\ wpc' = [wpc EXCEPT ![w] = "woken"]
    /\ UNCHANGED <<out_value, rvalue, rv, got, leaving, freed>>

\* Mutant: the old value is not looked at.
AlreadyResolved_ignored == FALSE

\* The early return of cx_future_resolve.
AlreadyResolved == out_value # NULL

\* Mutant: only one sleeper is woken.
Broadcast_signals_one ==
    IF \E w \in Waiters : wpc[w] = "asleep"
    THEN \E w \in Waiters : wpc[w] = "asleep" /\ wpc' = [wpc EXCEPT ![w] = "woken"]
    ELSE UNCHANGED wpc

\* pthread_cond_broadcast: every sleeper competes for the mutex again.
Broadcast == wpc' = [w \in Waiters |-> IF wpc[w] = "asleep" THEN "woken" ELSE wpc[w]]

\* cx_future_resolve(future, v).
cx_future_resolve(r, v) ==
    /\ rv[r] = "none"
    /\ rvalue' = [rvalue EXCEPT ![r] = v]
    /\ IF AlreadyResolved
       THEN /\ rv' = [rv EXCEPT ![r] = "-1"]
            /\ UNCHANGED <<out_value, wpc>>
       ELSE /\ rv' = [rv EXCEPT ![r] = "0"]
            /\ out_value' = v
            /\ Broadcast
    /\ leaving' = leaving \cup {r}
    /\ UNCHANGED <<got, freed>>

\* The pthread_mutex_unlock of cx_future_wait and cx_future_resolve returns.
unlock(t) ==
    /\ t \in leaving
    /\ leaving' = leaving \ {t}
    /\ UNCHANGED <<out_value, rvalue, rv, wpc, got, freed>>

\* cx_future_destroy frees the future; it does not look at it.
cx_future_destroy ==
    /\ freed' = TRUE
    /\ UNCHANGED <<out_value, rvalue, rv, wpc, got, leaving>>

\* No thread is inside a call.
Unused == leaving = {} /\ \A w \in Waiters : wpc[w] \in {"idle", "done"}

\* The caller's part of the contract: no function is called on a destroyed
\* future, and only a future that nobody uses is destroyed.
Next ==
    \/ \E w \in Waiters :
          \/ ~freed /\ wait_enter(w)
          \/ cx_future_wait(w)
          \/ spurious_wakeup(w)
    \/ \E r \in Resolvers, v \in Values : ~freed /\ cx_future_resolve(r, v)
    \/ \E t \in Resolvers \cup Waiters : unlock(t)
    \/ ~freed /\ Unused /\ cx_future_destroy

Spec == Init /\ [][Next]_vars

-----------------------------------------------------------------------------
\* Every thread gets the value of the resolve call that won: the one that
\* returned 0 with a value other than NULL, of which there is at most one,
\* however many resolvers race.
Agreement ==
    /\ \A w \in Waiters : wpc[w] = "done" =>
          \E r \in Resolvers : rv[r] = "0" /\ rvalue[r] = got[w] /\ got[w] # NULL
    /\ \A r, s \in Resolvers :
          /\ rv[r] = "0" /\ rvalue[r] # NULL
          /\ rv[s] = "0" /\ rvalue[s] # NULL
          => r = s
=============================================================================
