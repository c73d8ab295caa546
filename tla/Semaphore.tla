----------------------------- MODULE Semaphore ------------------------------
(***************************************************************************)
(* The counting semaphore of lib/concurrency/semaphore.c: a count guarded  *)
(* by a mutex, and a condition variable on which cx_semaphore_wait sleeps  *)
(* while the count is 0.  count is only accessed under the mutex, so a     *)
(* critical section is one action; a sleeping thread gives the mutex up    *)
(* and competes for it again after it was woken, so a thread that arrives  *)
(* late may take the unit first.                                           *)
(***************************************************************************)
EXTENDS Integers, FiniteSets

CONSTANTS
    Threads,       \* threads that use the semaphore
    InitialCount,  \* the argument of cx_semaphore_init
    SIZE_MAX,      \* the largest size_t
    MaxPosts,      \* bound on the number of posts
    Faults         \* pthread calls that may fail: "lock", "wait", "signal"

ASSUME SemaphoreAssumption ==
    /\ IsFiniteSet(Threads)
    /\ SIZE_MAX \in Nat
    /\ InitialCount \in 0 .. SIZE_MAX
    /\ MaxPosts \in Nat
    /\ Faults \subseteq {"lock", "wait", "signal"}

VARIABLES
    count,    \* semaphore->count
    pc,       \* "idle", "enter" (in wait, before the lock), "woken" or "asleep"
    posts,    \* number of count++
    takes,    \* number of count--
    unsent,   \* posts whose pthread_cond_signal failed
    alive     \* between cx_semaphore_init and cx_semaphore_destroy

semVars == <<count, pc, posts, takes, unsent, alive>>

\* The count is a size_t; a thread is outside, competing or asleep.
SemTypeOK ==
    /\ count \in 0 .. SIZE_MAX
    /\ pc \in [Threads -> {"idle", "enter", "woken", "asleep"}]
    /\ posts \in Nat
    /\ takes \in Nat
    /\ unsent \in Nat
    /\ alive \in BOOLEAN

\* cx_semaphore_init succeeded.
SemInit ==
    /\ count = InitialCount
    /\ pc = [t \in Threads |-> "idle"]
    /\ posts = 0
    /\ takes = 0
    /\ unsent = 0
    /\ alive = TRUE

Asleep == {t \in Threads : pc[t] = "asleep"}
Woken  == {t \in Threads : pc[t] = "woken"}

\* A thread calls cx_semaphore_wait.
sem_wait_enter(t) ==
    /\ alive
    /\ pc[t] = "idle"
    /\ pc' = [pc EXCEPT ![t] = "enter"]
    /\ UNCHANGED <<count, posts, takes, unsent, alive>>

\* Mutant: the while is an if, a woken thread does not test again.
NoUnit_tested_once(t) == count = 0 /\ pc[t] = "enter"

\* The condition of the while loop of cx_semaphore_wait.
NoUnit(t) == count = 0

\* semaphore->count-- on a size_t.
Decrement == count' = IF count = 0 THEN SIZE_MAX ELSE count - 1

\* cx_semaphore_wait with the mutex held: take a unit or sleep.
cx_semaphore_wait(t) ==
    /\ pc[t] \in {"enter", "woken"}
    /\ IF NoUnit(t)
       THEN /\ pc' = [pc EXCEPT ![t] = "asleep"]
            /\ UNCHANGED <<count, takes>>
       ELSE /\ pc' = [pc EXCEPT ![t] = "idle"]
            /\ Decrement
            /\ takes' = takes + 1
    /\ UNCHANGED <<posts, unsent, alive>>

\* pthread_mutex_lock or pthread_cond_wait fails: the call returns an error.
wait_fails(t) ==
    /\ \/ "lock" \in Faults /\ pc[t] = "enter"
       \/ "wait" \in Faults /\ pc[t] \in {"enter", "woken"} /\ NoUnit(t)
    /\ pc' = [pc EXCEPT ![t] = "idle"]
    /\ UNCHANGED <<count, posts, takes, unsent, alive>>

\* semaphore->count++ on a size_t.
Increment == count' = IF count = SIZE_MAX THEN 0 ELSE count + 1

\* Mutant: a sleeper is signalled only when the count was 0.
Signal_on_zero ==
    IF Asleep = {} \/ count # 0
    THEN UNCHANGED pc
    ELSE \E s \in Asleep : pc' = [pc EXCEPT ![s] = "woken"]

\* pthread_cond_signal: one sleeper, if there is one.
Signal ==
    IF Asleep = {}
    THEN UNCHANGED pc
    ELSE \E s \in Asleep : pc' = [pc EXCEPT ![s] = "woken"]

\* cx_semaphore_post by a thread that is not inside another call.
cx_semaphore_post(t) ==
    /\ alive
    /\ pc[t] = "idle"
    /\ posts < MaxPosts
    /\ posts' = posts + 1
    /\ Increment
    /\ Signal
    /\ UNCHANGED <<takes, unsent, alive>>

\* pthread_cond_signal fails: an error is returned, the unit is there.
post_fails(t) ==
    /\ "signal" \in Faults
    /\ alive
    /\ pc[t] = "idle"
    /\ posts < MaxPosts
    /\ posts' = posts + 1
    /\ unsent' = unsent + 1
    /\ Increment
    /\ UNCHANGED <<pc, takes, alive>>

\* pthread_cond_wait may return without a signal.
sem_spurious_wakeup(t) ==
    /\ pc[t] = "asleep"
    /\ pc' = [pc EXCEPT ![t] = "woken"]
    /\ UNCHANGED <<count, posts, takes, unsent, alive>>

\* cx_semaphore_destroy: the caller makes sure that no thread is inside.
cx_semaphore_destroy(t) ==
    /\ alive
    /\ \A s \in Threads : pc[s] = "idle"
    /\ alive' = FALSE
    /\ UNCHANGED <<count, pc, posts, takes, unsent>>

\* After destroy nothing is left; all threads may also wait for a post that
\* nobody is obliged to make.
SemFinished ==
    /\ ~alive \/ \A t \in Threads : pc[t] = "asleep"
    /\ UNCHANGED semVars

SemNext ==
    \/ \E t \in Threads :
          \/ sem_wait_enter(t)
          \/ cx_semaphore_wait(t)
          \/ wait_fails(t)
          \/ cx_semaphore_post(t)
          \/ post_fails(t)
          \/ sem_spurious_wakeup(t)
          \/ cx_semaphore_destroy(t)
    \/ SemFinished

SemSpec == SemInit /\ [][SemNext]_semVars

\* A thread inside cx_semaphore_wait that can get the mutex gets it.
FairSemSpec == SemSpec /\ \A t \in Threads : WF_semVars(cx_semaphore_wait(t))

-----------------------------------------------------------------------------
\* Units that were provided and not taken.
Available == InitialCount + posts - takes

\* cx_semaphore_wait lets nobody through without a unit of its own: no unit is
\* taken twice, although a late thread may take the one a sleeper was woken
\* for.  No post is forgotten either; only when count++ wraps around are
\* SIZE_MAX + 1 units lost at once.
UnitsTakenOnce == takes <= InitialCount + posts /\ count = Available % (SIZE_MAX + 1)

\* Nobody sleeps beside a free unit: when threads are asleep, every unit that
\* is there has a thread already woken for it, even when late threads and
\* spurious wakeups mix in (except for posts whose signal failed).
NoLostWakeup ==
    unsent = 0 /\ Asleep # {} => count <= Cardinality(Woken)

\* A thread does not sleep on cx_semaphore_wait for ever while units are there,
\* unless the signal of a post failed.
SleeperServed ==
    \A t \in Threads :
        pc[t] = "asleep" /\ count > 0 ~> pc[t] # "asleep" \/ count = 0 \/ unsent > 0
=============================================================================
