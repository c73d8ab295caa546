----------------------------- MODULE SyncProofs ------------------------------
(***************************************************************************)
(* Proofs about what the threads of a program share: Future, for any       *)
(* threads and values; Rc and SharedFuture, for any finite set of holders, *)
(* where the count is the number of references, so only the last release   *)
(* is told TRUE, and a future destroyed by that holder is used by nobody;  *)
(* and Semaphore, for any finite set of threads and every size_t.          *)
(***************************************************************************)
EXTENDS SharedFuture, Semaphore, FiniteSetTheorems, TLAPS

\* The resolve call that won is the one whose value is in out_value, and the
\* threads that are done got that value.
Winner ==
    /\ out_value # NULL => \E r \in Resolvers : rv[r] = "0" /\ rvalue[r] = out_value
    /\ \A r \in Resolvers : rv[r] = "0" /\ rvalue[r] # NULL => rvalue[r] = out_value
    /\ \A r, s \in Resolvers :
          /\ rv[r] = "0" /\ rvalue[r] # NULL
          /\ rv[s] = "0" /\ rvalue[s] # NULL
          => r = s
    /\ \A w \in Waiters : wpc[w] = "done" => got[w] = out_value /\ out_value # NULL

FutureInv == TypeOK /\ Winner

\* Nobody has called anything yet.
LEMMA FutureInit == Init => FutureInv
  BY DEF Init, FutureInv, TypeOK, Winner

\* A broadcast moves threads only from "asleep" to "woken".
LEMMA BroadcastMoves ==
    ASSUME TypeOK, Broadcast
    PROVE  /\ wpc' \in [Waiters -> {"idle", "enter", "woken", "asleep", "done"}]
           /\ \A w \in Waiters : wpc'[w] = "done" => wpc[w] = "done"
  BY DEF TypeOK, Broadcast

\* Every step keeps the winner and the types.
LEMMA FutureNext == FutureInv /\ [Next]_vars => FutureInv'
<1> SUFFICES ASSUME FutureInv, [Next]_vars PROVE FutureInv'
  OBVIOUS
<1>1. ASSUME NEW w \in Waiters, wait_enter(w) PROVE FutureInv'
  BY <1>1 DEF wait_enter, FutureInv, TypeOK, Winner
<1>2. ASSUME NEW w \in Waiters, cx_future_wait(w) PROVE FutureInv'
  <2>1. CASE MustSleep(w)
    BY <1>2, <2>1 DEF cx_future_wait, FutureInv, TypeOK, Winner
  <2>2. CASE ~MustSleep(w)
    BY <1>2, <2>2 DEF cx_future_wait, MustSleep, FutureInv, TypeOK, Winner
  <2> QED BY <2>1, <2>2
<1>3. ASSUME NEW w \in Waiters, spurious_wakeup(w) PROVE FutureInv'
  BY <1>3 DEF spurious_wakeup, FutureInv, TypeOK, Winner
<1>4. ASSUME NEW r \in Resolvers, NEW v \in Values, cx_future_resolve(r, v) PROVE FutureInv'
  <2> USE <1>4 DEF cx_future_resolve
  <2>1. CASE AlreadyResolved
    BY <2>1 DEF AlreadyResolved, FutureInv, TypeOK, Winner
  <2>2. CASE ~AlreadyResolved
    <3>1. out_value = NULL /\ out_value' = v /\ UNCHANGED got
      BY <2>2 DEF AlreadyResolved
    <3>2. \A w \in Waiters : wpc[w] # "done"
      BY <3>1 DEF FutureInv, Winner
    <3>3. /\ wpc' \in [Waiters -> {"idle", "enter", "woken", "asleep", "done"}]
          /\ \A w \in Waiters : wpc'[w] # "done"
      BY <2>2, <3>2, BroadcastMoves DEF FutureInv
    <3>4. TypeOK'
      BY <2>2, <3>1, <3>3 DEF FutureInv, TypeOK
    <3>5. \A s \in Resolvers : rv[s] = "0" => rvalue[s] = NULL
      BY <3>1 DEF FutureInv, Winner
    <3>6. Winner'
      BY <2>2, <3>1, <3>3, <3>5 DEF FutureInv, TypeOK, Winner
    <3> QED BY <3>4, <3>6 DEF FutureInv
  <2> QED BY <2>1, <2>2
<1>5. CASE cx_future_destroy
  BY <1>5 DEF cx_future_destroy, FutureInv, TypeOK, Winner
<1>6. ASSUME NEW t \in Resolvers \cup Waiters, unlock(t) PROVE FutureInv'
  BY <1>6 DEF unlock, FutureInv, TypeOK, Winner
<1>7. CASE UNCHANGED vars
  BY <1>7 DEF vars, FutureInv, TypeOK, Winner
<1> QED BY <1>1, <1>2, <1>3, <1>4, <1>5, <1>6, <1>7 DEF Next

\* The invariant holds in every behaviour of the future.
LEMMA FutureInvariant == Spec => []FutureInv
  BY FutureInit, FutureNext, PTL DEF Spec

\* Type correctness of the future: in particular no thread returns NULL from
\* cx_future_wait.
THEOREM TypeCorrect == Spec => []TypeOK
<1>1. FutureInv => TypeOK
  BY DEF FutureInv
<1> QED BY <1>1, FutureInvariant, PTL

\* All threads get the value of one successful cx_future_resolve, for any
\* number of racing resolvers and waiters.
THEOREM AgreementHolds == Spec => []Agreement
<1>1. FutureInv => Agreement
  BY DEF FutureInv, Winner, Agreement
<1> QED BY <1>1, FutureInvariant, PTL

-----------------------------------------------------------------------------
\* The holders of a reference.
Held == {h \in Holders : ref[h] = "held"}

\* The count is the number of references.
RcInv ==
    /\ RcTypeOK
    /\ rc_count = Cardinality(Held)
    /\ FreedByOne

\* The references can be counted in an unsigned int.
LEMMA HeldFinite == IsFiniteSet(Held) /\ Cardinality(Held) \in 0 .. UINT_MAX
<1>1. IsFiniteSet(Held) /\ Cardinality(Held) <= Cardinality(Holders)
  BY FS_Subset, RcAssumption DEF Held
<1> QED BY <1>1, FS_CardinalityType, RcAssumption

\* The creator has the only reference.
LEMMA RcInitInv == RcInit => RcInv
<1> SUFFICES ASSUME RcInit PROVE RcInv
  OBVIOUS
<1>1. Held = {Creator}
  BY RcAssumption DEF RcInit, Held
<1>2. Cardinality(Held) = 1
  BY <1>1, FS_Singleton
<1>3. RcTypeOK
  BY <1>2, HeldFinite, RcAssumption DEF RcInit, RcTypeOK
<1>4. FreedByOne
  BY <1>1 DEF RcInit, FreedByOne, Held
<1> QED BY <1>2, <1>3, <1>4 DEF RcInv, RcInit

\* cx_rc_retain by a holder adds a reference.
LEMMA RetainInv ==
    ASSUME RcInv, NEW h \in Holders, NEW g \in Holders, cx_rc_retain(h, g)
    PROVE  RcInv'
<1> USE DEF RcInv, RcTypeOK
<1>1. g \notin Held /\ Held' = Held \cup {g} /\ h \in Held
  BY DEF cx_rc_retain, Held
<1>2. IsFiniteSet(Held') /\ Cardinality(Held') \in 0 .. UINT_MAX
  <2>1. Held' \subseteq Holders
    BY <1>1 DEF Held
  <2>2. IsFiniteSet(Held') /\ Cardinality(Held') <= Cardinality(Holders)
    BY <2>1, FS_Subset, RcAssumption
  <2> QED BY <2>2, FS_CardinalityType, RcAssumption
<1>3. Cardinality(Held') = rc_count + 1
  BY <1>1, HeldFinite, FS_AddElement
<1>4. rc_count' = Cardinality(Held')
  BY <1>2, <1>3, RcAssumption DEF cx_rc_retain
<1>5. RcTypeOK'
  BY <1>2, <1>4 DEF cx_rc_retain
<1>6. FreedByOne'
  BY <1>1 DEF cx_rc_retain, FreedByOne, Held
<1> QED BY <1>4, <1>5, <1>6

\* cx_rc_release takes a reference away, and tells the last one.
LEMMA ReleaseInv ==
    ASSUME RcInv, NEW h \in Holders, cx_rc_release(h)
    PROVE  RcInv'
<1> USE DEF RcInv, RcTypeOK
<1>1. h \in Held /\ Held' = Held \ {h}
  BY DEF cx_rc_release, Held, WasLast
<1>2. IsFiniteSet(Held') /\ Cardinality(Held') = rc_count - 1
  BY <1>1, HeldFinite, FS_RemoveElement
<1>3. Cardinality(Held') \in Nat /\ (Cardinality(Held') = 0 <=> Held' = {})
  BY <1>2, FS_CardinalityType, FS_EmptySet
<1>4. rc_count' = Cardinality(Held')
  BY <1>2, <1>3, RcAssumption DEF cx_rc_release
<1>5. RcTypeOK'
  <2>1. rc_count' \in 0 .. UINT_MAX
    BY <1>2, <1>3, <1>4, RcAssumption
  <2>2. ref' \in [Holders -> {"none", "held", "released", "last", "freed"}]
    BY DEF cx_rc_release
  <2> QED BY <2>1, <2>2
<1>6. WasLast(rc_count) <=> Held' = {}
  BY <1>2, <1>3, RcAssumption DEF WasLast
<1>7. \A g \in Holders : ref[g] \notin {"last", "freed"}
  BY <1>1 DEF FreedByOne, Held
<1>8. FreedByOne'
  <2>1. CASE WasLast(rc_count)
    <3>1. \A g \in Holders : ref'[g] \in {"last", "freed"} <=> g = h
      BY <1>7, <2>1 DEF cx_rc_release
    <3> QED BY <3>1, <1>6, <2>1 DEF FreedByOne, Held
  <2>2. CASE ~WasLast(rc_count)
    <3>1. \A g \in Holders : ref'[g] \notin {"last", "freed"}
      BY <1>7, <2>2 DEF cx_rc_release
    <3> QED BY <3>1, <1>6, <2>2 DEF FreedByOne, Held
  <2> QED BY <2>1, <2>2
<1> QED BY <1>4, <1>5, <1>8

\* The holder that was told frees the object.
LEMMA FreeInv ==
    ASSUME RcInv, NEW h \in Holders, Free(h)
    PROVE  RcInv'
<1> USE DEF RcInv, RcTypeOK
<1>1. Held' = Held
  BY DEF Free, Held
<1>2. FreedByOne'
  BY <1>1 DEF Free, FreedByOne, Held
<1> QED BY <1>1, <1>2 DEF Free

\* Steps of others.
LEMMA RcStutter == RcInv /\ UNCHANGED rcVars => RcInv'
  BY DEF rcVars, RcInv, RcTypeOK, FreedByOne, Held

\* Every step of the holders keeps the count.
LEMMA RcNextInv == RcInv /\ [RcNext]_rcVars => RcInv'
  BY RetainInv, ReleaseInv, FreeInv, RcStutter DEF RcNext

\* Of any number of holders that copy and release their references in any
\* order exactly one is told to free the object, and only when no reference
\* is left: the count does not wrap.
THEOREM RcFreesOnce == RcSpec => []FreedByOne
<1>1. RcInv => FreedByOne
  BY DEF RcInv
<1> QED BY <1>1, RcInitInv, RcNextInv, PTL DEF RcSpec

-----------------------------------------------------------------------------
\* A thread inside a call holds a reference, and only the holder that was told
\* to destroys the future.
Guarded ==
    /\ \A w \in Waiters : wpc[w] \in {"enter", "woken", "asleep"} => ref[w] = "held"
    /\ \A t \in leaving : ref[t] = "held"
    /\ freed => \E h \in Holders : ref[h] = "freed"

SharedInv == TypeOK /\ RcInv /\ Guarded

\* Nobody has called anything yet.
LEMMA SharedInitInv == SharedInit => SharedInv
  BY RcInitInv DEF SharedInit, SharedInv, Init, TypeOK, Guarded

\* While a reference is held the future is not destroyed.
LEMMA HeldNotFreed ==
    ASSUME SharedInv, NEW h \in Holders, ref[h] = "held"
    PROVE  ~freed
  BY DEF SharedInv, Guarded, RcInv, FreedByOne

\* Every step keeps the invariant and is one of Future.
LEMMA SharedStep == SharedInv /\ [SharedNext]_sharedVars => SharedInv' /\ [Next]_vars
<1> SUFFICES ASSUME SharedInv, [SharedNext]_sharedVars PROVE SharedInv' /\ [Next]_vars
  OBVIOUS
<1> USE SharedAssumption
<1>1. ASSUME NEW h \in Holders, NEW g \in Holders, Share(h, g)
      PROVE  SharedInv' /\ [Next]_vars
  <2>1. RcInv'
    BY <1>1, RetainInv DEF Share, SharedInv
  <2>2. TypeOK' /\ Guarded'
    BY <1>1 DEF Share, cx_rc_retain, SharedInv, RcInv, RcTypeOK, TypeOK, Guarded, vars
  <2> QED BY <1>1, <2>1, <2>2 DEF Share, SharedInv
<1>2. ASSUME NEW h \in Holders, Release(h) PROVE SharedInv' /\ [Next]_vars
  <2>1. RcInv'
    BY <1>2, ReleaseInv DEF Release, SharedInv
  <2>2. ~freed
    BY <1>2, HeldNotFreed DEF Release, cx_rc_release
  <2>3. TypeOK' /\ Guarded'
    BY <1>2, <2>2 DEF Release, Outside, cx_rc_release, SharedInv, RcInv, RcTypeOK, TypeOK,
                      Guarded, vars
  <2> QED BY <1>2, <2>1, <2>3 DEF Release, SharedInv
<1>3. ASSUME NEW h \in Holders, Unlock(h) PROVE SharedInv' /\ [Next]_vars
  <2>1. h \in Resolvers \cup Waiters
    BY <1>3 DEF Unlock, unlock, SharedInv, TypeOK
  <2>2. SharedInv'
    BY <1>3, RcStutter DEF Unlock, unlock, SharedInv, TypeOK, Guarded, rcVars
  <2> QED BY <1>3, <2>1, <2>2 DEF Unlock, Next
<1>4. ASSUME NEW h \in Holders, Destroy(h) PROVE SharedInv' /\ [Next]_vars
  <2>1. RcInv'
    BY <1>4, FreeInv DEF Destroy, SharedInv
  <2>2. ref[h] = "last" /\ \A g \in Holders : ref[g] \notin {"held", "freed"}
    BY <1>4 DEF Destroy, Free, SharedInv, RcInv, FreedByOne
  <2>3. ~freed
    BY <2>2 DEF SharedInv, Guarded
  <2>4. Unused
    BY <2>2 DEF SharedInv, Guarded, TypeOK, Unused
  <2>5. TypeOK' /\ Guarded'
    BY <1>4, <2>2 DEF Destroy, Free, cx_future_destroy, SharedInv, RcInv, RcTypeOK, TypeOK, Guarded
  <2> QED BY <1>4, <2>1, <2>3, <2>4, <2>5 DEF Destroy, SharedInv, Next
<1>5. ASSUME NEW w \in Waiters, Wait(w) PROVE SharedInv' /\ [Next]_vars
  <2>1. ~freed
    BY <1>5, HeldNotFreed DEF Wait
  <2>2. TypeOK' /\ Guarded'
    BY <1>5 DEF Wait, wait_enter, SharedInv, TypeOK, Guarded, rcVars
  <2> QED BY <1>5, <2>1, <2>2, RcStutter DEF Wait, SharedInv, Next
<1>6. ASSUME NEW w \in Waiters, Proceed(w) PROVE SharedInv' /\ [Next]_vars
  <2>1. TypeOK' /\ Guarded'
    BY <1>6 DEF Proceed, cx_future_wait, MustSleep, SharedInv, TypeOK, Guarded, rcVars
  <2> QED BY <1>6, <2>1, RcStutter DEF Proceed, SharedInv, Next
<1>7. ASSUME NEW w \in Waiters, Wake(w) PROVE SharedInv' /\ [Next]_vars
  <2>1. TypeOK' /\ Guarded'
    BY <1>7 DEF Wake, spurious_wakeup, SharedInv, TypeOK, Guarded, rcVars
  <2> QED BY <1>7, <2>1, RcStutter DEF Wake, SharedInv, Next
<1>8. ASSUME NEW r \in Resolvers, NEW v \in Values, Resolve(r, v)
      PROVE  SharedInv' /\ [Next]_vars
  <2>1. ~freed
    BY <1>8, HeldNotFreed DEF Resolve
  <2>2. TypeOK' /\ Guarded'
    BY <1>8 DEF Resolve, cx_future_resolve, Broadcast, SharedInv, TypeOK, Guarded, rcVars
  <2> QED BY <1>8, <2>1, <2>2, RcStutter DEF Resolve, SharedInv, Next
<1>9. CASE Finished \/ UNCHANGED sharedVars
  <2>1. UNCHANGED vars /\ UNCHANGED rcVars
    BY <1>9 DEF Finished, sharedVars
  <2>2. TypeOK' /\ Guarded'
    BY <2>1 DEF vars, rcVars, SharedInv, TypeOK, Guarded
  <2> QED BY <2>1, <2>2, RcStutter DEF SharedInv
<1> QED BY <1>1, <1>2, <1>3, <1>4, <1>5, <1>6, <1>7, <1>8, <1>9 DEF SharedNext

\* Counting references makes a caller keep the contract of the future: no
\* function is called on a destroyed future, and nobody is inside a call, not
\* even in its last unlock, when it is destroyed.
THEOREM SharedIsFuture == SharedSpec => ImplementsFuture
<1>1. SharedInit => Init
  BY DEF SharedInit
<1> QED BY <1>1, SharedInitInv, SharedStep, PTL DEF SharedSpec, ImplementsFuture, Spec

\* In the shared future, too, one holder is told to destroy it.
THEOREM SharedFreesOnce == SharedSpec => []FreedByOne
<1>1. SharedInv => FreedByOne
  BY DEF SharedInv, RcInv
<1> QED BY <1>1, SharedInitInv, SharedStep, PTL DEF SharedSpec

\* All threads of the shared future get the value of one successful
\* cx_future_resolve: the shared future is one, until it is destroyed.
THEOREM SharedAgreement == SharedSpec => []Agreement
  BY SharedIsFuture, AgreementHolds, PTL DEF ImplementsFuture

-----------------------------------------------------------------------------
\* The semaphore.

\* The numbers among the constants.
LEMMA Numbers == SIZE_MAX \in Nat /\ InitialCount \in 0 .. SIZE_MAX /\ IsFiniteSet(Threads)
BY SemaphoreAssumption DEF SemaphoreAssumption

\* Types and the count of the units are inductive together.
SafeInv == SemTypeOK /\ UnitsTakenOnce

\* There is one remainder.
LEMMA Remainder ==
    ASSUME NEW m \in Nat, m > 0, NEW k \in Nat, NEW q \in Nat, NEW r \in 0 .. m - 1, k = m * q + r
    PROVE  k % m = r
  OBVIOUS

\* One unit more or less, as a size_t.
LEMMA Wraps ==
    ASSUME NEW m \in Nat, m > 0, NEW a \in Nat
    PROVE  /\ a % m \in 0 .. m - 1
           /\ (a + 1) % m = IF a % m = m - 1 THEN 0 ELSE (a % m) + 1
           /\ a % m # 0 => a > 0 /\ (a - 1) % m = (a % m) - 1
<1>1. PICK q \in Nat, r \in 0 .. m - 1 : a = m * q + r /\ a % m = r
  OBVIOUS
<1>2. CASE r = m - 1
  <2>1. PICK n \in Nat : n = m * q
    OBVIOUS
  <2>2. m * (q + 1) = n + m
    BY <2>1
  <2>3. PICK p \in Nat : p = q + 1 /\ m * p = n + m
    BY <2>2
  <2>4. a + 1 = m * p + 0 /\ a + 1 \in Nat /\ 0 \in 0 .. m - 1
    BY ONLY m \in Nat, m > 0, a \in Nat, n \in Nat, <1>1, <1>2, <2>1, <2>3
  <2>5. (a + 1) % m = 0
    BY ONLY m \in Nat, m > 0, p \in Nat, <2>4, Remainder
  <2> QED BY <1>1, <1>2, <2>5
<1>3. CASE r # m - 1
  <2>1. r + 1 \in 0 .. m - 1 /\ a + 1 = m * q + (r + 1) /\ a + 1 \in Nat
    <3>1. PICK n \in Nat : n = m * q
      OBVIOUS
    <3> QED BY <1>1, <1>3, <3>1
  <2>2. (a + 1) % m = r + 1
    BY ONLY m \in Nat, m > 0, q \in Nat, <2>1, Remainder
  <2> QED BY <1>1, <1>3, <2>2
<1>4. ASSUME r # 0
      PROVE  a > 0 /\ (a - 1) % m = r - 1
  <2>1. m * q \in Nat
    OBVIOUS
  <2>2. a - 1 \in Nat /\ r - 1 \in 0 .. m - 1 /\ a - 1 = m * q + (r - 1)
    BY <1>1, <1>4, <2>1
  <2>3. (a - 1) % m = r - 1
    BY <2>2, Remainder
  <2> QED BY <2>2, <2>3
<1>5. a % m # 0 => a > 0 /\ (a - 1) % m = (a % m) - 1
  BY <1>1, <1>4
<1>6. (a + 1) % m = IF a % m = m - 1 THEN 0 ELSE (a % m) + 1
  BY <1>1, <1>2, <1>3
<1> QED BY <1>1, <1>5, <1>6

\* A post: what is free grows by one, and so does the count, up to the wrap.
LEMMA IncrementCounts ==
    ASSUME SafeInv, Increment, posts' = posts + 1, takes' = takes
    PROVE  count' \in 0 .. SIZE_MAX /\ UnitsTakenOnce'
<1> USE Numbers DEF SafeInv, SemTypeOK
<1>1. Available \in Nat /\ Available' = Available + 1 /\ count = Available % (SIZE_MAX + 1)
  BY DEF UnitsTakenOnce, Available
<1>2. count' = Available' % (SIZE_MAX + 1)
  BY <1>1, Wraps DEF Increment
<1> QED BY <1>2 DEF Increment, UnitsTakenOnce

\* A thread that found the count above 0 takes a unit that is free.
LEMMA DecrementCounts ==
    ASSUME SafeInv, count # 0, Decrement, posts' = posts, takes' = takes + 1
    PROVE  count' \in 0 .. SIZE_MAX /\ UnitsTakenOnce'
<1> USE Numbers DEF SafeInv, SemTypeOK
<1>1. Available \in Nat /\ Available' = Available - 1 /\ count = Available % (SIZE_MAX + 1)
  BY DEF UnitsTakenOnce, Available
<1>2. Available > 0 /\ (Available - 1) % (SIZE_MAX + 1) = count - 1
  <2>1. SIZE_MAX + 1 \in Nat /\ SIZE_MAX + 1 > 0 /\ Available % (SIZE_MAX + 1) # 0
    BY <1>1
  <2> QED BY ONLY <1>1, <2>1, Wraps
<1>3. takes' <= InitialCount + posts'
  BY <1>2 DEF Available
<1>4. count' = count - 1 /\ count' = Available' % (SIZE_MAX + 1)
  BY <1>1, <1>2 DEF Decrement
<1> QED BY <1>3, <1>4 DEF UnitsTakenOnce

\* Signal moves at most one thread, from asleep to woken.
LEMMA SignalMoves ==
    ASSUME SemTypeOK, Signal
    PROVE  /\ pc' \in [Threads -> {"idle", "enter", "woken", "asleep"}]
           /\ \/ Asleep = {} /\ UNCHANGED pc
              \/ \E s \in Asleep : pc' = [pc EXCEPT ![s] = "woken"]
BY DEF SemTypeOK, Signal, Asleep

\* At first all units are free.
LEMMA SafeInit == SemInit => SafeInv
<1> SUFFICES ASSUME SemInit PROVE SafeInv
  OBVIOUS
<1> USE Numbers DEF SemInit
<1>1. Available = InitialCount /\ InitialCount % (SIZE_MAX + 1) = InitialCount
  BY DEF Available
<1> QED BY <1>1 DEF SafeInv, SemTypeOK, UnitsTakenOnce

\* Every action keeps the types and counts the units.
LEMMA SafeNext == SafeInv /\ [SemNext]_semVars => SafeInv'
<1> SUFFICES ASSUME SafeInv, [SemNext]_semVars PROVE SafeInv'
  OBVIOUS
<1> USE Numbers DEF SafeInv
\* Steps that neither provide nor take a unit.
<1>0. ASSUME UNCHANGED <<count, posts, takes>> PROVE UnitsTakenOnce'
  BY <1>0 DEF UnitsTakenOnce, Available
<1>1. ASSUME NEW t \in Threads, sem_wait_enter(t) PROVE SafeInv'
  BY <1>0, <1>1 DEF sem_wait_enter, SemTypeOK
<1>2. ASSUME NEW t \in Threads, cx_semaphore_wait(t) PROVE SafeInv'
  <2>1. CASE count = 0
    BY <1>0, <1>2, <2>1 DEF cx_semaphore_wait, NoUnit, SemTypeOK
  <2>2. CASE count # 0
    <3>1. /\ Decrement /\ posts' = posts /\ takes' = takes + 1
          /\ pc' = [pc EXCEPT ![t] = "idle"] /\ UNCHANGED <<unsent, alive>>
      BY <1>2, <2>2 DEF cx_semaphore_wait, NoUnit
    <3> QED BY <2>2, <3>1, DecrementCounts DEF SemTypeOK
  <2> QED BY <2>1, <2>2
<1>3. ASSUME NEW t \in Threads, wait_fails(t) PROVE SafeInv'
  BY <1>0, <1>3 DEF wait_fails, SemTypeOK
<1>4. ASSUME NEW t \in Threads, cx_semaphore_post(t) PROVE SafeInv'
  BY <1>4, IncrementCounts, SignalMoves DEF cx_semaphore_post, SemTypeOK
<1>5. ASSUME NEW t \in Threads, post_fails(t) PROVE SafeInv'
  BY <1>5, IncrementCounts DEF post_fails, SemTypeOK
<1>6. ASSUME NEW t \in Threads, sem_spurious_wakeup(t) PROVE SafeInv'
  BY <1>0, <1>6 DEF sem_spurious_wakeup, SemTypeOK
<1>7. ASSUME NEW t \in Threads, cx_semaphore_destroy(t) PROVE SafeInv'
  BY <1>0, <1>7 DEF cx_semaphore_destroy, SemTypeOK
<1>8. CASE UNCHANGED semVars
  BY <1>0, <1>8 DEF semVars, SemTypeOK
<1> QED BY <1>1, <1>2, <1>3, <1>4, <1>5, <1>6, <1>7, <1>8 DEF SemNext, SemFinished

\* The count is a size_t and the threads are where they can be, always.
THEOREM SemTypeCorrect == SemSpec => []SemTypeOK
<1>1. SafeInv => SemTypeOK
  BY DEF SafeInv
<1> QED BY SafeInit, SafeNext, <1>1, PTL DEF SemSpec

\* Nobody is let through by cx_semaphore_wait without a unit of its own, for
\* every number of threads and posts, every size_t, and with any pthread call
\* failing; units are lost only when the size_t wraps around.
THEOREM UnitsTakenOnceHolds == SemSpec => []UnitsTakenOnce
<1>1. SafeInv => UnitsTakenOnce
  BY DEF SafeInv
<1> QED BY SafeInit, SafeNext, <1>1, PTL DEF SemSpec

\* The set of woken threads has a size.
LEMMA WokenFinite == IsFiniteSet(Woken) /\ Cardinality(Woken) \in Nat
<1>1. Woken \subseteq Threads
  BY DEF Woken
<1> QED BY <1>1, Numbers, FS_Subset, FS_CardinalityType

\* A thread that becomes woken, or stops being woken, counts for one.
LEMMA WokenChange ==
    ASSUME SemTypeOK, NEW t \in Threads, NEW x \in {"idle", "asleep", "enter", "woken"},
           pc' = [pc EXCEPT ![t] = x]
    PROVE  /\ x = "woken" /\ pc[t] # "woken" => Cardinality(Woken') = Cardinality(Woken) + 1
           /\ x # "woken" /\ pc[t] = "woken" => Cardinality(Woken') = Cardinality(Woken) - 1
           /\ x # "woken" /\ pc[t] # "woken" => Cardinality(Woken') = Cardinality(Woken)
<1>1. ASSUME x = "woken", pc[t] # "woken"
      PROVE  Cardinality(Woken') = Cardinality(Woken) + 1
  <2>1. Woken' = Woken \cup {t} /\ t \notin Woken
    BY <1>1 DEF Woken, SemTypeOK
  <2> QED BY <2>1, WokenFinite, FS_AddElement
<1>2. ASSUME x # "woken", pc[t] = "woken"
      PROVE  Cardinality(Woken') = Cardinality(Woken) - 1
  <2>1. Woken' = Woken \ {t} /\ t \in Woken
    BY <1>2 DEF Woken, SemTypeOK
  <2> QED BY <2>1, WokenFinite, FS_RemoveElement
<1>3. ASSUME x # "woken", pc[t] # "woken"
      PROVE  Cardinality(Woken') = Cardinality(Woken)
  <2>1. Woken' = Woken
    BY <1>3 DEF Woken, SemTypeOK
  <2> QED BY <2>1
<1> QED BY <1>1, <1>2, <1>3

\* Every action keeps a woken thread for every unit while others sleep.
LEMMA WakeupNext == SemTypeOK /\ NoLostWakeup /\ [SemNext]_semVars => NoLostWakeup'
<1> SUFFICES ASSUME SemTypeOK, NoLostWakeup, [SemNext]_semVars PROVE NoLostWakeup'
  OBVIOUS
<1> USE Numbers, WokenFinite
<1>1. ASSUME NEW t \in Threads, sem_wait_enter(t) PROVE NoLostWakeup'
  <2>1. Cardinality(Woken') = Cardinality(Woken) /\ Asleep' = Asleep
    BY <1>1, WokenChange DEF sem_wait_enter, Asleep, SemTypeOK
  <2> QED BY <1>1, <2>1 DEF sem_wait_enter, NoLostWakeup
<1>2. ASSUME NEW t \in Threads, cx_semaphore_wait(t) PROVE NoLostWakeup'
  <2>1. CASE count = 0
    <3>1. count' = 0 /\ Cardinality(Woken') \in Nat
      <4>1. Woken' \subseteq Threads
        BY DEF Woken
      <4> QED BY <1>2, <2>1, <4>1, FS_Subset, FS_CardinalityType
              DEF cx_semaphore_wait, NoUnit
    <3> QED BY <3>1 DEF NoLostWakeup
  <2>2. CASE count # 0
    <3>1. pc' = [pc EXCEPT ![t] = "idle"] /\ count' = count - 1 /\ unsent' = unsent
      BY <1>2, <2>2 DEF cx_semaphore_wait, NoUnit, Decrement
    <3>2. Asleep' = Asleep /\ pc[t] \in {"enter", "woken"}
      BY <1>2, <3>1 DEF cx_semaphore_wait, Asleep, SemTypeOK
    <3>3. Cardinality(Woken') = Cardinality(Woken) \/ Cardinality(Woken') = Cardinality(Woken) - 1
      BY <3>1, <3>2, WokenChange
    <3> QED BY <3>1, <3>2, <3>3 DEF NoLostWakeup, SemTypeOK
  <2> QED BY <2>1, <2>2
<1>3. ASSUME NEW t \in Threads, wait_fails(t) PROVE NoLostWakeup'
  <2>1. Asleep' = Asleep /\ pc' = [pc EXCEPT ![t] = "idle"] /\ UNCHANGED <<count, unsent>>
    BY <1>3 DEF wait_fails, Asleep, SemTypeOK
  <2>2. CASE pc[t] = "enter"
    <3>1. Cardinality(Woken') = Cardinality(Woken)
      BY <2>1, <2>2, WokenChange
    <3> QED BY <2>1, <3>1 DEF NoLostWakeup
  <2>3. CASE pc[t] = "woken"
    <3>1. count = 0
      BY <1>3, <2>3 DEF wait_fails, NoUnit
    <3>2. t \in Woken
      BY <2>3 DEF Woken
    <3>3. Cardinality(Woken') = Cardinality(Woken) - 1 /\ Cardinality(Woken) # 0
      BY <2>1, <2>3, <3>2, WokenChange, FS_EmptySet
    <3> QED BY <2>1, <3>1, <3>3 DEF NoLostWakeup
  <2> QED BY <1>3, <2>2, <2>3 DEF wait_fails
<1>4. ASSUME NEW t \in Threads, cx_semaphore_post(t) PROVE NoLostWakeup'
  <2>1. unsent' = unsent /\ count' <= count + 1 /\ count' \in Int
    BY <1>4 DEF cx_semaphore_post, Increment, SemTypeOK
  <2>2. CASE Asleep = {} /\ UNCHANGED pc
    BY <2>2 DEF NoLostWakeup, Asleep
  <2>3. CASE \E s \in Asleep : pc' = [pc EXCEPT ![s] = "woken"]
    <3>1. PICK s \in Asleep : pc' = [pc EXCEPT ![s] = "woken"]
      BY <2>3
    <3>2. Cardinality(Woken') = Cardinality(Woken) + 1
      BY <3>1, WokenChange DEF Asleep
    <3>3. Asleep # {}
      BY <3>1
    <3> QED BY <2>1, <3>2, <3>3 DEF NoLostWakeup, SemTypeOK
  <2> QED BY <1>4, <2>2, <2>3, SignalMoves DEF cx_semaphore_post
<1>5. ASSUME NEW t \in Threads, post_fails(t) PROVE NoLostWakeup'
  BY <1>5 DEF post_fails, NoLostWakeup, SemTypeOK
<1>6. ASSUME NEW t \in Threads, sem_spurious_wakeup(t) PROVE NoLostWakeup'
  <2>1. Cardinality(Woken') = Cardinality(Woken) + 1 /\ Asleep # {}
    BY <1>6, WokenChange DEF sem_spurious_wakeup, Asleep
  <2> QED BY <1>6, <2>1 DEF sem_spurious_wakeup, NoLostWakeup, SemTypeOK
<1>7. ASSUME NEW t \in Threads, cx_semaphore_destroy(t) PROVE NoLostWakeup'
  BY <1>7 DEF cx_semaphore_destroy, NoLostWakeup, Asleep, Woken
<1>8. CASE UNCHANGED semVars
  BY <1>8 DEF semVars, NoLostWakeup, Asleep, Woken
<1> QED BY <1>1, <1>2, <1>3, <1>4, <1>5, <1>6, <1>7, <1>8 DEF SemNext, SemFinished

\* Nobody sleeps beside a unit without a thread on its way to it, for every
\* number of threads, late arrivals and spurious wakeups included.
THEOREM NoLostWakeupHolds == SemSpec => []NoLostWakeup
<1>1. SemInit => NoLostWakeup
  BY DEF SemInit, NoLostWakeup, Asleep
<1> QED BY <1>1, WakeupNext, SemTypeCorrect, PTL DEF SemSpec
=============================================================================
