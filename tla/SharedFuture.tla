---------------------------- MODULE SharedFuture ----------------------------
(***************************************************************************)
(* A future that is shared by counting references (Rc): the way a caller   *)
(* can know that nobody uses a future any more, which cx_future_destroy    *)
(* needs and does not check.  The creator of the future and every thread   *)
(* that gets it hold one reference.  A thread gives its reference up when  *)
(* it is not inside a call, and the one whose cx_rc_release returns TRUE   *)
(* calls cx_future_destroy.                                                *)
(*                                                                         *)
(* The steps of Future are used here without the conditions that its Next  *)
(* puts on the callers; that they hold all the same is what is checked.    *)
(***************************************************************************)
EXTENDS Future, Rc

ASSUME SharedAssumption == Holders = Resolvers \cup Waiters \cup {Creator}

sharedVars == <<vars, rcVars>>

SharedInit == Init /\ RcInit

\* The thread is not inside a call.
Outside(h) == h \notin leaving /\ (h \in Waiters => wpc[h] \in {"idle", "done"})

\* A thread hands the future to another one.
Share(h, g) == Outside(h) /\ cx_rc_retain(h, g) /\ UNCHANGED vars

\* A thread calls cx_future_wait or cx_future_resolve.
Wait(w) == ref[w] = "held" /\ wait_enter(w) /\ UNCHANGED rcVars
Proceed(w) == cx_future_wait(w) /\ UNCHANGED rcVars
Wake(w) == spurious_wakeup(w) /\ UNCHANGED rcVars
Unlock(t) == unlock(t) /\ UNCHANGED rcVars
Resolve(r, v) == ref[r] = "held" /\ cx_future_resolve(r, v) /\ UNCHANGED rcVars

\* A thread gives up its reference.
Release(h) == Outside(h) /\ cx_rc_release(h) /\ UNCHANGED vars

Destroy(h) == Free(h) /\ cx_future_destroy

\* All references are given up.
Finished == (\A h \in Holders : ref[h] \notin {"held", "last"}) /\ UNCHANGED sharedVars

SharedNext ==
    \/ \E h \in Holders :
          \/ \E g \in Holders : Share(h, g)
          \/ Release(h)
          \/ Unlock(h)
          \/ Destroy(h)
    \/ \E w \in Waiters : Wait(w) \/ Proceed(w) \/ Wake(w)
    \/ \E r \in Resolvers, v \in Values : Resolve(r, v)
    \/ Finished

SharedSpec == SharedInit /\ [][SharedNext]_sharedVars

\* Threads run: one inside cx_future_wait that can get the mutex gets it, and
\* the program's threads give up their reference some time.
FairSharedSpec ==
    /\ SharedSpec
    /\ \A w \in Waiters : WF_sharedVars(Proceed(w))
    /\ \A h \in Holders :
          WF_sharedVars(Unlock(h)) /\ WF_sharedVars(Release(h)) /\ WF_sharedVars(Destroy(h))

-----------------------------------------------------------------------------
\* The callers of the functions of Future keep to its conditions: nobody calls
\* a function of a destroyed future or is inside one when it is destroyed.
ImplementsFuture == Spec

\* Once the future is resolved every waiting thread returns, also those that
\* arrive later, and gives up its reference: the future is destroyed.
FreedInTheEnd == out_value # NULL ~> freed
=============================================================================
