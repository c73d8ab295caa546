---------------------------- MODULE PoolFutures -----------------------------
(***************************************************************************)
(* Jobs of the thread pool (Threadpool) that wait for futures: the         *)
(* function of a job calls cx_future_wait for the futures of the jobs in   *)
(* Awaits, and resolves its own future at its end.  A client schedules a   *)
(* job only when the jobs it waits for are scheduled.                      *)
(***************************************************************************)
EXTENDS Threadpool

CONSTANT Awaits  \* per job the jobs whose futures its function waits for

ASSUME AwaitsAssumption == Awaits \in [Jobs -> SUBSET Jobs]

\* The worker is inside cx_future_wait: the future of a job that its job waits
\* for is not resolved.
Blocked(w) ==
    /\ wpc[w] = "run"
    /\ task[wtask[w]] # NULL
    /\ \E j \in Awaits[task[wtask[w]]] : runs[j] = 0

WorkerGoes(w) == ~Blocked(w) /\ WorkerStep(w)

\* What clients may call, in the order of the futures.
CallInOrder(c) == ClientCall(c) /\ \A j \in issued' \ issued : Awaits[j] \subseteq accepted

FuturesNext ==
    \/ \E w \in Workers : WorkerGoes(w) \/ worker_spurious_wakeup(w)
    \/ \E c \in Clients : ClientStep(c) \/ CallInOrder(c)
    \/ Terminated

\* As in Threadpool; a worker inside cx_future_wait cannot run.
FuturesSpec ==
    /\ Init /\ [][FuturesNext]_vars
    /\ \A w \in Workers : WF_vars(WorkerGoes(w))
    /\ \A c \in Clients : WF_vars(ClientStep(c))

-----------------------------------------------------------------------------
\* A worker waits for the future of a job that lies in a queue ...
AwaitsQueued(w, v) ==
    /\ Blocked(w)
    /\ \E i \in DOMAIN queue[v] : task[queue[v][i]] \in Awaits[task[wtask[w]]]

\* ... of a worker that itself waits for a future, and cannot take it.
Overtaken == \E w, v \in Workers : AwaitsQueued(w, v) /\ Blocked(v)

\* Every job that schedule took over is run unless the pool is cleaned up
\* first: no wakeup is lost between a sleeping worker, a stealing worker and
\* a client that chose its queue by a stale length.  The one exception is a
\* job whose queue's worker has overtaken it: it took a job that waits, and
\* the other workers, asleep on their own queues, are not told.
JobsRun ==
    \A j \in Jobs :
        [](j \in accepted \ dropped => <>(runs[j] = 1 \/ ~running \/ []Overtaken))

\* A call of cx_threadpool_wait returns, with the same exception.
WaitsReturn == \A c \in Clients : [](cpc[c] = "wait" => <>(cpc[c] = "idle" \/ []Overtaken))

\* cx_threadpool_cleanup returns: every worker notices that running is false.
\* It hangs only on a worker whose job waits for one that cleanup has left in
\* a queue, and that nobody will run.
CleanupReturns ==
    [](cpc[Owner] = "stop" =>
          <>(\/ cpc[Owner] = "done"
             \/ crashed
             \/ [](\E w, v \in Workers : AwaitsQueued(w, v))))
=============================================================================
