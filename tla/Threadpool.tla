----------------------------- MODULE Threadpool -----------------------------
(***************************************************************************)
(* The thread pool of lib/concurrency/threadpool.c.                        *)
(*                                                                         *)
(* Every worker thread owns a FIFO queue guarded by its queue_mutex; it    *)
(* takes work from its own queue first, then from the others, and sleeps   *)
(* on its own queue_cond when it finds none.  cx_threadpool_schedule picks *)
(* the queue with the smallest queue_length, read without the lock, and    *)
(* cx_threadpool_wait sleeps on wait_cond until active_tasks is 0.         *)
(*                                                                         *)
(* An action is a piece of code with one access that other threads can     *)
(* see: a critical section without an atomic access that is read outside   *)
(* of it is one action.  queue_mutex is a variable because schedule        *)
(* publishes active_tasks and queue_length one after the other while it    *)
(* holds the mutex; wait_mutex and task_pool_mutex only guard single       *)
(* actions and need no variable.                                           *)
(***************************************************************************)
EXTENDS Integers, Sequences, FiniteSets

CONSTANTS
    WorkerCount,  \* threadpool->worker_count
    Clients,      \* threads that call the pool's API
    Owner,        \* the client that initialises and cleans up the pool
    Waiters,      \* the clients that call cx_threadpool_wait
    Jobs,         \* calls of cx_threadpool_schedule, each made at most once
    Tasks,        \* the CxTask cells the task pool can hand out
    SIZE_MAX,     \* the largest size_t
    Faults,       \* system calls that may fail: "alloc", "lock", "init", "create"
    NULL

ASSUME ThreadpoolAssumption ==
    /\ WorkerCount \in Nat \ {0}
    /\ Owner \in Clients
    /\ Waiters \subseteq Clients
    /\ IsFiniteSet(Tasks)
    /\ SIZE_MAX \in Nat /\ Cardinality(Tasks) < SIZE_MAX
    /\ NULL \notin Jobs /\ NULL \notin Tasks /\ NULL \notin Clients
    /\ Faults \subseteq {"alloc", "lock", "init", "create"}

Workers == 0 .. WorkerCount - 1

VARIABLES
    running,       \* threadpool->running
    active_tasks,  \* threadpool->active_tasks
    queue,         \* the list from worker->head to worker->tail
    queue_length,  \* worker->queue_length
    queue_mutex,   \* the client inside a critical section of worker->queue_mutex
    destroyed,     \* workers whose queue_mutex and queue_cond are destroyed
    task,          \* the job a CxTask cell holds, NULL for a cell in the pool
    wpc,           \* where worker_run is
    windex,        \* i of worker_find_task
    wtask,         \* the task a worker has taken
    wrest,         \* task->next as read by an unlocked worker_get_task
    cpc,           \* where a client is
    cindex,        \* i of the loops of init, schedule and cleanup
    cjob,          \* the job a client is scheduling
    ctask,         \* new_task
    cworker,       \* the worker schedule has chosen so far
    cmin,          \* min_queue_length
    crashed,       \* the process died on an invalid pointer
    issued,        \* jobs whose schedule call was made
    accepted,      \* jobs whose schedule call returned (always 0)
    dropped,       \* jobs whose schedule call failed inside and returned 0
    runs           \* how often the function of a job was called

poolVars   == <<running, active_tasks>>
queueVars  == <<queue, queue_length, queue_mutex, destroyed>>
workerVars == <<wpc, windex, wtask, wrest>>
clientVars == <<cpc, cindex, cjob, ctask, cworker, cmin>>
jobVars    == <<issued, accepted, dropped, runs>>
vars == <<poolVars, queueVars, task, workerVars, clientVars, crashed, jobVars>>

WorkerPC == {"none", "loop", "find", "unlocked", "wait", "asleep",
             "run", "free", "dec", "exited"}
ClientPC == {"init", "idle", "scan", "lock", "publish", "wait", "asleep",
             "quit", "stop", "join", "done"}

\* The pool's data in its types: queues hold cells, cells hold jobs.
TypeOK ==
    /\ running \in BOOLEAN
    /\ active_tasks \in Int
    /\ queue \in [Workers -> Seq(Tasks)]
    /\ queue_length \in [Workers -> Int]
    /\ queue_mutex \in [Workers -> Clients \cup {NULL}]
    /\ destroyed \in SUBSET Workers
    /\ task \in [Tasks -> Jobs \cup {NULL}]
    /\ wpc \in [Workers -> WorkerPC]
    /\ windex \in [Workers -> Workers]
    /\ wtask \in [Workers -> Tasks \cup {NULL}]
    /\ wrest \in [Workers -> Seq(Tasks)]
    /\ cpc \in [Clients -> ClientPC]
    /\ cindex \in [Clients -> Workers]
    /\ cjob \in [Clients -> Jobs \cup {NULL}]
    /\ ctask \in [Clients -> Tasks \cup {NULL}]
    /\ cworker \in [Clients -> Workers \cup {NULL}]
    /\ cmin \in [Clients -> Int]
    /\ crashed \in BOOLEAN
    /\ issued \in SUBSET Jobs
    /\ accepted \in SUBSET Jobs
    /\ dropped \in SUBSET Jobs
    /\ runs \in [Jobs -> Nat]

\* cx_threadpool_init up to the loop that starts the workers: the pool is
\* set up, no worker thread exists yet.  init calls no pthread_mutex_init or
\* pthread_cond_init for wait_mutex, wait_cond and task_pool_mutex; all-zero
\* memory is a working mutex and condition on Linux, and is one here.
Init ==
    /\ running = TRUE
    /\ active_tasks = 0
    /\ queue = [w \in Workers |-> <<>>]
    /\ queue_length = [w \in Workers |-> 0]
    /\ queue_mutex = [w \in Workers |-> NULL]
    /\ destroyed = {}
    /\ task = [t \in Tasks |-> NULL]
    /\ wpc = [w \in Workers |-> "none"]
    /\ windex = [w \in Workers |-> 0]
    /\ wtask = [w \in Workers |-> NULL]
    /\ wrest = [w \in Workers |-> <<>>]
    /\ cpc = [c \in Clients |-> IF c = Owner THEN "init" ELSE "idle"]
    /\ cindex = [c \in Clients |-> 0]
    /\ cjob = [c \in Clients |-> NULL]
    /\ ctask = [c \in Clients |-> NULL]
    /\ cworker = [c \in Clients |-> NULL]
    /\ cmin = [c \in Clients |-> SIZE_MAX]
    /\ crashed = FALSE
    /\ issued = {}
    /\ accepted = {}
    /\ dropped = {}
    /\ runs = [j \in Jobs |-> 0]

(***************************************************************************)
(* The worker thread                                                       *)
(***************************************************************************)

\* Mutant: the queue is used without taking its mutex.
Unlocked_ignored(v) == TRUE

\* Worker w is at a point of worker_run, and the process is alive.
WorkerAt(w, pc) == ~crashed /\ wpc[w] = pc

\* A worker may take the mutex of v: nobody is inside a critical section.
Unlocked(v) == queue_mutex[v] = NULL

\* Mutant: the head of the list is not advanced.
worker_get_task_keeps_head(w, v) ==
    /\ queue' = queue
    /\ queue_length' = [queue_length EXCEPT ![v] = @ - 1]
    /\ wtask' = [wtask EXCEPT ![w] = Head(queue[v])]
    /\ wpc' = [wpc EXCEPT ![w] = "run"]

\* worker_get_task on a queue that has a task: w takes the first one.
worker_get_task(w, v) ==
    /\ queue' = [queue EXCEPT ![v] = Tail(@)]
    /\ queue_length' = [queue_length EXCEPT ![v] = @ - 1]
    /\ wtask' = [wtask EXCEPT ![w] = Head(queue[v])]
    /\ wpc' = [wpc EXCEPT ![w] = "run"]

\* The queue that worker w looks at in round windex[w]; its own comes first.
candidate(w) == (windex[w] + w) % WorkerCount

\* The condition of the loop of worker_run.
worker_run_loop(w) ==
    /\ WorkerAt(w, "loop")
    /\ wpc' = [wpc EXCEPT ![w] = IF running THEN "find" ELSE "exited"]
    /\ windex' = [windex EXCEPT ![w] = 0]
    /\ UNCHANGED <<poolVars, queueVars, task, wtask, wrest, clientVars, crashed,
                   jobVars>>

\* Mutant: one round too many.
NextCandidate_off_by_one(w) ==
    IF windex[w] + 1 <= WorkerCount
    THEN windex' = [windex EXCEPT ![w] = @ + 1] /\ UNCHANGED wpc
    ELSE wpc' = [wpc EXCEPT ![w] = "wait"] /\ UNCHANGED windex

\* After an empty queue: the next candidate, or worker_wait_for_task.
NextCandidate(w) ==
    IF windex[w] + 1 < WorkerCount
    THEN /\ windex' = [windex EXCEPT ![w] = @ + 1]
         /\ UNCHANGED wpc
    ELSE /\ wpc' = [wpc EXCEPT ![w] = "wait"]
         /\ UNCHANGED windex

\* One round of worker_find_task.
worker_find_task(w) ==
    LET v == candidate(w)
    IN  /\ WorkerAt(w, "find")
        /\ Unlocked(v)
        /\ \/ /\ queue[v] # <<>>
              /\ worker_get_task(w, v)
              /\ UNCHANGED windex
           \/ /\ queue[v] = <<>>
              /\ NextCandidate(w)
              /\ UNCHANGED <<queue, queue_length, wtask>>
        /\ UNCHANGED <<poolVars, queue_mutex, destroyed, task, wrest, clientVars,
                       crashed, jobVars>>

\* The same round on a mutex that cleanup has destroyed already: locking it
\* fails, the result is not checked, and worker_get_task runs unprotected.
\* It reads head and task->next here ...
worker_find_task_unlocked(w) ==
    LET v == candidate(w)
    IN  /\ WorkerAt(w, "find")
        /\ v \in destroyed
        /\ queue[v] # <<>>
        /\ wtask' = [wtask EXCEPT ![w] = Head(queue[v])]
        /\ wrest' = [wrest EXCEPT ![w] = Tail(queue[v])]
        /\ wpc' = [wpc EXCEPT ![w] = "unlocked"]
        /\ UNCHANGED <<poolVars, queueVars, task, windex, clientVars, crashed,
                       jobVars>>

\* ... and writes head here.
worker_get_task_unlocked(w) ==
    LET v == candidate(w)
    IN  /\ WorkerAt(w, "unlocked")
        /\ queue' = [queue EXCEPT ![v] = wrest[w]]
        /\ queue_length' = [queue_length EXCEPT ![v] = (@ - 1) % (SIZE_MAX + 1)]
        /\ wpc' = [wpc EXCEPT ![w] = "run"]
        /\ UNCHANGED <<poolVars, queue_mutex, destroyed, task, windex, wtask, wrest,
                       clientVars, crashed, jobVars>>

\* Mutant: the loop does not look at running.
WaitOrLeave_forever(w) == wpc' = [wpc EXCEPT ![w] = "asleep"]

\* What worker_wait_for_task does when its queue is empty: sleep on
\* queue_cond, or give up if the pool was stopped.
WaitOrLeave(w) ==
    wpc' = [wpc EXCEPT ![w] = IF running THEN "asleep" ELSE "loop"]

\* worker_wait_for_task, entered or resumed after pthread_cond_wait.
worker_wait_for_task(w) ==
    /\ WorkerAt(w, "wait")
    /\ Unlocked(w)
    /\ \/ /\ queue[w] # <<>>
          /\ worker_get_task(w, w)
       \/ /\ queue[w] = <<>>
          /\ WaitOrLeave(w)
          /\ UNCHANGED <<queue, queue_length, wtask>>
    /\ UNCHANGED <<poolVars, queue_mutex, destroyed, task, windex, wrest, clientVars,
                   crashed, jobVars>>

\* task->function(task->arg).  The function pointer of a cell that was
\* recycled is overwritten by the pool's free list: calling it is a crash.
worker_run_execute(w) ==
    /\ WorkerAt(w, "run")
    /\ LET j == task[wtask[w]]
       IN  IF j = NULL
           THEN /\ crashed' = TRUE
                /\ UNCHANGED <<runs, wpc>>
           ELSE /\ runs' = [runs EXCEPT ![j] = @ + 1]
                /\ wpc' = [wpc EXCEPT ![w] = "free"]
                /\ UNCHANGED crashed
    /\ UNCHANGED <<poolVars, queueVars, task, windex, wtask, wrest, clientVars,
                   issued, accepted, dropped>>

\* task_free: the cell goes back to the task pool.
task_free(w) ==
    /\ WorkerAt(w, "free")
    /\ task' = [task EXCEPT ![wtask[w]] = NULL]
    /\ wtask' = [wtask EXCEPT ![w] = NULL]
    /\ wpc' = [wpc EXCEPT ![w] = "dec"]
    /\ UNCHANGED <<poolVars, queueVars, windex, wrest, clientVars, crashed, jobVars>>

\* Mutant: nobody is signalled.
SignalWaiter_missing == UNCHANGED cpc

\* pthread_cond_signal(&threadpool->wait_cond): one sleeping waiter, if any.
SignalWaiter ==
    IF \E c \in Clients : cpc[c] = "asleep"
    THEN \E c \in Clients : /\ cpc[c] = "asleep"
                            /\ cpc' = [cpc EXCEPT ![c] = "wait"]
    ELSE UNCHANGED cpc

\* active_tasks is decremented; the task that brings it to 0 signals.
worker_run_done(w) ==
    /\ WorkerAt(w, "dec")
    /\ active_tasks' = active_tasks - 1
    /\ IF active_tasks = 1 THEN SignalWaiter ELSE UNCHANGED cpc
    /\ wpc' = [wpc EXCEPT ![w] = "loop"]
    /\ UNCHANGED <<running, queueVars, task, windex, wtask, wrest, cindex, cjob,
                   ctask, cworker, cmin, crashed, jobVars>>

\* pthread_cond_wait may return without a signal.
worker_spurious_wakeup(w) ==
    /\ WorkerAt(w, "asleep")
    /\ wpc' = [wpc EXCEPT ![w] = "wait"]
    /\ UNCHANGED <<poolVars, queueVars, task, windex, wtask, wrest, clientVars,
                   crashed, jobVars>>

WorkerStep(w) ==
    \/ worker_run_loop(w)
    \/ worker_find_task(w)
    \/ worker_find_task_unlocked(w)
    \/ worker_get_task_unlocked(w)
    \/ worker_wait_for_task(w)
    \/ worker_run_execute(w)
    \/ task_free(w)
    \/ worker_run_done(w)

(***************************************************************************)
(* cx_threadpool_init, on the owner's thread                               *)
(***************************************************************************)

\* Client c is at a point of its current call, and the process is alive.
ClientAt(c, pc) == ~crashed /\ cpc[c] = pc

\* worker_start(&workers[i]); after the last one init returns.
worker_start(c) ==
    LET i == cindex[c]
    IN  /\ ClientAt(c, "init")
        /\ wpc' = [wpc EXCEPT ![i] = "loop"]
        /\ IF i + 1 < WorkerCount
           THEN /\ cindex' = [cindex EXCEPT ![c] = i + 1]
                /\ UNCHANGED cpc
           ELSE /\ cindex' = [cindex EXCEPT ![c] = 0]
                /\ cpc' = [cpc EXCEPT ![c] = "idle"]
        /\ UNCHANGED <<poolVars, queueVars, task, windex, wtask, wrest, cjob, ctask,
                       cworker, cmin, crashed, jobVars>>

\* calloc, pthread_mutex_init or pthread_cond_init fails before any worker
\* runs.  cx_threadpool_cleanup then dereferences the NULL array, or
\* worker_cleanup joins a thread that was never created.
init_fails(c) ==
    /\ "init" \in Faults
    /\ ClientAt(c, "init")
    /\ cindex[c] = 0
    /\ crashed' = TRUE
    /\ UNCHANGED <<poolVars, queueVars, task, workerVars, clientVars, jobVars>>

\* pthread_create fails: init calls cx_threadpool_cleanup.
worker_start_fails(c) ==
    /\ "create" \in Faults
    /\ ClientAt(c, "init")
    /\ running' = FALSE
    /\ cpc' = [cpc EXCEPT ![c] = "stop"]
    /\ cindex' = [cindex EXCEPT ![c] = 0]
    /\ UNCHANGED <<active_tasks, queueVars, task, workerVars, cjob, ctask, cworker,
                   cmin, crashed, jobVars>>

(***************************************************************************)
(* cx_threadpool_schedule                                                  *)
(***************************************************************************)

\* init has returned and cleanup was not called.
Initialised == cpc[Owner] \notin {"init", "stop", "join", "done"}

\* task_new: a cell of the task pool receives the job.
task_new(c, j, t) ==
    /\ ClientAt(c, "idle") /\ Initialised
    /\ j \notin issued
    /\ task[t] = NULL
    /\ task' = [task EXCEPT ![t] = j]
    /\ ctask' = [ctask EXCEPT ![c] = t]
    /\ cjob' = [cjob EXCEPT ![c] = j]
    /\ cworker' = [cworker EXCEPT ![c] = NULL]
    /\ cmin' = [cmin EXCEPT ![c] = SIZE_MAX]
    /\ cindex' = [cindex EXCEPT ![c] = 0]
    /\ cpc' = [cpc EXCEPT ![c] = "scan"]
    /\ issued' = issued \cup {j}
    /\ UNCHANGED <<poolVars, queueVars, workerVars, crashed, accepted, dropped, runs>>

\* task_new returns NULL; schedule goes to out with rv = 0 and returns 0.
task_new_fails(c, j) ==
    /\ "alloc" \in Faults
    /\ ClientAt(c, "idle") /\ Initialised
    /\ j \notin issued
    /\ issued' = issued \cup {j}
    /\ accepted' = accepted \cup {j}
    /\ dropped' = dropped \cup {j}
    /\ UNCHANGED <<poolVars, queueVars, task, workerVars, clientVars, crashed, runs>>

\* A candidate replaces the choice when it is strictly shorter.
Shorter(c, i) == queue_length[i] < cmin[c]

\* One iteration of the loop over the workers: one atomic_load.
schedule_scan(c) ==
    LET i == cindex[c]
    IN  /\ ClientAt(c, "scan")
        /\ IF Shorter(c, i)
           THEN /\ cworker' = [cworker EXCEPT ![c] = i]
                /\ cmin' = [cmin EXCEPT ![c] = queue_length[i]]
           ELSE UNCHANGED <<cworker, cmin>>
        /\ IF i + 1 < WorkerCount
           THEN /\ cindex' = [cindex EXCEPT ![c] = i + 1]
                /\ UNCHANGED cpc
           ELSE /\ cindex' = [cindex EXCEPT ![c] = 0]
                /\ cpc' = [cpc EXCEPT ![c] = "lock"]
        /\ UNCHANGED <<poolVars, queueVars, task, workerVars, cjob, ctask, crashed,
                       jobVars>>

\* Mutant: active_tasks is not incremented before the task can be taken.
CountActive_missing == UNCHANGED active_tasks

\* atomic_fetch_add(&threadpool->active_tasks, 1), inside the critical section.
CountActive == active_tasks' = active_tasks + 1

\* The queue mutex is taken, the task is appended and counted as active.
schedule_enqueue(c) ==
    LET w == cworker[c]
    IN  /\ ClientAt(c, "lock")
        /\ w # NULL
        /\ Unlocked(w)
        /\ queue_mutex' = [queue_mutex EXCEPT ![w] = c]
        /\ queue' = [queue EXCEPT ![w] = Append(@, ctask[c])]
        /\ CountActive
        /\ ctask' = [ctask EXCEPT ![c] = NULL]
        /\ cpc' = [cpc EXCEPT ![c] = "publish"]
        /\ UNCHANGED <<running, queue_length, destroyed, task, workerVars, cindex,
                       cjob, cworker, cmin, crashed, jobVars>>

\* Mutant: the worker is not signalled.
SignalWorker_missing(w) == UNCHANGED wpc

\* pthread_cond_signal(&worker->queue_cond): only w ever sleeps on it.
SignalWorker(w) ==
    wpc' = [wpc EXCEPT ![w] = IF @ = "asleep" THEN "wait" ELSE @]

\* The client leaves schedule, which returns 0.
ScheduleReturns(c) ==
    /\ accepted' = accepted \cup {cjob[c]}
    /\ cjob' = [cjob EXCEPT ![c] = NULL]
    /\ cworker' = [cworker EXCEPT ![c] = NULL]
    /\ cmin' = [cmin EXCEPT ![c] = SIZE_MAX]
    /\ cpc' = [cpc EXCEPT ![c] = "idle"]

\* queue_length is published, the worker signalled and the mutex released.
schedule_publish(c) ==
    LET w == cworker[c]
    IN  /\ ClientAt(c, "publish")
        /\ queue_length' = [queue_length EXCEPT ![w] = @ + 1]
        /\ SignalWorker(w)
        /\ queue_mutex' = [queue_mutex EXCEPT ![w] = NULL]
        /\ ScheduleReturns(c)
        /\ UNCHANGED <<poolVars, queue, destroyed, task, windex, wtask, wrest, cindex,
                       ctask, crashed, issued, dropped, runs>>

\* pthread_mutex_lock fails: the task is freed and schedule returns 0.
schedule_lock_fails(c) ==
    /\ "lock" \in Faults
    /\ ClientAt(c, "lock")
    /\ cworker[c] # NULL
    /\ task' = [task EXCEPT ![ctask[c]] = NULL]
    /\ ctask' = [ctask EXCEPT ![c] = NULL]
    /\ ScheduleReturns(c)
    /\ dropped' = dropped \cup {cjob[c]}
    /\ UNCHANGED <<poolVars, queueVars, workerVars, cindex, crashed, issued, runs>>

(***************************************************************************)
(* cx_threadpool_wait                                                      *)
(***************************************************************************)

\* A client calls cx_threadpool_wait.
wait_enter(c) ==
    /\ c \in Waiters
    /\ ClientAt(c, "idle") /\ Initialised
    /\ cpc' = [cpc EXCEPT ![c] = "wait"]
    /\ UNCHANGED <<poolVars, queueVars, task, workerVars, cindex, cjob, ctask,
                   cworker, cmin, crashed, jobVars>>

\* Mutant: the last task is not waited for.
AllDone_one_left == active_tasks <= 1

\* The condition under which the loop of cx_threadpool_wait ends.
AllDone == active_tasks = 0

\* The loop condition, under wait_mutex: return or sleep on wait_cond.
cx_threadpool_wait(c) ==
    /\ ClientAt(c, "wait")
    /\ cpc' = [cpc EXCEPT ![c] = IF AllDone THEN "idle" ELSE "asleep"]
    /\ UNCHANGED <<poolVars, queueVars, task, workerVars, cindex, cjob, ctask,
                   cworker, cmin, crashed, jobVars>>

\* pthread_cond_wait may return without a signal.
wait_spurious_wakeup(c) ==
    /\ ClientAt(c, "asleep")
    /\ cpc' = [cpc EXCEPT ![c] = "wait"]
    /\ UNCHANGED <<poolVars, queueVars, task, workerVars, cindex, cjob, ctask,
                   cworker, cmin, crashed, jobVars>>

(***************************************************************************)
(* cx_threadpool_cleanup                                                   *)
(***************************************************************************)

\* A client other than the owner stops using the pool.
quit(c) ==
    /\ c # Owner
    /\ ClientAt(c, "idle") /\ Initialised
    /\ cpc' = [cpc EXCEPT ![c] = "quit"]
    /\ UNCHANGED <<poolVars, queueVars, task, workerVars, cindex, cjob, ctask,
                   cworker, cmin, crashed, jobVars>>

\* running is cleared.  The caller must make sure that no other thread uses
\* the pool any more; queued and running tasks are allowed.
cx_threadpool_cleanup(c) ==
    /\ c = Owner
    /\ ClientAt(c, "idle")
    /\ \A d \in Clients \ {c} : cpc[d] = "quit"
    /\ running' = FALSE
    /\ cpc' = [cpc EXCEPT ![c] = "stop"]
    /\ cindex' = [cindex EXCEPT ![c] = 0]
    /\ UNCHANGED <<active_tasks, queueVars, task, workerVars, cjob, ctask, cworker,
                   cmin, crashed, jobVars>>

\* worker_cleanup(&workers[i]): the worker is signalled under its mutex.
worker_cleanup(c) ==
    LET i == cindex[c]
    IN  /\ ClientAt(c, "stop")
        /\ Unlocked(i)
        /\ SignalWorker(i)
        /\ cpc' = [cpc EXCEPT ![c] = "join"]
        /\ UNCHANGED <<poolVars, queueVars, task, windex, wtask, wrest, cindex, cjob,
                       ctask, cworker, cmin, crashed, jobVars>>

\* pthread_join(worker->thread) returns.
Joined(i) == wpc[i] = "exited"

\* The thread is joined and its mutex destroyed, then comes the next worker;
\* after the last one the array and the task pool are freed.
worker_cleanup_join(c) ==
    LET i == cindex[c]
    IN  /\ ClientAt(c, "join")
        /\ Joined(i)
        /\ destroyed' = destroyed \cup {i}
        /\ IF i + 1 < WorkerCount
           THEN /\ cindex' = [cindex EXCEPT ![c] = i + 1]
                /\ cpc' = [cpc EXCEPT ![c] = "stop"]
                /\ UNCHANGED task
           ELSE /\ cpc' = [cpc EXCEPT ![c] = "done"]
                /\ task' = [t \in Tasks |-> NULL]
                /\ UNCHANGED cindex
        /\ UNCHANGED <<poolVars, queue, queue_length, queue_mutex, workerVars, cjob,
                       ctask, cworker, cmin, crashed, jobVars>>

\* pthread_join of a thread that was never created (pthread_t is zeroed).
worker_cleanup_join_uncreated(c) ==
    /\ ClientAt(c, "join")
    /\ wpc[cindex[c]] = "none"
    /\ crashed' = TRUE
    /\ UNCHANGED <<poolVars, queueVars, task, workerVars, clientVars, jobVars>>

\* Steps a client's thread takes on its own once it has entered a function.
ClientStep(c) ==
    \/ worker_start(c)
    \/ schedule_scan(c)
    \/ schedule_enqueue(c)
    \/ schedule_publish(c)
    \/ cx_threadpool_wait(c)
    \/ worker_cleanup(c)
    \/ worker_cleanup_join(c)
    \/ worker_cleanup_join_uncreated(c)

\* Calls a client may make, and failures of the system below.
ClientCall(c) ==
    \/ \E j \in Jobs, t \in Tasks : task_new(c, j, t)
    \/ \E j \in Jobs : task_new_fails(c, j)
    \/ schedule_lock_fails(c)
    \/ wait_enter(c)
    \/ wait_spurious_wakeup(c)
    \/ quit(c)
    \/ cx_threadpool_cleanup(c)
    \/ init_fails(c)
    \/ worker_start_fails(c)

\* Nothing is left to do once cleanup returned or the process died.
Terminated ==
    /\ crashed \/ cpc[Owner] = "done"
    /\ UNCHANGED vars

Next ==
    \/ \E w \in Workers : WorkerStep(w) \/ worker_spurious_wakeup(w)
    \/ \E c \in Clients : ClientStep(c) \/ ClientCall(c)
    \/ Terminated

\* Every thread that can run is eventually scheduled, and the functions of
\* the jobs return.  Nobody is forced to call the API.
Fairness ==
    /\ \A w \in Workers : WF_vars(WorkerStep(w))
    /\ \A c \in Clients : WF_vars(ClientStep(c))

Spec == Init /\ [][Next]_vars

FairSpec == Spec /\ Fairness

-----------------------------------------------------------------------------
(***************************************************************************)
(* Properties                                                              *)
(***************************************************************************)

\* Workers between taking a task and accounting for its end.
Busy == {w \in Workers : wpc[w] \in {"run", "free", "dec"}}

\* Cells that are linked into some worker's queue.
Queued == {t \in Tasks : \E w \in Workers : \E i \in 1 .. Len(queue[w]) : queue[w][i] = t}

\* Cells that schedule has filled and not linked into a queue yet.
Filling == {t \in Tasks : \E c \in Clients : cpc[c] \in {"scan", "lock"} /\ ctask[c] = t}

\* Cells whose task a worker has taken and not given back yet.
Held == {t \in Tasks : \E w \in Workers : wpc[w] \in {"run", "free"} /\ wtask[w] = t}

\* No queue_mutex is destroyed: the pool runs, or cleanup has stopped it and
\* not joined the first worker.  From the first destroyed mutex on, the workers
\* that still run use the queues of the joined ones unprotected
\* (worker_get_task_unlocked), and the invariants below need not hold any more.
Protected == destroyed = {}

\* A CxTask cell that is in use has exactly one place while every queue_mutex
\* works, also while the stopped workers finish: with one client between
\* task_new and the enqueue, at one position of one queue, or with one worker
\* until task_free.  A cell in the task pool has none, so task_new never hands
\* out a cell that somebody still reads.
TaskOwnership ==
    Protected =>
        /\ \A w, v \in Workers : \A i \in 1 .. Len(queue[w]), k \in 1 .. Len(queue[v]) :
              queue[w][i] = queue[v][k] => w = v /\ i = k
        /\ \A w, v \in Workers :
              wpc[w] \in {"run", "free"} /\ wpc[v] \in {"run", "free"} =>
                  (wtask[w] = wtask[v] => w = v)
        /\ \A c, d \in Clients :
              cpc[c] \in {"scan", "lock"} /\ cpc[d] \in {"scan", "lock"} =>
                  (ctask[c] = ctask[d] => c = d)
        /\ Queued \cap Held = {} /\ Queued \cap Filling = {} /\ Held \cap Filling = {}
        /\ Queued \cup Held \cup Filling = {t \in Tasks : task[t] # NULL}

\* active_tasks, which schedule and the workers update under different
\* mutexes, counts the queued tasks and the busy workers.
ActiveAccounting ==
    Protected => active_tasks = Cardinality(Queued) + Cardinality(Busy)

\* The atomic queue_length that schedule reads without the lock is the length
\* of the list, behind by one only while a client is inside its critical
\* section; it never wraps below 0.
QueueLengthTracks ==
    Protected => \A w \in Workers :
        queue_length[w] = Len(queue[w]) - (IF queue_mutex[w] = NULL THEN 0 ELSE 1)

\* The function of a scheduled job is called at most once, although every
\* worker may take from every queue, until a queue_mutex is destroyed.
RunAtMostOnce == Protected => \A j \in Jobs : runs[j] <= 1

\* A worker does not sleep on queue_cond with a task in its own queue, except
\* while the client that queued it is about to signal; and no worker sleeps
\* through cleanup once its signal was sent.
NoLostWakeup ==
    \A w \in Workers : wpc[w] = "asleep" =>
        /\ queue[w] # <<>> => queue_mutex[w] # NULL
        /\ ~running => /\ cpc[Owner] \in {"stop", "join"}
                       /\ cindex[Owner] <= w
                       /\ cindex[Owner] = w => cpc[Owner] = "stop"

\* cx_threadpool_wait returns only when every job whose schedule call had
\* returned by then has run to its end (jobs schedule dropped internally are
\* left out).
WaitCompletes ==
    [][\A c \in Clients : cpc[c] = "wait" /\ cpc'[c] = "idle" =>
          \A j \in accepted \ dropped : runs[j] = 1 /\ j \notin {task[t] : t \in Held}]_vars

\* A call of cx_threadpool_wait returns.
WaitReturns == \A c \in Clients : cpc[c] = "wait" ~> cpc[c] = "idle"
=============================================================================
