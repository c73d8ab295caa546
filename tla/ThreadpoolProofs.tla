-------------------------- MODULE ThreadpoolProofs --------------------------
(***************************************************************************)
(* Proofs about Threadpool for every number of workers, clients, jobs and  *)
(* cells.                                                                  *)
(***************************************************************************)
EXTENDS Threadpool, TLAPS, FiniteSetTheorems, SequenceTheorems

\* Local variables that are in use hold a value: the fields of a client
\* inside schedule, the task of a worker that has taken one.
Locals ==
    /\ \A c \in Clients :
          /\ cpc[c] \in {"scan", "lock"} => ctask[c] \in Tasks
          /\ cpc[c] \in {"scan", "lock", "publish"} => cjob[c] \in Jobs
          /\ cpc[c] = "publish" => cworker[c] \in Workers
    /\ \A w \in Workers : wpc[w] \in {"unlocked", "run", "free"} => wtask[w] \in Tasks

TypeInv == TypeOK /\ Locals

\* The indices the loops over the workers compute are workers.
LEMMA Indices ==
    /\ 0 \in Workers
    /\ \A i \in Workers : i + 1 < WorkerCount => i + 1 \in Workers
    /\ \A i, k \in Workers : (i + k) % WorkerCount \in Workers
<1> WorkerCount \in Nat \ {0}
  BY ThreadpoolAssumption DEF ThreadpoolAssumption
<1> QED BY DEF Workers

\* The candidates of worker_find_task are workers.
LEMMA CandidateIsWorker ==
    ASSUME TypeOK, NEW w \in Workers
    PROVE  candidate(w) \in Workers
<1>1. windex[w] \in Workers
  BY DEF TypeOK
<1> QED BY <1>1, Indices DEF candidate

\* Taking the first task of a queue leaves a queue of cells.
LEMMA PopTypes ==
    ASSUME TypeOK, NEW v \in Workers, queue[v] # <<>>
    PROVE  Head(queue[v]) \in Tasks /\ Tail(queue[v]) \in Seq(Tasks)
<1>1. queue[v] \in Seq(Tasks)
  BY DEF TypeOK
<1> QED BY <1>1, HeadTailProperties

\* Taking a task keeps the types and gives the worker a cell.
LEMMA GetTaskTypes ==
    ASSUME TypeInv, NEW w \in Workers, NEW v \in Workers, queue[v] # <<>>,
           worker_get_task(w, v)
    PROVE  /\ queue' \in [Workers -> Seq(Tasks)]
           /\ queue_length' \in [Workers -> Int]
           /\ wpc' \in [Workers -> WorkerPC]
           /\ wtask' \in [Workers -> Tasks \cup {NULL}]
           /\ \A u \in Workers : wpc'[u] \in {"unlocked", "run", "free"} => wtask'[u] \in Tasks
<1>1. Head(queue[v]) \in Tasks /\ Tail(queue[v]) \in Seq(Tasks)
  BY PopTypes DEF TypeInv
<1> USE <1>1 DEF worker_get_task, TypeInv, TypeOK
<1>2. queue' \in [Workers -> Seq(Tasks)]
  OBVIOUS
<1>3. queue_length' \in [Workers -> Int]
  OBVIOUS
<1>4. wpc' \in [Workers -> WorkerPC]
  BY DEF WorkerPC
<1>5. wtask' \in [Workers -> Tasks \cup {NULL}]
  OBVIOUS
<1> QED BY <1>2, <1>3, <1>4, <1>5 DEF Locals

\* The initial state has the types.
LEMMA TypeCorrectInit == Init => TypeInv
<1> SUFFICES ASSUME Init PROVE TypeInv
  OBVIOUS
<1>1. SIZE_MAX \in Nat
  BY ThreadpoolAssumption DEF ThreadpoolAssumption
<1>2. queue \in [Workers -> Seq(Tasks)] /\ wrest \in [Workers -> Seq(Tasks)]
  BY EmptySeq DEF Init
<1>3. cpc \in [Clients -> ClientPC] /\ wpc \in [Workers -> WorkerPC]
  BY DEF Init, ClientPC, WorkerPC
<1>4. running \in BOOLEAN /\ crashed \in BOOLEAN
  BY DEF Init
<1>5. TypeOK
  BY <1>1, <1>2, <1>3, <1>4, Indices DEF Init, TypeOK
<1>6. Locals
  BY DEF Init, Locals
<1> QED BY <1>5, <1>6 DEF TypeInv

\* Every action keeps the types and the locals in use.
LEMMA TypeCorrectNext == TypeInv /\ [Next]_vars => TypeInv'
<1> SUFFICES ASSUME TypeInv, [Next]_vars PROVE TypeInv'
  OBVIOUS
<1> SIZE_MAX \in Nat
  BY ThreadpoolAssumption DEF ThreadpoolAssumption
<1>t. TypeOK
  BY DEF TypeInv
<1>1. ASSUME NEW w \in Workers, worker_run_loop(w) PROVE TypeInv'
  BY <1>1, Indices
     DEF worker_run_loop, TypeInv, TypeOK, Locals, WorkerPC, ClientPC,
         WorkerAt, poolVars, queueVars, clientVars, jobVars
<1>2. ASSUME NEW w \in Workers, worker_find_task(w) PROVE TypeInv'
  <2> DEFINE v == candidate(w)
  <2>1. v \in Workers
    BY CandidateIsWorker, <1>t
  <2> USE DEF poolVars, queueVars, clientVars, jobVars
  <2>2. CASE queue[v] # <<>>
    <3>1. worker_get_task(w, v) /\ UNCHANGED windex
      BY <1>2, <2>2 DEF worker_find_task
    <3> QED BY <1>2, <2>1, <2>2, <3>1, GetTaskTypes
            DEF worker_find_task, TypeInv, TypeOK, Locals
  <2>3. CASE queue[v] = <<>>
    <3>1. NextCandidate(w) /\ UNCHANGED <<queue, queue_length, wtask>>
      BY <1>2, <2>3 DEF worker_find_task
    <3>2. CASE windex[w] + 1 < WorkerCount
      <4>1. windex[w] \in Workers /\ windex[w] + 1 \in Workers
        BY <3>2, Indices DEF TypeInv, TypeOK
      <4>2. windex' \in [Workers -> Workers] /\ UNCHANGED wpc
        BY <3>1, <3>2, <4>1 DEF NextCandidate, TypeInv, TypeOK
      <4> QED BY <1>2, <3>1, <4>2 DEF worker_find_task, TypeInv, TypeOK, Locals
    <3>3. CASE ~(windex[w] + 1 < WorkerCount)
      <4>1. wpc' = [wpc EXCEPT ![w] = "wait"] /\ UNCHANGED windex
        BY <3>1, <3>3 DEF NextCandidate
      <4> QED BY <1>2, <3>1, <4>1
              DEF worker_find_task, TypeInv, TypeOK, Locals, WorkerPC
    <3> QED BY <3>2, <3>3
  <2> QED BY <2>2, <2>3
<1>3. ASSUME NEW w \in Workers, worker_find_task_unlocked(w) PROVE TypeInv'
  BY <1>3, Indices, <1>t, CandidateIsWorker, PopTypes
     DEF worker_find_task_unlocked, TypeInv, TypeOK, Locals, WorkerPC, ClientPC,
         WorkerAt, poolVars, queueVars, clientVars, jobVars
<1>4. ASSUME NEW w \in Workers, worker_get_task_unlocked(w) PROVE TypeInv'
  <2>1. candidate(w) \in Workers
    BY CandidateIsWorker, <1>t
  <2> USE DEF worker_get_task_unlocked, WorkerAt, poolVars, queueVars, clientVars, jobVars
  <2>2. queue' \in [Workers -> Seq(Tasks)]
    BY <1>4, <2>1 DEF TypeInv, TypeOK
  <2>3. queue_length' \in [Workers -> Int]
    BY <1>4, <2>1 DEF TypeInv, TypeOK
  <2> QED BY <1>4, <2>2, <2>3 DEF TypeInv, TypeOK, Locals, WorkerPC
<1>5. ASSUME NEW w \in Workers, worker_wait_for_task(w) PROVE TypeInv'
  <2> USE DEF poolVars, queueVars, clientVars, jobVars
  <2>1. CASE queue[w] # <<>>
    <3>1. worker_get_task(w, w)
      BY <1>5, <2>1 DEF worker_wait_for_task
    <3> QED BY <1>5, <2>1, <3>1, GetTaskTypes
            DEF worker_wait_for_task, TypeInv, TypeOK, Locals
  <2>2. CASE queue[w] = <<>>
    <3>1. \E x \in {"asleep", "loop"} : wpc' = [wpc EXCEPT ![w] = x]
      BY <1>5, <2>2 DEF worker_wait_for_task, WaitOrLeave
    <3>2. wpc' \in [Workers -> WorkerPC]
      BY <3>1 DEF TypeInv, TypeOK, WorkerPC
    <3>3. \A u \in Workers :
             wpc'[u] \in {"unlocked", "run", "free"} => wpc[u] = wpc'[u]
      BY <3>1 DEF TypeInv, TypeOK
    <3> QED BY <1>5, <2>2, <3>2, <3>3
            DEF worker_wait_for_task, TypeInv, TypeOK, Locals
  <2> QED BY <2>1, <2>2
<1>6. ASSUME NEW w \in Workers, worker_run_execute(w) PROVE TypeInv'
  <2> USE DEF worker_run_execute, WorkerAt, poolVars, queueVars, clientVars
  <2>1. CASE task[wtask[w]] = NULL
    BY <1>6, <2>1 DEF TypeInv, TypeOK, Locals
  <2>2. CASE task[wtask[w]] # NULL
    <3>1. task[wtask[w]] \in Jobs
      BY <1>6, <2>2 DEF TypeInv, TypeOK, Locals
    <3>2. runs' \in [Jobs -> Nat]
      <4> DEFINE j == task[wtask[w]]
      <4>1. runs' = [runs EXCEPT ![j] = @ + 1] /\ runs \in [Jobs -> Nat]
        BY <1>6, <2>2 DEF TypeInv, TypeOK
      <4> HIDE DEF j
      <4> QED BY <3>1, <4>1 DEF j
    <3>3. wpc' \in [Workers -> WorkerPC] /\ UNCHANGED crashed
      BY <1>6, <2>2, <3>1 DEF TypeInv, TypeOK, WorkerPC
    <3>4. \A v \in Workers :
             wpc'[v] \in {"unlocked", "run", "free"} => wtask[v] \in Tasks
      BY <1>6, <2>2 DEF TypeInv, TypeOK, Locals
    <3> QED BY <1>6, <3>2, <3>3, <3>4 DEF TypeInv, TypeOK, Locals
  <2> QED BY <2>1, <2>2
<1>7. ASSUME NEW w \in Workers, task_free(w) PROVE TypeInv'
  BY <1>7, Indices
     DEF task_free, TypeInv, TypeOK, Locals, WorkerPC, ClientPC,
         WorkerAt, poolVars, queueVars, clientVars, jobVars
<1>8. ASSUME NEW w \in Workers, worker_run_done(w) PROVE TypeInv'
  <2> USE DEF worker_run_done, WorkerAt, TypeInv, TypeOK
  <2>1. cpc' \in [Clients -> ClientPC]
    BY <1>8 DEF SignalWaiter, ClientPC
  <2>2. \A c \in Clients : cpc'[c] # cpc[c] => cpc'[c] = "wait"
    BY <1>8 DEF SignalWaiter
  <2> QED BY <1>8, <2>1, <2>2 DEF Locals, WorkerPC, poolVars, queueVars, clientVars, jobVars
<1>9. ASSUME NEW w \in Workers, worker_spurious_wakeup(w) PROVE TypeInv'
  BY <1>9, Indices
     DEF worker_spurious_wakeup, TypeInv, TypeOK, Locals, WorkerPC, ClientPC,
         WorkerAt, poolVars, queueVars, clientVars, jobVars
<1>10. ASSUME NEW c \in Clients, worker_start(c) PROVE TypeInv'
  <2> DEFINE i == cindex[c]
  <2> USE DEF worker_start, ClientAt, TypeInv, TypeOK
  <2>1. i \in Workers /\ wpc' = [wpc EXCEPT ![i] = "loop"]
    BY <1>10
  <2>2. /\ wpc' \in [Workers -> WorkerPC]
        /\ \A w \in Workers : wpc'[w] # wpc[w] => wpc'[w] = "loop"
    BY <2>1 DEF WorkerPC
  <2>3. CASE i + 1 < WorkerCount
    <3>1. cindex' \in [Clients -> Workers] /\ UNCHANGED cpc
      <4>1. cindex' = [cindex EXCEPT ![c] = i + 1] /\ UNCHANGED cpc
        BY <1>10, <2>3
      <4>2. i + 1 \in Workers
        BY <2>1, <2>3, Indices
      <4> QED BY <4>1, <4>2
    <3> QED BY <1>10, <2>2, <3>1 DEF Locals, poolVars, queueVars, jobVars
  <2>4. CASE ~(i + 1 < WorkerCount)
    <3>1. cindex' \in [Clients -> Workers] /\ cpc' = [cpc EXCEPT ![c] = "idle"]
      <4>1. cindex' = [cindex EXCEPT ![c] = 0] /\ cpc' = [cpc EXCEPT ![c] = "idle"]
        BY <1>10, <2>4
      <4> QED BY <4>1, Indices
    <3> QED BY <1>10, <2>2, <3>1 DEF Locals, ClientPC, poolVars, queueVars, jobVars
  <2> QED BY <2>3, <2>4
<1>11. ASSUME NEW c \in Clients, schedule_scan(c) PROVE TypeInv'
  <2> DEFINE i == cindex[c]
  <2> USE DEF schedule_scan, ClientAt, TypeInv, TypeOK
  <2>1. i \in Workers
    OBVIOUS
  <2>2. cworker' \in [Clients -> Workers \cup {NULL}] /\ cmin' \in [Clients -> Int]
    <3>1. CASE Shorter(c, i)
      <4>1. /\ cworker' = [cworker EXCEPT ![c] = i]
            /\ cmin' = [cmin EXCEPT ![c] = queue_length[i]]
        BY <1>11, <3>1
      <4>2. queue_length[i] \in Int
        BY <2>1
      <4> QED BY <2>1, <4>1, <4>2
    <3>2. CASE ~Shorter(c, i)
      BY <1>11, <3>2
    <3> QED BY <3>1, <3>2
  <2>3. CASE i + 1 < WorkerCount
    <3>1. cindex' \in [Clients -> Workers] /\ UNCHANGED cpc
      <4>1. cindex' = [cindex EXCEPT ![c] = i + 1] /\ UNCHANGED cpc
        BY <1>11, <2>3
      <4>2. i + 1 \in Workers
        BY <2>1, <2>3, Indices
      <4> QED BY <4>1, <4>2
    <3> QED BY <1>11, <2>2, <3>1
            DEF Locals, poolVars, queueVars, workerVars, jobVars
  <2>4. CASE ~(i + 1 < WorkerCount)
    <3>1. cindex' \in [Clients -> Workers] /\ cpc' = [cpc EXCEPT ![c] = "lock"]
      BY <1>11, <2>4, Indices
    <3> QED BY <1>11, <2>2, <3>1
            DEF Locals, ClientPC, poolVars, queueVars, workerVars, jobVars
  <2> QED BY <2>3, <2>4
<1>12. ASSUME NEW c \in Clients, schedule_enqueue(c) PROVE TypeInv'
  BY <1>12, Indices
     DEF schedule_enqueue, CountActive, TypeInv, TypeOK, Locals, WorkerPC, ClientPC,
         ClientAt, poolVars, queueVars, workerVars, clientVars, jobVars
<1>13. ASSUME NEW c \in Clients, schedule_publish(c) PROVE TypeInv'
  BY <1>13, Indices
     DEF schedule_publish, SignalWorker, ScheduleReturns, TypeInv, TypeOK, Locals, WorkerPC, ClientPC,
         ClientAt, poolVars, queueVars, workerVars, clientVars, jobVars
<1>14. ASSUME NEW c \in Clients, cx_threadpool_wait(c) PROVE TypeInv'
  BY <1>14, Indices
     DEF cx_threadpool_wait, TypeInv, TypeOK, Locals, WorkerPC, ClientPC,
         ClientAt, poolVars, queueVars, workerVars, clientVars, jobVars
<1>15. ASSUME NEW c \in Clients, worker_cleanup(c) PROVE TypeInv'
  BY <1>15, Indices
     DEF worker_cleanup, SignalWorker, TypeInv, TypeOK, Locals, WorkerPC, ClientPC,
         ClientAt, poolVars, queueVars, workerVars, clientVars, jobVars
<1>16. ASSUME NEW c \in Clients, worker_cleanup_join(c) PROVE TypeInv'
  <2> DEFINE i == cindex[c]
  <2> USE DEF worker_cleanup_join, ClientAt, TypeInv, TypeOK
  <2>1. i \in Workers
    OBVIOUS
  <2>2. CASE i + 1 < WorkerCount
    <3>1. /\ cindex' \in [Clients -> Workers]
          /\ cpc' = [cpc EXCEPT ![c] = "stop"]
          /\ UNCHANGED task
      BY <1>16, <2>1, <2>2, Indices
    <3> QED BY <1>16, <2>1, <3>1
            DEF Locals, ClientPC, poolVars, queueVars, workerVars, jobVars
  <2>3. CASE ~(i + 1 < WorkerCount)
    <3>1. /\ task' \in [Tasks -> Jobs \cup {NULL}]
          /\ cpc' = [cpc EXCEPT ![c] = "done"]
          /\ UNCHANGED cindex
      BY <1>16, <2>3
    <3> QED BY <1>16, <2>1, <3>1
            DEF Locals, ClientPC, poolVars, queueVars, workerVars, jobVars
  <2> QED BY <2>2, <2>3
<1>17. ASSUME NEW c \in Clients, worker_cleanup_join_uncreated(c) PROVE TypeInv'
  BY <1>17, Indices
     DEF worker_cleanup_join_uncreated, TypeInv, TypeOK, Locals, WorkerPC, ClientPC,
         ClientAt, poolVars, queueVars, workerVars, clientVars, jobVars
<1>18. ASSUME NEW c \in Clients, NEW j \in Jobs, NEW t \in Tasks, task_new(c, j, t) PROVE TypeInv'
  BY <1>18, Indices
     DEF task_new, TypeInv, TypeOK, Locals, WorkerPC, ClientPC,
         ClientAt, poolVars, queueVars, workerVars, clientVars, jobVars
<1>19. ASSUME NEW c \in Clients, NEW j \in Jobs, task_new_fails(c, j) PROVE TypeInv'
  BY <1>19, Indices
     DEF task_new_fails, TypeInv, TypeOK, Locals, WorkerPC, ClientPC,
         ClientAt, poolVars, queueVars, workerVars, clientVars, jobVars
<1>20. ASSUME NEW c \in Clients, schedule_lock_fails(c) PROVE TypeInv'
  BY <1>20, Indices
     DEF schedule_lock_fails, ScheduleReturns, TypeInv, TypeOK, Locals, WorkerPC, ClientPC,
         ClientAt, poolVars, queueVars, workerVars, clientVars, jobVars
<1>21. ASSUME NEW c \in Clients, wait_enter(c) PROVE TypeInv'
  BY <1>21, Indices
     DEF wait_enter, TypeInv, TypeOK, Locals, WorkerPC, ClientPC,
         ClientAt, poolVars, queueVars, workerVars, clientVars, jobVars
<1>22. ASSUME NEW c \in Clients, wait_spurious_wakeup(c) PROVE TypeInv'
  BY <1>22, Indices
     DEF wait_spurious_wakeup, TypeInv, TypeOK, Locals, WorkerPC, ClientPC,
         ClientAt, poolVars, queueVars, workerVars, clientVars, jobVars
<1>23. ASSUME NEW c \in Clients, quit(c) PROVE TypeInv'
  BY <1>23, Indices
     DEF quit, TypeInv, TypeOK, Locals, WorkerPC, ClientPC,
         ClientAt, poolVars, queueVars, workerVars, clientVars, jobVars
<1>24. ASSUME NEW c \in Clients, cx_threadpool_cleanup(c) PROVE TypeInv'
  BY <1>24, Indices
     DEF cx_threadpool_cleanup, TypeInv, TypeOK, Locals, WorkerPC, ClientPC,
         ClientAt, poolVars, queueVars, workerVars, clientVars, jobVars
<1>25. ASSUME NEW c \in Clients, init_fails(c) PROVE TypeInv'
  BY <1>25, Indices
     DEF init_fails, TypeInv, TypeOK, Locals, WorkerPC, ClientPC,
         ClientAt, poolVars, queueVars, workerVars, clientVars, jobVars
<1>26. ASSUME NEW c \in Clients, worker_start_fails(c) PROVE TypeInv'
  BY <1>26, Indices
     DEF worker_start_fails, TypeInv, TypeOK, Locals, WorkerPC, ClientPC,
         ClientAt, poolVars, queueVars, workerVars, clientVars, jobVars
<1>27. CASE UNCHANGED vars
  BY <1>27 DEF TypeInv, TypeOK, Locals, vars, poolVars, queueVars, workerVars,
                clientVars, jobVars
<1> QED
  BY <1>1, <1>2, <1>3, <1>4, <1>5, <1>6, <1>7, <1>8, <1>9, <1>10, <1>11, <1>12, <1>13,
     <1>14, <1>15, <1>16, <1>17, <1>18, <1>19, <1>20, <1>21, <1>22, <1>23, <1>24, <1>25, <1>26, <1>27
     DEF Next, WorkerStep, ClientStep, ClientCall, Terminated

\* TypeOK holds in every reachable state, for any number of workers, clients,
\* jobs and cells, and whatever fails.
THEOREM TypeCorrect == Spec => []TypeOK
<1>1. TypeInv => TypeOK
  BY DEF TypeInv
<1> QED BY TypeCorrectInit, TypeCorrectNext, <1>1, PTL DEF Spec

\* Who is where while the pool runs.
Control ==
    /\ \A c \in Clients : cpc[c] \in {"init", "stop", "join", "done"} => c = Owner
    /\ running => /\ destroyed = {}
                  /\ cpc[Owner] \notin {"stop", "join", "done"}
    /\ \A w \in Workers : wpc[w] = "unlocked" => destroyed # {}
    /\ ~running => /\ cpc[Owner] \in {"stop", "join", "done"}
                   /\ \A c \in Clients : c # Owner => cpc[c] \in {"idle", "quit"}
    /\ cpc[Owner] = "init" =>
          /\ \A c \in Clients : c # Owner => cpc[c] = "idle"
          /\ \A w \in Workers : cindex[Owner] <= w => wpc[w] = "none"

\* The first layer of the inductive invariant: types, control, places, count.
PlaceInv == TypeInv /\ Control /\ TaskOwnership /\ ActiveAccounting

\* The owner is one of the clients.
LEMMA OwnerIsClient == Owner \in Clients
  BY ThreadpoolAssumption DEF ThreadpoolAssumption

\* NULL is neither a cell nor a job.
LEMMA NullIsNoTask == NULL \notin Tasks /\ NULL \notin Jobs
  BY ThreadpoolAssumption DEF ThreadpoolAssumption

\* Control holds before any worker runs.
LEMMA ControlInit == Init => Control
  BY OwnerIsClient DEF Init, Control

\* Every action keeps Control.
LEMMA ControlNext == TypeInv /\ Control /\ [Next]_vars => Control'
<1> SUFFICES ASSUME TypeInv, Control, [Next]_vars PROVE Control'
  OBVIOUS
<1> USE OwnerIsClient DEF Control, TypeInv, TypeOK
<1>1. ASSUME NEW w \in Workers, worker_run_loop(w) PROVE Control'
  BY <1>1 DEF worker_run_loop, WorkerAt, poolVars, queueVars, clientVars
<1>2. ASSUME NEW w \in Workers, worker_find_task(w) PROVE Control'
  <2>1. \A u \in Workers : wpc'[u] # wpc[u] => wpc[u] # "none" /\ wpc'[u] # "unlocked"
    BY <1>2 DEF worker_find_task, worker_get_task, NextCandidate, WorkerAt
  <2> QED BY <1>2, <2>1 DEF worker_find_task, poolVars, clientVars
<1>3. ASSUME NEW w \in Workers, worker_find_task_unlocked(w) PROVE Control'
  <2>1. destroyed # {}
    BY <1>3 DEF worker_find_task_unlocked
  <2>2. \A u \in Workers : wpc'[u] # wpc[u] => wpc[u] # "none"
    BY <1>3 DEF worker_find_task_unlocked, WorkerAt
  <2> QED BY <1>3, <2>1, <2>2 DEF worker_find_task_unlocked, poolVars, queueVars, clientVars
<1>4. ASSUME NEW w \in Workers, worker_get_task_unlocked(w) PROVE Control'
  BY <1>4 DEF worker_get_task_unlocked, WorkerAt, poolVars, clientVars
<1>5. ASSUME NEW w \in Workers, worker_wait_for_task(w) PROVE Control'
  <2>1. \A u \in Workers : wpc'[u] # wpc[u] => wpc[u] # "none" /\ wpc'[u] # "unlocked"
    BY <1>5 DEF worker_wait_for_task, worker_get_task, WaitOrLeave, WorkerAt
  <2> QED BY <1>5, <2>1 DEF worker_wait_for_task, poolVars, clientVars
<1>6. ASSUME NEW w \in Workers, worker_run_execute(w) PROVE Control'
  <2>1. \A u \in Workers : wpc'[u] # wpc[u] => wpc[u] # "none" /\ wpc'[u] # "unlocked"
    BY <1>6 DEF worker_run_execute, WorkerAt
  <2> QED BY <1>6, <2>1 DEF worker_run_execute, poolVars, queueVars, clientVars
<1>7. ASSUME NEW w \in Workers, task_free(w) PROVE Control'
  BY <1>7 DEF task_free, WorkerAt, poolVars, queueVars, clientVars
<1>8. ASSUME NEW w \in Workers, worker_run_done(w) PROVE Control'
  <2>1. \A c \in Clients : cpc'[c] # cpc[c] => cpc[c] = "asleep" /\ cpc'[c] = "wait"
    BY <1>8 DEF worker_run_done, SignalWaiter
  <2>2. \A u \in Workers : wpc'[u] # wpc[u] => wpc[u] # "none" /\ wpc'[u] # "unlocked"
    BY <1>8 DEF worker_run_done, WorkerAt
  <2> QED BY <1>8, <2>1, <2>2 DEF worker_run_done, queueVars
<1>9. ASSUME NEW w \in Workers, worker_spurious_wakeup(w) PROVE Control'
  BY <1>9 DEF worker_spurious_wakeup, WorkerAt, poolVars, queueVars, clientVars
<1>10. ASSUME NEW c \in Clients, worker_start(c) PROVE Control'
  <2>0. c = Owner /\ cindex[c] \in Workers
    BY <1>10 DEF worker_start, ClientAt
  <2>1. CASE cindex[c] + 1 < WorkerCount
    <3>1. cindex' = [cindex EXCEPT ![c] = cindex[c] + 1] /\ UNCHANGED cpc /\ wpc' = [wpc EXCEPT ![cindex[c]] = "loop"]
      BY <1>10, <2>1 DEF worker_start
    <3>2. \A w \in Workers : cindex'[Owner] <= w => w # cindex[Owner] /\ cindex[Owner] <= w
      BY <2>0, <3>1 DEF Workers
    <3> QED BY <1>10, <2>0, <3>1, <3>2 DEF worker_start, ClientAt, poolVars, queueVars
  <2>2. CASE ~(cindex[c] + 1 < WorkerCount)
    <3>1. cpc' = [cpc EXCEPT ![c] = "idle"] /\ wpc' = [wpc EXCEPT ![cindex[c]] = "loop"]
      BY <1>10, <2>2 DEF worker_start
    <3>2. running
      BY <1>10, <2>0 DEF worker_start, ClientAt
    <3>3. \A w \in Workers : wpc'[w] # "unlocked"
      BY <2>0, <3>1, <3>2 DEF WorkerPC
    <3> QED BY <1>10, <2>0, <3>1, <3>2, <3>3 DEF worker_start, poolVars, queueVars
  <2> QED BY <2>1, <2>2
<1>11. ASSUME NEW c \in Clients, schedule_scan(c) PROVE Control'
  <2>1. \A d \in Clients : cpc'[d] # cpc[d] => d = c /\ cpc'[d] = "lock"
    BY <1>11 DEF schedule_scan
  <2>2. \A d \in Clients : cindex'[d] # cindex[d] => cpc[d] # "init"
    BY <1>11 DEF schedule_scan, ClientAt
  <2> QED BY <1>11, <2>1, <2>2 DEF schedule_scan, ClientAt, poolVars, queueVars, workerVars
<1>12. ASSUME NEW c \in Clients, schedule_enqueue(c) PROVE Control'
  BY <1>12 DEF schedule_enqueue, ClientAt, workerVars
<1>13. ASSUME NEW c \in Clients, schedule_publish(c) PROVE Control'
  <2>1. \A w \in Workers : wpc'[w] # wpc[w] => wpc[w] # "none" /\ wpc'[w] # "unlocked"
    BY <1>13 DEF schedule_publish, SignalWorker
  <2> QED BY <1>13, <2>1 DEF schedule_publish, ScheduleReturns, ClientAt, poolVars
<1>14. ASSUME NEW c \in Clients, cx_threadpool_wait(c) PROVE Control'
  <2>1. \A d \in Clients : cpc'[d] # cpc[d] => cpc'[d] \in {"idle", "asleep"}
    BY <1>14 DEF cx_threadpool_wait
  <2>2. running /\ cpc[Owner] # "init"
    BY <1>14 DEF cx_threadpool_wait, ClientAt
  <2>3. cpc'[Owner] \notin {"init", "stop", "join", "done"}
    BY <2>1, <2>2
  <2> QED BY <1>14, <2>1, <2>2, <2>3 DEF cx_threadpool_wait, poolVars, queueVars, workerVars
<1>15. ASSUME NEW c \in Clients, worker_cleanup(c) PROVE Control'
  <2>1. \A w \in Workers : wpc'[w] # wpc[w] => wpc[w] # "none" /\ wpc'[w] # "unlocked"
    BY <1>15 DEF worker_cleanup, SignalWorker
  <2> QED BY <1>15, <2>1 DEF worker_cleanup, ClientAt, poolVars, queueVars
<1>16. ASSUME NEW c \in Clients, worker_cleanup_join(c) PROVE Control'
  <2>1. c = Owner /\ ~running
    BY <1>16 DEF worker_cleanup_join, ClientAt
  <2>2. \E x \in {"stop", "done"} : cpc' = [cpc EXCEPT ![c] = x]
    BY <1>16 DEF worker_cleanup_join
  <2> QED BY <1>16, <2>1, <2>2 DEF worker_cleanup_join, poolVars
<1>17. ASSUME NEW c \in Clients, worker_cleanup_join_uncreated(c) PROVE Control'
  BY <1>17 DEF worker_cleanup_join_uncreated, poolVars, queueVars, workerVars, clientVars
<1>18. ASSUME NEW c \in Clients, NEW j \in Jobs, NEW t \in Tasks, task_new(c, j, t) PROVE Control'
  <2>1. running /\ cpc[Owner] # "init"
    BY <1>18 DEF task_new, ClientAt, Initialised
  <2>2. cpc'[Owner] \notin {"init", "stop", "join", "done"}
    BY <1>18, <2>1 DEF task_new, ClientAt
  <2>3. \A d \in Clients : cpc'[d] \in {"init", "stop", "join", "done"} => cpc'[d] = cpc[d]
    BY <1>18 DEF task_new
  <2> QED BY <1>18, <2>1, <2>2, <2>3 DEF task_new, poolVars, queueVars, workerVars
<1>19. ASSUME NEW c \in Clients, NEW j \in Jobs, task_new_fails(c, j) PROVE Control'
  BY <1>19 DEF task_new_fails, poolVars, queueVars, workerVars, clientVars
<1>20. ASSUME NEW c \in Clients, schedule_lock_fails(c) PROVE Control'
  BY <1>20 DEF schedule_lock_fails, ScheduleReturns, ClientAt, poolVars, queueVars, workerVars
<1>21. ASSUME NEW c \in Clients, wait_enter(c) PROVE Control'
  <2>1. running /\ cpc[Owner] # "init"
    BY <1>21 DEF wait_enter, ClientAt, Initialised
  <2>2. cpc'[Owner] \notin {"init", "stop", "join", "done"}
    BY <1>21, <2>1 DEF wait_enter, ClientAt
  <2>3. \A d \in Clients : cpc'[d] \in {"init", "stop", "join", "done"} => cpc'[d] = cpc[d]
    BY <1>21 DEF wait_enter
  <2> QED BY <1>21, <2>1, <2>2, <2>3 DEF wait_enter, poolVars, queueVars, workerVars
<1>22. ASSUME NEW c \in Clients, wait_spurious_wakeup(c) PROVE Control'
  <2>1. running /\ cpc[Owner] # "init"
    BY <1>22 DEF wait_spurious_wakeup, ClientAt, Initialised
  <2>2. cpc'[Owner] \notin {"init", "stop", "join", "done"}
    BY <1>22, <2>1 DEF wait_spurious_wakeup, ClientAt
  <2>3. \A d \in Clients : cpc'[d] \in {"init", "stop", "join", "done"} => cpc'[d] = cpc[d]
    BY <1>22 DEF wait_spurious_wakeup
  <2> QED BY <1>22, <2>1, <2>2, <2>3 DEF wait_spurious_wakeup, poolVars, queueVars, workerVars
<1>23. ASSUME NEW c \in Clients, quit(c) PROVE Control'
  <2>1. running /\ cpc[Owner] # "init"
    BY <1>23 DEF quit, ClientAt, Initialised
  <2>2. cpc'[Owner] \notin {"init", "stop", "join", "done"}
    BY <1>23, <2>1 DEF quit, ClientAt
  <2>3. \A d \in Clients : cpc'[d] \in {"init", "stop", "join", "done"} => cpc'[d] = cpc[d]
    BY <1>23 DEF quit
  <2> QED BY <1>23, <2>1, <2>2, <2>3 DEF quit, poolVars, queueVars, workerVars
<1>24. ASSUME NEW c \in Clients, cx_threadpool_cleanup(c) PROVE Control'
  BY <1>24 DEF cx_threadpool_cleanup, queueVars, workerVars
<1>25. ASSUME NEW c \in Clients, init_fails(c) PROVE Control'
  BY <1>25 DEF init_fails, poolVars, queueVars, workerVars, clientVars
<1>26. ASSUME NEW c \in Clients, worker_start_fails(c) PROVE Control'
  BY <1>26 DEF worker_start_fails, ClientAt, queueVars, workerVars
<1>27. CASE UNCHANGED vars
  BY <1>27 DEF vars, poolVars, queueVars, workerVars, clientVars
<1> QED
  BY <1>1, <1>2, <1>3, <1>4, <1>5, <1>6, <1>7, <1>8, <1>9, <1>10, <1>11, <1>12, <1>13,
     <1>14, <1>15, <1>16, <1>17, <1>18, <1>19, <1>20, <1>21, <1>22, <1>23, <1>24, <1>25, <1>26, <1>27
     DEF Next, WorkerStep, ClientStep, ClientCall, Terminated

\* No cell is linked twice.
QueuesDistinct ==
    \A w, v \in Workers : \A i \in 1 .. Len(queue[w]), k \in 1 .. Len(queue[v]) :
        queue[w][i] = queue[v][k] => w = v /\ i = k

\* The sets that active_tasks counts are finite.
LEMMA PlacesFinite ==
    ASSUME TypeInv
    PROVE  IsFiniteSet(Queued) /\ IsFiniteSet(Busy)
<1>1. IsFiniteSet(Tasks) /\ WorkerCount \in Nat
  BY ThreadpoolAssumption DEF ThreadpoolAssumption
<1>2. IsFiniteSet(Workers)
  BY <1>1, FS_Interval DEF Workers
<1>3. Queued \subseteq Tasks /\ Busy \subseteq Workers
  BY DEF Queued, Busy
<1> QED BY <1>1, <1>2, <1>3, FS_Subset

\* What taking a task does to the places of the cells.
LEMMA PopPlaces ==
    ASSUME TypeInv, QueuesDistinct,
           NEW w \in Workers, NEW v \in Workers, queue[v] # <<>>,
           worker_get_task(w, v)
    PROVE  LET t == Head(queue[v])
           IN  /\ t \in Queued
               /\ Queued' = Queued \ {t}
               /\ QueuesDistinct'
<1> DEFINE t == Head(queue[v])
           q == queue[v]
<1>1. q \in Seq(Tasks) /\ queue \in [Workers -> Seq(Tasks)]
  BY DEF TypeInv, TypeOK
<1>2. /\ Len(q) \in Nat /\ 1 \in 1 .. Len(q) /\ t = q[1] /\ t \in Tasks
      /\ Len(Tail(q)) = Len(q) - 1
      /\ \A i \in 1 .. Len(Tail(q)) : Tail(q)[i] = q[i + 1] /\ i + 1 \in 2 .. Len(q)
  BY <1>1
<1>3. /\ queue' = [queue EXCEPT ![v] = Tail(q)]
      /\ queue'[v] = Tail(q)
      /\ \A u \in Workers : u # v => queue'[u] = queue[u]
  BY <1>1 DEF worker_get_task
<1> HIDE DEF q, t
<1>4. t \in Queued
  BY <1>2 DEF Queued, q
<1>5. ASSUME NEW x \in Queued' PROVE x \in Queued /\ x # t
  <2>1. PICK u \in Workers : \E i \in 1 .. Len(queue'[u]) : queue'[u][i] = x
    BY <1>5 DEF Queued
  <2>2. PICK i \in 1 .. Len(queue'[u]) : queue'[u][i] = x
    BY <2>1
  <2>3. CASE u = v
    <3>1. i + 1 \in 1 .. Len(q) /\ q[i + 1] = x /\ i + 1 # 1
      BY <1>2, <1>3, <2>2, <2>3
    <3> QED BY <1>2, <1>5, <3>1, <2>3 DEF Queued, q, QueuesDistinct
  <2>4. CASE u # v
    BY <1>2, <1>3, <1>5, <2>2, <2>4 DEF Queued, q, QueuesDistinct
  <2> QED BY <2>3, <2>4
<1>6. ASSUME NEW x \in Queued, x # t PROVE x \in Queued'
  <2>1. PICK u \in Workers : \E i \in 1 .. Len(queue[u]) : queue[u][i] = x
    BY <1>6 DEF Queued
  <2>2. PICK i \in 1 .. Len(queue[u]) : queue[u][i] = x
    BY <2>1
  <2>3. CASE u = v
    <3>1. i # 1
      BY <1>2, <1>6, <2>2, <2>3 DEF q
    <3>2. i - 1 \in 1 .. Len(Tail(q)) /\ (i - 1) + 1 = i
      BY <1>2, <2>2, <2>3, <3>1 DEF q
    <3>3. Tail(q)[i - 1] = q[(i - 1) + 1]
      BY <1>2, <3>2
    <3>4. i - 1 \in 1 .. Len(queue'[v]) /\ queue'[v][i - 1] = x
      BY <1>3, <2>2, <2>3, <3>2, <3>3 DEF q
    <3> QED BY <1>6, <3>4 DEF Queued
  <2>4. CASE u # v
    BY <1>3, <1>6, <2>2, <2>4 DEF Queued
  <2> QED BY <2>3, <2>4
<1>7. QueuesDistinct'
  <2> SUFFICES ASSUME NEW a \in Workers, NEW b \in Workers,
                      NEW i \in 1 .. Len(queue'[a]), NEW k \in 1 .. Len(queue'[b]),
                      queue'[a][i] = queue'[b][k]
               PROVE  a = b /\ i = k
    BY DEF QueuesDistinct
  <2>1. CASE a = v /\ b = v
    BY <1>2, <1>3, <2>1 DEF q, QueuesDistinct
  <2>2. CASE a = v /\ b # v
    BY <1>2, <1>3, <2>2 DEF q, QueuesDistinct
  <2>3. CASE a # v /\ b = v
    BY <1>2, <1>3, <2>3 DEF q, QueuesDistinct
  <2>4. CASE a # v /\ b # v
    BY <1>3, <2>4 DEF QueuesDistinct
  <2> QED BY <2>1, <2>2, <2>3, <2>4
<1>8. Queued' = Queued \ {t}
  BY <1>5, <1>6
<1> QED BY <1>4, <1>7, <1>8 DEF t

\* What linking a task into a queue does to the places of the cells.
LEMMA PushPlaces ==
    ASSUME TypeInv, QueuesDistinct,
           NEW w \in Workers, NEW t \in Tasks, t \notin Queued,
           queue' = [queue EXCEPT ![w] = Append(@, t)]
    PROVE  Queued' = Queued \cup {t} /\ QueuesDistinct'
<1> DEFINE q == queue[w]
<1>1. q \in Seq(Tasks) /\ queue \in [Workers -> Seq(Tasks)]
  BY DEF TypeInv, TypeOK
<1>2. /\ Len(q) \in Nat
      /\ Len(Append(q, t)) = Len(q) + 1
      /\ \A i \in 1 .. Len(q) : Append(q, t)[i] = q[i]
      /\ Append(q, t)[Len(q) + 1] = t
  BY <1>1
<1>3. /\ queue'[w] = Append(q, t)
      /\ \A u \in Workers : u # w => queue'[u] = queue[u]
  BY <1>1
<1> HIDE DEF q
<1>4. ASSUME NEW x \in Queued' PROVE x \in Queued \cup {t}
  <2>1. PICK u \in Workers : \E i \in 1 .. Len(queue'[u]) : queue'[u][i] = x
    BY <1>4 DEF Queued
  <2>2. PICK i \in 1 .. Len(queue'[u]) : queue'[u][i] = x
    BY <2>1
  <2>3. CASE u = w /\ i = Len(q) + 1
    BY <1>2, <1>3, <2>2, <2>3
  <2>4. CASE u = w /\ i # Len(q) + 1
    <3>1. i \in 1 .. Len(q) /\ q[i] = x
      BY <1>2, <1>3, <2>2, <2>4
    <3> QED BY <1>4, <3>1, <2>4 DEF Queued, q
  <2>5. CASE u # w
    BY <1>3, <1>4, <2>2, <2>5 DEF Queued
  <2> QED BY <2>3, <2>4, <2>5
<1>5. ASSUME NEW x \in Queued PROVE x \in Queued'
  <2>1. PICK u \in Workers : \E i \in 1 .. Len(queue[u]) : queue[u][i] = x
    BY <1>5 DEF Queued
  <2>2. PICK i \in 1 .. Len(queue[u]) : queue[u][i] = x
    BY <2>1
  <2>3. i \in 1 .. Len(queue'[u]) /\ queue'[u][i] = x
    BY <1>2, <1>3, <2>2 DEF q
  <2> QED BY <1>5, <2>3 DEF Queued
<1>6. t \in Queued'
  <2>1. Len(q) + 1 \in 1 .. Len(queue'[w]) /\ queue'[w][Len(q) + 1] = t
    BY <1>2, <1>3
  <2> QED BY <2>1 DEF Queued
<1>7. QueuesDistinct'
  <2> SUFFICES ASSUME NEW a \in Workers, NEW b \in Workers,
                      NEW i \in 1 .. Len(queue'[a]), NEW k \in 1 .. Len(queue'[b]),
                      queue'[a][i] = queue'[b][k]
               PROVE  a = b /\ i = k
    BY DEF QueuesDistinct
  <2>1. ASSUME NEW u \in Workers, NEW n \in 1 .. Len(queue'[u])
        PROVE  \/ u = w /\ n = Len(q) + 1 /\ queue'[u][n] = t
               \/ /\ n \in 1 .. Len(queue[u])
                  /\ queue'[u][n] = queue[u][n]
                  /\ queue[u][n] \in Queued
    <3>1. CASE u = w /\ n = Len(q) + 1
      BY <1>2, <1>3, <3>1
    <3>2. CASE ~(u = w /\ n = Len(q) + 1)
      <4>1. n \in 1 .. Len(queue[u]) /\ queue'[u][n] = queue[u][n]
        BY <1>2, <1>3, <2>1, <3>2 DEF q
      <4>2. queue[u] \in Seq(Tasks)
        BY <1>1
      <4>3. queue[u][n] \in Tasks
        BY <4>1, <4>2
      <4> QED BY <4>1, <4>3 DEF Queued
    <3> QED BY <3>1, <3>2
  <2> QED BY <2>1 DEF QueuesDistinct
<1> QED BY <1>4, <1>5, <1>6, <1>7

\* The parts of TaskOwnership that are not about queues.
HoldersDistinct ==
    /\ \A w, v \in Workers :
          wpc[w] \in {"run", "free"} /\ wpc[v] \in {"run", "free"} =>
              (wtask[w] = wtask[v] => w = v)
    /\ \A c, d \in Clients :
          cpc[c] \in {"scan", "lock"} /\ cpc[d] \in {"scan", "lock"} =>
              (ctask[c] = ctask[d] => c = d)
\* Each cell in use is at one place.
Partition ==
    /\ Queued \cap Held = {} /\ Queued \cap Filling = {} /\ Held \cap Filling = {}
    /\ Queued \cup Held \cup Filling = {t \in Tasks : task[t] # NULL}

\* TaskOwnership is the conjunction of its named parts.
LEMMA OwnershipParts ==
    TaskOwnership <=> (Protected => QueuesDistinct /\ HoldersDistinct /\ Partition)
BY DEF TaskOwnership, QueuesDistinct, HoldersDistinct, Partition

\* A step that leaves the cells, the queues and the busy workers alone keeps
\* the places and the count.
LEMMA Frame ==
    ASSUME PlaceInv, TypeInv',
           Protected' => Protected,
           UNCHANGED <<active_tasks, queue, task, ctask>>,
           \A w \in Workers :
              /\ wpc'[w] \in {"run", "free"} <=> wpc[w] \in {"run", "free"}
              /\ wpc'[w] = "dec" <=> wpc[w] = "dec"
              /\ wpc[w] \in {"run", "free"} => wtask'[w] = wtask[w],
           \A c \in Clients : cpc'[c] \in {"scan", "lock"} <=> cpc[c] \in {"scan", "lock"}
    PROVE  TaskOwnership' /\ ActiveAccounting'
<1> USE DEF Protected
<1>1. Queued' = Queued /\ Held' = Held /\ Filling' = Filling /\ Busy' = Busy
  <2>1. Queued' = Queued
    BY DEF Queued
  <2>2. Held' = Held
    BY DEF Held
  <2>3. Filling' = Filling
    BY DEF Filling
  <2>4. Busy' = Busy
    BY DEF Busy
  <2> QED BY <2>1, <2>2, <2>3, <2>4
<1>2. CASE ~Protected
  BY <1>2 DEF TaskOwnership, ActiveAccounting
<1>3. CASE Protected
  <2>1. QueuesDistinct /\ HoldersDistinct /\ Partition
    BY <1>3, OwnershipParts DEF PlaceInv
  <2>2. QueuesDistinct'
    BY <2>1 DEF QueuesDistinct
  <2>3. HoldersDistinct'
    BY <2>1 DEF HoldersDistinct
  <2>4. Partition'
    BY <1>1, <2>1 DEF Partition
  <2>5. TaskOwnership'
    BY <2>2, <2>3, <2>4 DEF TaskOwnership, QueuesDistinct, HoldersDistinct, Partition
  <2>6. ActiveAccounting'
    BY <1>1, <1>3 DEF PlaceInv, ActiveAccounting
  <2> QED BY <2>5, <2>6
<1> QED BY <1>2, <1>3

\* Taking a task moves it from a queue to a worker that was not busy.
LEMMA PopKeepsPlaces ==
    ASSUME PlaceInv, TypeInv', Protected,
           NEW w \in Workers, NEW v \in Workers, queue[v] # <<>>,
           wpc[w] \notin {"run", "free", "dec"},
           worker_get_task(w, v),
           UNCHANGED <<destroyed, active_tasks, task, ctask, cpc>>
    PROVE  TaskOwnership' /\ ActiveAccounting'
<1> USE DEF Protected
<1> DEFINE t == Head(queue[v])
<1>1. QueuesDistinct /\ HoldersDistinct /\ Partition
  BY OwnershipParts DEF PlaceInv
<1>2. t \in Queued /\ Queued' = Queued \ {t} /\ QueuesDistinct'
  BY <1>1, PopPlaces DEF PlaceInv
<1>3. t \in Tasks /\ t \notin Held /\ t \notin Filling
  BY <1>1, <1>2 DEF Partition, Queued
<1>4. /\ wpc'[w] = "run" /\ wtask'[w] = t
      /\ \A u \in Workers : u # w => wpc'[u] = wpc[u] /\ wtask'[u] = wtask[u]
  BY DEF worker_get_task, PlaceInv, TypeInv, TypeOK
<1> HIDE DEF t
<1>5. Held' = Held \cup {t}
  BY <1>3, <1>4 DEF Held
<1>6. Filling' = Filling
  BY DEF Filling
<1>7. Busy' = Busy \cup {w} /\ w \notin Busy
  BY <1>4 DEF Busy
<1>8. HoldersDistinct'
  <2>1. ASSUME NEW u \in Workers, u # w, wpc[u] \in {"run", "free"} PROVE wtask[u] # t
    BY <1>3, <2>1 DEF Held
  <2> QED BY <1>1, <1>4, <2>1 DEF HoldersDistinct
<1>9. Partition'
  BY <1>1, <1>2, <1>3, <1>5, <1>6 DEF Partition
<1>10. TaskOwnership'
  BY <1>2, <1>8, <1>9 DEF TaskOwnership, QueuesDistinct, HoldersDistinct, Partition
<1>11. Cardinality(Queued') = Cardinality(Queued) - 1
  BY <1>2, PlacesFinite, FS_RemoveElement DEF PlaceInv
<1>12. Cardinality(Busy') = Cardinality(Busy) + 1
  BY <1>7, PlacesFinite, FS_AddElement DEF PlaceInv
<1>13. Cardinality(Queued) \in Nat /\ Cardinality(Busy) \in Nat
  BY PlacesFinite, FS_CardinalityType DEF PlaceInv
<1>14. ActiveAccounting'
  BY <1>11, <1>12, <1>13 DEF ActiveAccounting, PlaceInv
<1> QED BY <1>10, <1>14

\* PlaceInv holds in the initial state.
LEMMA PlaceInit == Init => PlaceInv
<1> SUFFICES ASSUME Init PROVE PlaceInv
  OBVIOUS
<1>1. TypeInv /\ Control
  BY TypeCorrectInit, ControlInit
<1>2. Queued = {}
  BY DEF Init, Queued
<1>3. Held = {}
  BY DEF Init, Held
<1>4. Filling = {} /\ \A c \in Clients : cpc[c] \notin {"scan", "lock"}
  BY DEF Init, Filling
<1>5. Busy = {} 
  BY DEF Init, Busy
<1>6. QueuesDistinct
  BY DEF Init, QueuesDistinct
<1>7. HoldersDistinct
  BY <1>4 DEF Init, HoldersDistinct
<1>8. Partition
  BY <1>2, <1>3, <1>4 DEF Init, Partition
<1>9. ActiveAccounting
  BY <1>2, <1>5, FS_EmptySet DEF Init, ActiveAccounting
<1> QED BY <1>1, <1>6, <1>7, <1>8, <1>9, OwnershipParts DEF PlaceInv

\* Every action keeps the cells in their places and the count right.
LEMMA PlaceNext == PlaceInv /\ [Next]_vars => PlaceInv'
<1> SUFFICES ASSUME PlaceInv, [Next]_vars PROVE PlaceInv'
  OBVIOUS
<1> USE DEF Protected
<1>t. TypeInv' /\ Control'
  BY TypeCorrectNext, ControlNext DEF PlaceInv
<1> SUFFICES TaskOwnership' /\ ActiveAccounting'
  BY <1>t DEF PlaceInv
<1>u. TypeInv /\ Control /\ TypeOK /\ Locals
  BY DEF PlaceInv, TypeInv
<1>p. Protected => QueuesDistinct /\ HoldersDistinct /\ Partition
  BY OwnershipParts DEF PlaceInv
<1>s. ASSUME ~Protected' PROVE TaskOwnership' /\ ActiveAccounting'
  BY <1>s DEF TaskOwnership, ActiveAccounting
<1>1. ASSUME NEW w \in Workers, worker_run_loop(w) PROVE TaskOwnership' /\ ActiveAccounting'
  BY <1>1, <1>t, <1>u, Frame DEF worker_run_loop, WorkerAt, TypeOK, poolVars, queueVars, clientVars
<1>2. ASSUME NEW w \in Workers, worker_find_task(w) PROVE TaskOwnership' /\ ActiveAccounting'
  <2> DEFINE v == candidate(w)
  <2>1. v \in Workers
    BY CandidateIsWorker, <1>u
  <2>2. CASE queue[v] = <<>>
    <3>1. NextCandidate(w) /\ UNCHANGED <<queue, queue_length, wtask>>
      BY <1>2, <2>2 DEF worker_find_task
    <3>2. \A u \in Workers : wpc'[u] # wpc[u] => wpc[u] = "find" /\ wpc'[u] = "wait"
      BY <1>2, <1>u, <3>1 DEF worker_find_task, WorkerAt, NextCandidate, TypeOK
    <3> QED BY <1>2, <1>t, <3>1, <3>2, Frame DEF worker_find_task, poolVars, clientVars
  <2>3. CASE queue[v] # <<>> /\ Protected
    <3>1. worker_get_task(w, v)
      BY <1>2, <2>3 DEF worker_find_task
    <3>2. wpc[w] \notin {"run", "free", "dec"}
      BY <1>2 DEF worker_find_task, WorkerAt
    <3>3. UNCHANGED <<destroyed, active_tasks, task, ctask, cpc>>
      BY <1>2 DEF worker_find_task, poolVars, clientVars
    <3> QED BY <1>t, <2>1, <2>3, <3>1, <3>2, <3>3, PopKeepsPlaces
  <2>4. CASE ~Protected
    BY <1>2, <1>s, <2>4 DEF worker_find_task, poolVars
  <2> QED BY <2>2, <2>3, <2>4
<1>3. ASSUME NEW w \in Workers, worker_find_task_unlocked(w) PROVE TaskOwnership' /\ ActiveAccounting'
  BY <1>3, <1>s DEF worker_find_task_unlocked, queueVars
<1>4. ASSUME NEW w \in Workers, worker_get_task_unlocked(w) PROVE TaskOwnership' /\ ActiveAccounting'
  BY <1>4, <1>s, <1>u DEF worker_get_task_unlocked, WorkerAt, Control
<1>5. ASSUME NEW w \in Workers, worker_wait_for_task(w) PROVE TaskOwnership' /\ ActiveAccounting'
  <2>2. CASE queue[w] = <<>>
    <3>1. WaitOrLeave(w) /\ UNCHANGED <<queue, queue_length, wtask>>
      BY <1>5, <2>2 DEF worker_wait_for_task
    <3>2. \A u \in Workers : wpc'[u] # wpc[u] => wpc[u] = "wait" /\ wpc'[u] \in {"asleep", "loop"}
      BY <1>5, <1>u, <3>1 DEF worker_wait_for_task, WorkerAt, WaitOrLeave, TypeOK
    <3> QED BY <1>5, <1>t, <3>1, <3>2, Frame DEF worker_wait_for_task, poolVars, clientVars
  <2>3. CASE queue[w] # <<>> /\ Protected
    <3>1. worker_get_task(w, w)
      BY <1>5, <2>3 DEF worker_wait_for_task
    <3>2. wpc[w] \notin {"run", "free", "dec"}
      BY <1>5 DEF worker_wait_for_task, WorkerAt
    <3>3. UNCHANGED <<destroyed, active_tasks, task, ctask, cpc>>
      BY <1>5 DEF worker_wait_for_task, poolVars, clientVars
    <3> QED BY <1>t, <2>3, <3>1, <3>2, <3>3, PopKeepsPlaces
  <2>4. CASE ~Protected
    BY <1>5, <1>s, <2>4 DEF worker_wait_for_task, poolVars
  <2> QED BY <2>2, <2>3, <2>4
<1>6. ASSUME NEW w \in Workers, worker_run_execute(w) PROVE TaskOwnership' /\ ActiveAccounting'
  <2>1. \A u \in Workers : wpc'[u] # wpc[u] => wpc[u] = "run" /\ wpc'[u] = "free"
    BY <1>6, <1>u DEF worker_run_execute, WorkerAt, TypeOK
  <2> QED BY <1>6, <1>t, <2>1, Frame DEF worker_run_execute, poolVars, queueVars, clientVars
<1>7. ASSUME NEW w \in Workers, task_free(w) PROVE TaskOwnership' /\ ActiveAccounting'
  <2> DEFINE t == wtask[w]
  <2>0. CASE ~Protected
    BY <1>7, <1>s, <2>0 DEF task_free, queueVars
  <2>1. CASE Protected
    <3>1. QueuesDistinct /\ HoldersDistinct /\ Partition
      BY <1>p, <2>1
    <3>2. /\ wpc[w] = "free" /\ t \in Tasks /\ t \in Held
          /\ wpc'[w] = "dec"
          /\ \A u \in Workers : u # w => wpc'[u] = wpc[u] /\ wtask'[u] = wtask[u]
      BY <1>7, <1>u DEF task_free, WorkerAt, TypeOK, Locals, Held
    <3>3. /\ task'[t] = NULL
          /\ \A x \in Tasks : x # t => task'[x] = task[x]
      BY <1>7, <1>u, <3>2 DEF task_free, TypeOK
    <3> HIDE DEF t
    <3>4. Held' = Held \ {t}
      BY <3>1, <3>2 DEF Held, HoldersDistinct, t
    <3>5. Queued' = Queued /\ Filling' = Filling /\ Busy' = Busy
      <4>1. Queued' = Queued
        BY <1>7 DEF task_free, queueVars, Queued
      <4>2. Filling' = Filling
        BY <1>7 DEF task_free, clientVars, Filling
      <4>3. Busy' = Busy
        BY <3>2 DEF Busy
      <4> QED BY <4>1, <4>2, <4>3
    <3>6. QueuesDistinct'
      BY <1>7, <3>1 DEF task_free, queueVars, QueuesDistinct
    <3>7. HoldersDistinct'
      BY <1>7, <3>1, <3>2 DEF task_free, clientVars, HoldersDistinct
    <3>8. Partition'
      BY <3>1, <3>2, <3>3, <3>4, <3>5 DEF Partition
    <3>9. TaskOwnership'
      BY <3>6, <3>7, <3>8 DEF TaskOwnership, QueuesDistinct, HoldersDistinct, Partition
    <3>10. ActiveAccounting'
      BY <1>7, <2>1, <3>5 DEF task_free, poolVars, PlaceInv, ActiveAccounting
    <3> QED BY <3>9, <3>10
  <2> QED BY <2>0, <2>1
<1>8. ASSUME NEW w \in Workers, worker_run_done(w) PROVE TaskOwnership' /\ ActiveAccounting'
  <2>0. CASE ~Protected
    BY <1>8, <1>s, <2>0 DEF worker_run_done, queueVars
  <2>1. CASE Protected
    <3>1. \A c \in Clients : cpc'[c] # cpc[c] => cpc[c] = "asleep" /\ cpc'[c] = "wait"
      BY <1>8, <1>u DEF worker_run_done, SignalWaiter, TypeOK
    <3>2. /\ wpc[w] = "dec" /\ wpc'[w] = "loop"
          /\ \A u \in Workers : u # w => wpc'[u] = wpc[u]
      BY <1>8, <1>u DEF worker_run_done, WorkerAt, TypeOK
    <3>3. Busy' = Busy \ {w} /\ w \in Busy
      BY <3>2 DEF Busy
    <3>4. Queued' = Queued
      BY <1>8 DEF worker_run_done, queueVars, Queued
    <3>5. Held' = Held
      BY <1>8, <3>2 DEF worker_run_done, Held
    <3>6. Filling' = Filling
      BY <1>8, <3>1 DEF worker_run_done, Filling
    <3>7. QueuesDistinct /\ HoldersDistinct /\ Partition
      BY <1>p, <2>1
    <3>8. QueuesDistinct'
      BY <1>8, <3>7 DEF worker_run_done, queueVars, QueuesDistinct
    <3>9. HoldersDistinct'
      BY <1>8, <3>1, <3>2, <3>7 DEF worker_run_done, HoldersDistinct
    <3>10. Partition'
      BY <1>8, <3>4, <3>5, <3>6, <3>7 DEF worker_run_done, Partition
    <3>11. TaskOwnership'
      BY <3>8, <3>9, <3>10 DEF TaskOwnership, QueuesDistinct, HoldersDistinct, Partition
    <3>12. Cardinality(Busy') = Cardinality(Busy) - 1
      BY <1>u, <3>3, PlacesFinite, FS_RemoveElement
    <3>13. Cardinality(Queued) \in Nat /\ Cardinality(Busy) \in Nat
      BY <1>u, PlacesFinite, FS_CardinalityType
    <3>14. active_tasks' = active_tasks - 1 /\ active_tasks = Cardinality(Queued) + Cardinality(Busy)
      BY <1>8, <2>1 DEF worker_run_done, PlaceInv, ActiveAccounting
    <3>15. ActiveAccounting'
      BY <3>4, <3>12, <3>13, <3>14 DEF ActiveAccounting
    <3> QED BY <3>11, <3>15
  <2> QED BY <2>0, <2>1
<1>9. ASSUME NEW w \in Workers, worker_spurious_wakeup(w) PROVE TaskOwnership' /\ ActiveAccounting'
  BY <1>9, <1>t, <1>u, Frame DEF worker_spurious_wakeup, WorkerAt, TypeOK, poolVars, queueVars, clientVars

<1>10. ASSUME NEW c \in Clients, worker_start(c) PROVE TaskOwnership' /\ ActiveAccounting'
  <2>1. c = Owner /\ cindex[c] \in Workers /\ wpc[cindex[c]] = "none"
    BY <1>10, <1>u DEF worker_start, ClientAt, Control, TypeOK, Workers
  <2>2. \A u \in Workers : wpc'[u] # wpc[u] => wpc[u] = "none" /\ wpc'[u] = "loop"
    BY <1>10, <1>u, <2>1 DEF worker_start, TypeOK
  <2>3. \A d \in Clients : cpc'[d] # cpc[d] => cpc[d] = "init" /\ cpc'[d] = "idle"
    BY <1>10, <1>u DEF worker_start, ClientAt, TypeOK
  <2> QED BY <1>10, <1>t, <2>2, <2>3, Frame DEF worker_start, poolVars, queueVars
<1>11. ASSUME NEW c \in Clients, schedule_scan(c) PROVE TaskOwnership' /\ ActiveAccounting'
  <2>1. \A d \in Clients : cpc'[d] # cpc[d] => cpc[d] = "scan" /\ cpc'[d] = "lock"
    BY <1>11, <1>u DEF schedule_scan, ClientAt, TypeOK
  <2> QED BY <1>11, <1>t, <2>1, Frame DEF schedule_scan, poolVars, queueVars, workerVars
<1>12. ASSUME NEW c \in Clients, schedule_enqueue(c) PROVE TaskOwnership' /\ ActiveAccounting'
  <2> DEFINE t == ctask[c]
  <2>0. CASE ~Protected
    BY <1>12, <1>s, <2>0 DEF schedule_enqueue
  <2>1. CASE Protected
    <3>1. QueuesDistinct /\ HoldersDistinct /\ Partition
      BY <1>p, <2>1
    <3>2. cworker[c] \in Workers /\ t \in Tasks /\ cpc[c] = "lock"
      BY <1>12, <1>u DEF schedule_enqueue, ClientAt, Locals, TypeOK
    <3>3. t \in Filling
      BY <3>2 DEF Filling
    <3>4. t \notin Queued /\ t \notin Held
      BY <3>1, <3>3 DEF Partition
    <3>5. queue' = [queue EXCEPT ![cworker[c]] = Append(@, t)]
      BY <1>12 DEF schedule_enqueue
    <3>6. /\ cpc'[c] = "publish"
          /\ \A d \in Clients : d # c => cpc'[d] = cpc[d] /\ ctask'[d] = ctask[d]
      BY <1>12, <1>u DEF schedule_enqueue, TypeOK
    <3> HIDE DEF t
    <3>7. Queued' = Queued \cup {t} /\ QueuesDistinct'
      BY <1>u, <3>1, <3>2, <3>4, <3>5, PushPlaces
    <3>8. Filling' = Filling \ {t}
      BY <3>1, <3>2, <3>6 DEF Filling, HoldersDistinct, t
    <3>9. Held' = Held
      BY <1>12 DEF schedule_enqueue, workerVars, Held
    <3>10. Busy' = Busy
      BY <1>12 DEF schedule_enqueue, workerVars, Busy
    <3>11. HoldersDistinct'
      BY <1>12, <3>1, <3>6 DEF schedule_enqueue, workerVars, HoldersDistinct
    <3>12. Partition'
      BY <1>12, <3>1, <3>3, <3>4, <3>7, <3>8, <3>9 DEF schedule_enqueue, Partition
    <3>13. TaskOwnership'
      BY <3>7, <3>11, <3>12 DEF TaskOwnership, QueuesDistinct, HoldersDistinct, Partition
    <3>14. Cardinality(Queued') = Cardinality(Queued) + 1
      BY <1>u, <3>4, <3>7, PlacesFinite, FS_AddElement
    <3>15. Cardinality(Queued) \in Nat /\ Cardinality(Busy) \in Nat
      BY <1>u, PlacesFinite, FS_CardinalityType
    <3>16. active_tasks' = active_tasks + 1 /\ active_tasks = Cardinality(Queued) + Cardinality(Busy)
      BY <1>12, <2>1 DEF schedule_enqueue, CountActive, PlaceInv, ActiveAccounting
    <3>17. ActiveAccounting'
      BY <3>10, <3>14, <3>15, <3>16 DEF ActiveAccounting
    <3> QED BY <3>13, <3>17
  <2> QED BY <2>0, <2>1
<1>13. ASSUME NEW c \in Clients, schedule_publish(c) PROVE TaskOwnership' /\ ActiveAccounting'
  <2>1. \A u \in Workers : wpc'[u] # wpc[u] => wpc[u] = "asleep" /\ wpc'[u] = "wait"
    BY <1>13, <1>u DEF schedule_publish, SignalWorker, TypeOK
  <2>2. \A d \in Clients : cpc'[d] # cpc[d] => cpc[d] = "publish" /\ cpc'[d] = "idle"
    BY <1>13, <1>u DEF schedule_publish, ScheduleReturns, ClientAt, TypeOK
  <2> QED BY <1>13, <1>t, <2>1, <2>2, Frame DEF schedule_publish, poolVars
<1>14. ASSUME NEW c \in Clients, cx_threadpool_wait(c) PROVE TaskOwnership' /\ ActiveAccounting'
  <2>1. \A d \in Clients : cpc'[d] # cpc[d] => cpc[d] = "wait" /\ cpc'[d] \in {"idle", "asleep"}
    BY <1>14, <1>u DEF cx_threadpool_wait, ClientAt, TypeOK
  <2> QED BY <1>14, <1>t, <2>1, Frame DEF cx_threadpool_wait, poolVars, queueVars, workerVars
<1>15. ASSUME NEW c \in Clients, worker_cleanup(c) PROVE TaskOwnership' /\ ActiveAccounting'
  <2>1. \A u \in Workers : wpc'[u] # wpc[u] => wpc[u] = "asleep" /\ wpc'[u] = "wait"
    BY <1>15, <1>u DEF worker_cleanup, SignalWorker, TypeOK
  <2>2. \A d \in Clients : cpc'[d] # cpc[d] => cpc[d] = "stop" /\ cpc'[d] = "join"
    BY <1>15, <1>u DEF worker_cleanup, ClientAt, TypeOK
  <2> QED BY <1>15, <2>1, <2>2, <1>t, Frame DEF worker_cleanup, poolVars, queueVars
<1>16. ASSUME NEW c \in Clients, worker_cleanup_join(c) PROVE TaskOwnership' /\ ActiveAccounting'
  <2>1. destroyed' # {}
    BY <1>16 DEF worker_cleanup_join
  <2> QED BY <1>s, <2>1
<1>17. ASSUME NEW c \in Clients, worker_cleanup_join_uncreated(c) PROVE TaskOwnership' /\ ActiveAccounting'
  BY <1>17, <1>t, Frame DEF worker_cleanup_join_uncreated, poolVars, queueVars, workerVars, clientVars
<1>18. ASSUME NEW c \in Clients, NEW j \in Jobs, NEW t \in Tasks, task_new(c, j, t) PROVE TaskOwnership' /\ ActiveAccounting'
  <2>0. CASE ~Protected
    BY <1>18, <1>s, <2>0 DEF task_new, queueVars
  <2>1. CASE Protected
    <3>1. QueuesDistinct /\ HoldersDistinct /\ Partition
      BY <1>p, <2>1
    <3>2. t \notin Queued /\ t \notin Held /\ t \notin Filling
      BY <1>18, <3>1 DEF task_new, Partition
    <3>3. /\ task'[t] # NULL
          /\ \A x \in Tasks : x # t => task'[x] = task[x]
      BY <1>18, <1>u, NullIsNoTask DEF task_new, TypeOK
    <3>4. /\ cpc[c] = "idle" /\ cpc'[c] = "scan" /\ ctask'[c] = t
          /\ \A d \in Clients : d # c => cpc'[d] = cpc[d] /\ ctask'[d] = ctask[d]
      BY <1>18, <1>u DEF task_new, ClientAt, TypeOK
    <3>5. Filling' = Filling \cup {t}
      BY <3>4 DEF Filling
    <3>6. Queued' = Queued /\ Held' = Held /\ Busy' = Busy
      <4>1. Queued' = Queued
        BY <1>18 DEF task_new, queueVars, Queued
      <4>2. Held' = Held
        BY <1>18 DEF task_new, workerVars, Held
      <4>3. Busy' = Busy
        BY <1>18 DEF task_new, workerVars, Busy
      <4> QED BY <4>1, <4>2, <4>3
    <3>7. QueuesDistinct'
      BY <1>18, <3>1 DEF task_new, queueVars, QueuesDistinct
    <3>8. HoldersDistinct'
      <4>1. \A d \in Clients : cpc[d] \in {"scan", "lock"} => ctask[d] # t
        BY <3>2 DEF Filling
      <4> QED BY <1>18, <3>1, <3>4, <4>1 DEF task_new, workerVars, HoldersDistinct
    <3>9. Partition'
      BY <3>1, <3>2, <3>3, <3>5, <3>6 DEF Partition
    <3>10. TaskOwnership'
      BY <3>7, <3>8, <3>9 DEF TaskOwnership, QueuesDistinct, HoldersDistinct, Partition
    <3>11. ActiveAccounting'
      BY <1>18, <2>1, <3>6 DEF task_new, poolVars, PlaceInv, ActiveAccounting
    <3> QED BY <3>10, <3>11
  <2> QED BY <2>0, <2>1
<1>19. ASSUME NEW c \in Clients, NEW j \in Jobs, task_new_fails(c, j) PROVE TaskOwnership' /\ ActiveAccounting'
  BY <1>19, <1>t, Frame DEF task_new_fails, poolVars, queueVars, workerVars, clientVars
<1>20. ASSUME NEW c \in Clients, schedule_lock_fails(c) PROVE TaskOwnership' /\ ActiveAccounting'
  <2> DEFINE t == ctask[c]
  <2>0. CASE ~Protected
    BY <1>20, <1>s, <2>0 DEF schedule_lock_fails, queueVars
  <2>1. CASE Protected
    <3>1. QueuesDistinct /\ HoldersDistinct /\ Partition
      BY <1>p, <2>1
    <3>2. t \in Tasks /\ cpc[c] = "lock" /\ t \in Filling
      BY <1>20, <1>u DEF schedule_lock_fails, ClientAt, Locals, Filling
    <3>3. /\ task'[t] = NULL
          /\ \A x \in Tasks : x # t => task'[x] = task[x]
      BY <1>20, <1>u, <3>2 DEF schedule_lock_fails, TypeOK
    <3>4. /\ cpc'[c] = "idle"
          /\ \A d \in Clients : d # c => cpc'[d] = cpc[d] /\ ctask'[d] = ctask[d]
      BY <1>20, <1>u DEF schedule_lock_fails, ScheduleReturns, TypeOK
    <3> HIDE DEF t
    <3>5. Filling' = Filling \ {t}
      BY <3>1, <3>2, <3>4 DEF Filling, HoldersDistinct, t
    <3>6. Queued' = Queued /\ Held' = Held /\ Busy' = Busy
      <4>1. Queued' = Queued
        BY <1>20 DEF schedule_lock_fails, queueVars, Queued
      <4>2. Held' = Held
        BY <1>20 DEF schedule_lock_fails, workerVars, Held
      <4>3. Busy' = Busy
        BY <1>20 DEF schedule_lock_fails, workerVars, Busy
      <4> QED BY <4>1, <4>2, <4>3
    <3>7. QueuesDistinct'
      BY <1>20, <3>1 DEF schedule_lock_fails, queueVars, QueuesDistinct
    <3>8. HoldersDistinct'
      BY <1>20, <3>1, <3>4 DEF schedule_lock_fails, workerVars, HoldersDistinct
    <3>9. Partition'
      BY <3>1, <3>2, <3>3, <3>5, <3>6 DEF Partition
    <3>10. TaskOwnership'
      BY <3>7, <3>8, <3>9 DEF TaskOwnership, QueuesDistinct, HoldersDistinct, Partition
    <3>11. ActiveAccounting'
      BY <1>20, <2>1, <3>6 DEF schedule_lock_fails, poolVars, PlaceInv, ActiveAccounting
    <3> QED BY <3>10, <3>11
  <2> QED BY <2>0, <2>1
<1>21. ASSUME NEW c \in Clients, wait_enter(c) PROVE TaskOwnership' /\ ActiveAccounting'
  BY <1>21, <1>t, <1>u, Frame DEF wait_enter, ClientAt, TypeOK, poolVars, queueVars, workerVars
<1>22. ASSUME NEW c \in Clients, wait_spurious_wakeup(c) PROVE TaskOwnership' /\ ActiveAccounting'
  BY <1>22, <1>t, <1>u, Frame DEF wait_spurious_wakeup, ClientAt, TypeOK, poolVars, queueVars, workerVars
<1>23. ASSUME NEW c \in Clients, quit(c) PROVE TaskOwnership' /\ ActiveAccounting'
  BY <1>23, <1>t, <1>u, Frame DEF quit, ClientAt, TypeOK, poolVars, queueVars, workerVars
<1>24. ASSUME NEW c \in Clients, cx_threadpool_cleanup(c) PROVE TaskOwnership' /\ ActiveAccounting'
  <2>1. \A d \in Clients : cpc'[d] # cpc[d] => cpc[d] \in {"idle"} /\ cpc'[d] = "stop"
    BY <1>24, <1>u DEF cx_threadpool_cleanup, ClientAt, TypeOK
  <2> QED BY <1>24, <2>1, <1>t, Frame DEF cx_threadpool_cleanup, queueVars, workerVars
<1>25. ASSUME NEW c \in Clients, init_fails(c) PROVE TaskOwnership' /\ ActiveAccounting'
  BY <1>25, <1>t, Frame DEF init_fails, poolVars, queueVars, workerVars, clientVars
<1>26. ASSUME NEW c \in Clients, worker_start_fails(c) PROVE TaskOwnership' /\ ActiveAccounting'
  <2>1. \A d \in Clients : cpc'[d] # cpc[d] => cpc[d] \in {"init"} /\ cpc'[d] = "stop"
    BY <1>26, <1>u DEF worker_start_fails, ClientAt, TypeOK
  <2> QED BY <1>26, <2>1, <1>t, Frame DEF worker_start_fails, queueVars, workerVars
<1>27. CASE UNCHANGED vars
  BY <1>27, <1>t, Frame DEF vars, poolVars, queueVars, workerVars, clientVars
<1> QED
  BY <1>1, <1>2, <1>3, <1>4, <1>5, <1>6, <1>7, <1>8, <1>9, <1>10, <1>11, <1>12, <1>13,
     <1>14, <1>15, <1>16, <1>17, <1>18, <1>19, <1>20, <1>21, <1>22, <1>23, <1>24, <1>25, <1>26, <1>27
     DEF Next, WorkerStep, ClientStep, ClientCall, Terminated

\* A job that schedule has taken over: it ran, or it is queued, or a worker
\* is about to call its function.
Placed(j) ==
    \/ runs[j] = 1
    \/ \E t \in Queued : task[t] = j
    \/ \E w \in Workers : wpc[w] = "run" /\ task[wtask[w]] = j

\* What a cell says about its job.
CellInv ==
    /\ \A t, u \in Tasks : task[t] # NULL /\ task[t] = task[u] => t = u
    /\ \A t \in Tasks : task[t] # NULL => task[t] \in issued
    /\ \A t \in Queued \cup Filling : runs[task[t]] = 0
    /\ \A w \in Workers : wpc[w] = "run" => runs[task[wtask[w]]] = 0
    /\ \A c \in Clients : cpc[c] \in {"scan", "lock"} => task[ctask[c]] = cjob[c]

\* A job runs at most once, and only after it was issued.
RunInv ==
    /\ \A j \in Jobs : j \notin issued => runs[j] = 0
    /\ \A j \in Jobs : runs[j] <= 1

\* Every job that schedule took over has a place or has run.
PlacedInv ==
    /\ \A c \in Clients : cpc[c] = "publish" => Placed(cjob[c])
    /\ \A j \in accepted \ dropped : Placed(j)

\* The second layer: where the jobs are.
JobInv == Protected => CellInv /\ RunInv /\ PlacedInv

\* A step that leaves cells, queues, calls and the workers that are about to
\* call a function alone keeps JobInv.
LEMMA JobFrame ==
    ASSUME PlaceInv, PlaceInv', JobInv,
           Protected' => Protected,
           UNCHANGED <<queue, task, ctask, runs, issued>>,
           \A w \in Workers :
              /\ wpc'[w] = "run" <=> wpc[w] = "run"
              /\ wpc[w] = "run" => wtask'[w] = wtask[w],
           \A c \in Clients :
              /\ cpc'[c] \in {"scan", "lock"} <=> cpc[c] \in {"scan", "lock"}
              /\ cpc'[c] = "publish" => cpc[c] = "publish"
              /\ cpc'[c] \in {"scan", "lock", "publish"} => cjob'[c] = cjob[c],
           \A j \in accepted' \ dropped' :
              j \in accepted \ dropped \/ \E c \in Clients : cpc[c] = "publish" /\ cjob[c] = j
    PROVE  JobInv'
<1> USE DEF Protected
<1> SUFFICES ASSUME Protected' PROVE CellInv' /\ RunInv' /\ PlacedInv'
  BY DEF JobInv
<1>1. CellInv /\ RunInv /\ PlacedInv
  BY DEF JobInv
<1>2. Queued' = Queued
  BY DEF Queued
<1>3. Filling' = Filling
  BY DEF Filling
<1>4. CellInv'
  BY <1>1, <1>2, <1>3 DEF CellInv
<1>5. RunInv'
  BY <1>1 DEF RunInv
<1>6. ASSUME NEW j, Placed(j) PROVE Placed(j)'
  BY <1>2, <1>6 DEF Placed
<1>7. PlacedInv'
  BY <1>1, <1>6 DEF PlacedInv
<1> QED BY <1>4, <1>5, <1>7

\* Taking a task keeps JobInv: the cell moves from a queue to the worker.
LEMMA JobPop ==
    ASSUME PlaceInv, PlaceInv', JobInv, Protected, UNCHANGED destroyed,
           NEW w \in Workers, NEW v \in Workers, queue[v] # <<>>,
           wpc[w] \notin {"run", "free", "dec"},
           worker_get_task(w, v),
           UNCHANGED <<task, clientVars, jobVars>>
    PROVE  JobInv'
<1> USE DEF Protected
<1> DEFINE t == Head(queue[v])
<1>1. CellInv /\ RunInv /\ PlacedInv
  BY DEF JobInv
<1>2. t \in Queued /\ Queued' = Queued \ {t}
  BY PopPlaces, OwnershipParts DEF PlaceInv
<1>3. Filling' = Filling
  BY DEF Filling, clientVars
<1>4. /\ wpc'[w] = "run" /\ wtask'[w] = t
      /\ \A u \in Workers : u # w => wpc'[u] = wpc[u] /\ wtask'[u] = wtask[u]
  BY DEF worker_get_task, PlaceInv, TypeInv, TypeOK
<1> HIDE DEF t
<1>5. CellInv'
  BY <1>1, <1>2, <1>3, <1>4 DEF CellInv, clientVars, jobVars
<1>6. RunInv'
  BY <1>1 DEF RunInv, jobVars
<1>7. ASSUME NEW j, Placed(j) PROVE Placed(j)'
  <2>1. CASE runs[j] = 1
    BY <2>1 DEF Placed, jobVars
  <2>2. CASE \E x \in Queued : task[x] = j
    BY <1>2, <1>4, <2>2 DEF Placed
  <2>3. CASE \E u \in Workers : wpc[u] = "run" /\ task[wtask[u]] = j
    BY <1>4, <2>3 DEF Placed
  <2> QED BY <1>7, <2>1, <2>2, <2>3 DEF Placed
<1>8. PlacedInv'
  BY <1>1, <1>7 DEF PlacedInv, clientVars, jobVars
<1> QED BY <1>5, <1>6, <1>8 DEF JobInv

\* JobInv holds in the initial state.
LEMMA JobInit == Init => JobInv
<1> SUFFICES ASSUME Init PROVE CellInv /\ RunInv /\ PlacedInv
  BY DEF JobInv
<1>1. Queued = {}
  BY DEF Init, Queued
<1>2. \A c \in Clients : cpc[c] \notin {"scan", "lock", "publish"}
  BY DEF Init
<1>3. Filling = {}
  BY <1>2 DEF Filling
<1>4. CellInv
  BY <1>1, <1>2, <1>3 DEF Init, CellInv
<1>5. RunInv
  BY DEF Init, RunInv
<1>6. PlacedInv
  BY <1>2 DEF Init, PlacedInv
<1> QED BY <1>4, <1>5, <1>6

\* Every action keeps JobInv.
LEMMA JobNext == PlaceInv /\ PlaceInv' /\ JobInv /\ [Next]_vars => JobInv'
<1> SUFFICES ASSUME PlaceInv, PlaceInv', JobInv, [Next]_vars PROVE JobInv'
  OBVIOUS
<1> USE DEF Protected
<1>u. TypeInv /\ Control /\ TypeOK /\ Locals
  BY DEF PlaceInv, TypeInv
<1>p. Protected => /\ QueuesDistinct /\ HoldersDistinct /\ Partition
                 /\ CellInv /\ RunInv /\ PlacedInv
  BY OwnershipParts DEF PlaceInv, JobInv
<1>s. ASSUME ~Protected' PROVE JobInv'
  BY <1>s DEF JobInv
<1>1. ASSUME NEW w \in Workers, worker_run_loop(w) PROVE JobInv'
  BY <1>1, <1>u, JobFrame DEF worker_run_loop, WorkerAt, TypeOK, poolVars, queueVars, clientVars, jobVars
<1>2. ASSUME NEW w \in Workers, worker_find_task(w) PROVE JobInv'
  <2> DEFINE v == candidate(w)
  <2>1. v \in Workers
    BY CandidateIsWorker, <1>u
  <2>2. CASE queue[v] = <<>>
    <3>1. NextCandidate(w) /\ UNCHANGED <<queue, queue_length, wtask>>
      BY <1>2, <2>2 DEF worker_find_task
    <3>2. \A u \in Workers : wpc'[u] # wpc[u] => wpc[u] = "find" /\ wpc'[u] = "wait"
      BY <1>2, <1>u, <3>1 DEF worker_find_task, WorkerAt, NextCandidate, TypeOK
    <3> QED BY <1>2, <3>1, <3>2, JobFrame DEF worker_find_task, poolVars, clientVars, jobVars
  <2>3. CASE queue[v] # <<>> /\ Protected
    <3>1. worker_get_task(w, v) /\ UNCHANGED <<destroyed, task, clientVars, jobVars>>
      BY <1>2, <2>3 DEF worker_find_task, poolVars
    <3>2. wpc[w] \notin {"run", "free", "dec"}
      BY <1>2 DEF worker_find_task, WorkerAt
    <3> QED BY <2>1, <2>3, <3>1, <3>2, JobPop
  <2>4. CASE ~Protected
    BY <1>2, <1>s, <2>4 DEF worker_find_task, poolVars
  <2> QED BY <2>2, <2>3, <2>4
<1>3. ASSUME NEW w \in Workers, worker_find_task_unlocked(w) PROVE JobInv'
  BY <1>3, <1>s DEF worker_find_task_unlocked, queueVars
<1>4. ASSUME NEW w \in Workers, worker_get_task_unlocked(w) PROVE JobInv'
  BY <1>4, <1>s, <1>u DEF worker_get_task_unlocked, WorkerAt, Control
<1>5. ASSUME NEW w \in Workers, worker_wait_for_task(w) PROVE JobInv'
  <2>2. CASE queue[w] = <<>>
    <3>1. WaitOrLeave(w) /\ UNCHANGED <<queue, queue_length, wtask>>
      BY <1>5, <2>2 DEF worker_wait_for_task
    <3>2. \A u \in Workers : wpc'[u] # wpc[u] => wpc[u] = "wait" /\ wpc'[u] \in {"asleep", "loop"}
      BY <1>5, <1>u, <3>1 DEF worker_wait_for_task, WorkerAt, WaitOrLeave, TypeOK
    <3> QED BY <1>5, <3>1, <3>2, JobFrame DEF worker_wait_for_task, poolVars, clientVars, jobVars
  <2>3. CASE queue[w] # <<>> /\ Protected
    <3>1. worker_get_task(w, w) /\ UNCHANGED <<destroyed, task, clientVars, jobVars>>
      BY <1>5, <2>3 DEF worker_wait_for_task, poolVars
    <3>2. wpc[w] \notin {"run", "free", "dec"}
      BY <1>5 DEF worker_wait_for_task, WorkerAt
    <3> QED BY <2>3, <3>1, <3>2, JobPop
  <2>4. CASE ~Protected
    BY <1>5, <1>s, <2>4 DEF worker_wait_for_task, poolVars
  <2> QED BY <2>2, <2>3, <2>4
<1>6. ASSUME NEW w \in Workers, worker_run_execute(w) PROVE JobInv'
  <2>0. CASE ~Protected
    BY <1>6, <1>s, <2>0 DEF worker_run_execute, queueVars
  <2>1. CASE Protected
    <3> DEFINE t == wtask[w]
               j == task[t]
    <3>1. wpc[w] = "run" /\ t \in Tasks /\ t \in Held
      BY <1>6, <1>u DEF worker_run_execute, WorkerAt, Locals, Held
    <3>2. j # NULL /\ j \in Jobs /\ runs[j] = 0 /\ t \notin Queued /\ t \notin Filling /\ j \in issued
      BY <1>p, <1>u, <2>1, <3>1 DEF Partition, TypeOK, CellInv
    <3>3. /\ wpc'[w] = "free" 
          /\ \A u \in Workers : u # w => wpc'[u] = wpc[u]
          /\ UNCHANGED wtask /\ UNCHANGED task
      BY <1>6, <1>u, <3>2 DEF worker_run_execute, TypeOK
    <3>4. runs'[j] = 1 /\ \A k \in Jobs : k # j => runs'[k] = runs[k]
      <4>1. runs' = [runs EXCEPT ![j] = @ + 1] /\ runs \in [Jobs -> Nat]
        BY <1>6, <1>u, <3>2 DEF worker_run_execute, TypeOK
      <4> HIDE DEF j
      <4> QED BY <3>2, <4>1
    <3>5. Queued' = Queued
      BY <1>6 DEF worker_run_execute, queueVars, Queued
    <3>6. Filling' = Filling
      BY <1>6 DEF worker_run_execute, clientVars, Filling
    <3>7. \A x \in Queued \cup Filling : x \in Tasks /\ x # t /\ task[x] # NULL /\ task[x] \in Jobs
      BY <1>p, <1>u, <2>1, <3>2 DEF Partition, TypeOK, Queued, Filling
    <3>8. \A x \in Queued \cup Filling : task[x] # j
      BY <1>p, <2>1, <3>1, <3>2, <3>7 DEF CellInv
    <3>9. ASSUME NEW u \in Workers, u # w, wpc[u] = "run"
          PROVE  task[wtask[u]] # j /\ task[wtask[u]] \in Jobs
      <4>1. wtask[u] \in Tasks /\ wtask[u] # t /\ wtask[u] \in Held
        BY <1>p, <1>u, <2>1, <3>1, <3>9 DEF HoldersDistinct, Locals, Held
      <4>2. task[wtask[u]] # NULL
        BY <1>p, <2>1, <4>1 DEF Partition
      <4> QED BY <1>p, <1>u, <2>1, <3>1, <3>2, <4>1, <4>2 DEF CellInv, TypeOK
    <3> HIDE DEF t, j
    <3>10. CellInv'
      <4>0. CellInv /\ UNCHANGED issued /\ UNCHANGED cpc /\ UNCHANGED ctask /\ UNCHANGED cjob
        BY <1>6, <1>p, <2>1 DEF worker_run_execute, clientVars
      <4>1. \A x \in Queued' \cup Filling' : runs'[task'[x]] = 0
        BY <3>3, <3>4, <3>5, <3>6, <3>7, <3>8, <4>0 DEF CellInv
      <4>2. \A u \in Workers : wpc'[u] = "run" => runs'[task'[wtask'[u]]] = 0
        BY <3>3, <3>4, <3>9, <4>0 DEF CellInv
      <4> QED BY <3>3, <4>0, <4>1, <4>2 DEF CellInv
    <3>11. RunInv'
      <4>1. RunInv /\ UNCHANGED issued
        BY <1>6, <1>p, <2>1 DEF worker_run_execute
      <4> QED BY <3>2, <3>4, <4>1 DEF RunInv
    <3>12. ASSUME NEW k, k \in Jobs, Placed(k) PROVE Placed(k)'
      <4>1. CASE k = j
        BY <3>4, <4>1 DEF Placed
      <4>2. CASE k # j
        BY <3>3, <3>4, <3>5, <3>12, <4>2 DEF Placed, j, t
      <4> QED BY <4>1, <4>2
    <3>13. PlacedInv'
      BY <1>6, <1>p, <1>u, <2>1, <3>12 DEF worker_run_execute, clientVars, PlacedInv, TypeOK, Locals
    <3> QED BY <3>10, <3>11, <3>13 DEF JobInv
  <2> QED BY <2>0, <2>1
<1>7. ASSUME NEW w \in Workers, task_free(w) PROVE JobInv'
  <2>0. CASE ~Protected
    BY <1>7, <1>s, <2>0 DEF task_free, queueVars
  <2>1. CASE Protected
    <3> DEFINE t == wtask[w]
    <3>1. wpc[w] = "free" /\ t \in Tasks /\ t \in Held
      BY <1>7, <1>u DEF task_free, WorkerAt, Locals, Held
    <3>2. t \notin Queued /\ t \notin Filling
      BY <1>p, <2>1, <3>1 DEF Partition
    <3>3. /\ task'[t] = NULL
          /\ \A x \in Tasks : x # t => task'[x] = task[x]
      BY <1>7, <1>u, <3>1 DEF task_free, TypeOK
    <3>4. /\ wpc'[w] = "dec"
          /\ \A u \in Workers : u # w => wpc'[u] = wpc[u] /\ wtask'[u] = wtask[u]
      BY <1>7, <1>u DEF task_free, TypeOK
    <3>5. \A u \in Workers : u # w /\ wpc[u] = "run" => wtask[u] # t /\ wtask[u] \in Tasks
      BY <1>p, <1>u, <2>1, <3>1 DEF HoldersDistinct, Locals
    <3>6. \A c \in Clients : cpc[c] \in {"scan", "lock"} => ctask[c] \in Filling /\ ctask[c] \in Tasks
      BY <1>u DEF Filling, Locals
    <3>7. Queued' = Queued /\ Queued \subseteq Tasks
      BY <1>7 DEF task_free, queueVars, Queued
    <3>8. Filling' = Filling /\ Filling \subseteq Tasks
      BY <1>7 DEF task_free, clientVars, Filling
    <3> HIDE DEF t
    <3>9. CellInv'
      <4>1. CellInv /\ UNCHANGED <<issued, runs, cpc, ctask, cjob>>
        BY <1>7, <1>p, <2>1 DEF task_free, clientVars, jobVars
      <4>2. \A x \in Queued' \cup Filling' : runs'[task'[x]] = 0
        BY <3>2, <3>3, <3>7, <3>8, <4>1 DEF CellInv
      <4>3. \A u \in Workers : wpc'[u] = "run" => runs'[task'[wtask'[u]]] = 0
        BY <3>3, <3>4, <3>5, <4>1 DEF CellInv
      <4>4. \A c \in Clients : cpc'[c] \in {"scan", "lock"} => task'[ctask'[c]] = cjob'[c]
        BY <3>2, <3>3, <3>6, <4>1 DEF CellInv
      <4> QED BY <3>3, <4>1, <4>2, <4>3, <4>4 DEF CellInv
    <3>10. RunInv'
      BY <1>7, <1>p, <2>1 DEF task_free, jobVars, RunInv
    <3>11. ASSUME NEW k, Placed(k) PROVE Placed(k)'
      <4>1. CASE runs[k] = 1
        BY <1>7, <4>1 DEF task_free, jobVars, Placed
      <4>2. CASE \E x \in Queued : task[x] = k
        BY <3>2, <3>3, <3>7, <4>2 DEF Placed
      <4>3. CASE \E u \in Workers : wpc[u] = "run" /\ task[wtask[u]] = k
        BY <3>1, <3>3, <3>4, <3>5, <4>3 DEF Placed
      <4> QED BY <3>11, <4>1, <4>2, <4>3 DEF Placed
    <3>12. PlacedInv'
      BY <1>7, <1>p, <2>1, <3>11 DEF task_free, clientVars, jobVars, PlacedInv
    <3> QED BY <3>9, <3>10, <3>12 DEF JobInv
  <2> QED BY <2>0, <2>1
<1>8. ASSUME NEW w \in Workers, worker_run_done(w) PROVE JobInv'
  <2>1. \A c \in Clients : cpc'[c] # cpc[c] => cpc[c] = "asleep" /\ cpc'[c] = "wait"
    BY <1>8, <1>u DEF worker_run_done, SignalWaiter, TypeOK
  <2>2. \A u \in Workers : wpc'[u] # wpc[u] => wpc[u] = "dec" /\ wpc'[u] = "loop"
    BY <1>8, <1>u DEF worker_run_done, WorkerAt, TypeOK
  <2> QED BY <1>8, <2>1, <2>2, JobFrame DEF worker_run_done, queueVars, jobVars
<1>9. ASSUME NEW w \in Workers, worker_spurious_wakeup(w) PROVE JobInv'
  BY <1>9, <1>u, JobFrame DEF worker_spurious_wakeup, WorkerAt, TypeOK, poolVars, queueVars, clientVars, jobVars
<1>10. ASSUME NEW c \in Clients, worker_start(c) PROVE JobInv'
  <2>1. c = Owner /\ cindex[c] \in Workers /\ wpc[cindex[c]] = "none"
    BY <1>10, <1>u DEF worker_start, ClientAt, Control, TypeOK, Workers
  <2>2. \A u \in Workers : wpc'[u] # wpc[u] => wpc[u] = "none" /\ wpc'[u] = "loop"
    BY <1>10, <1>u, <2>1 DEF worker_start, TypeOK
  <2>3. \A d \in Clients : cpc'[d] # cpc[d] => cpc[d] = "init" /\ cpc'[d] = "idle"
    BY <1>10, <1>u DEF worker_start, ClientAt, TypeOK
  <2> QED BY <1>10, <2>2, <2>3, JobFrame DEF worker_start, poolVars, queueVars, jobVars
<1>11. ASSUME NEW c \in Clients, schedule_scan(c) PROVE JobInv'
  <2>1. \A d \in Clients : cpc'[d] # cpc[d] => cpc[d] = "scan" /\ cpc'[d] = "lock"
    BY <1>11, <1>u DEF schedule_scan, ClientAt, TypeOK
  <2> QED BY <1>11, <2>1, JobFrame DEF schedule_scan, poolVars, queueVars, workerVars, jobVars
<1>12. ASSUME NEW c \in Clients, schedule_enqueue(c) PROVE JobInv'
  <2>0. CASE ~Protected
    BY <1>12, <1>s, <2>0 DEF schedule_enqueue
  <2>1. CASE Protected
    <3> DEFINE t == ctask[c]
    <3>1. cworker[c] \in Workers /\ t \in Tasks /\ cpc[c] = "lock" /\ t \in Filling
      BY <1>12, <1>u DEF schedule_enqueue, ClientAt, Locals, TypeOK, Filling
    <3>2. t \notin Queued /\ task[t] = cjob[c] /\ runs[task[t]] = 0
      BY <1>p, <2>1, <3>1 DEF Partition, CellInv
    <3>3. queue' = [queue EXCEPT ![cworker[c]] = Append(@, t)]
      BY <1>12 DEF schedule_enqueue
    <3>4. /\ cpc'[c] = "publish"
          /\ \A d \in Clients : d # c => cpc'[d] = cpc[d] /\ ctask'[d] = ctask[d]
      BY <1>12, <1>u DEF schedule_enqueue, TypeOK
    <3> HIDE DEF t
    <3>5. Queued' = Queued \cup {t}
      BY <1>p, <1>u, <2>1, <3>1, <3>2, <3>3, PushPlaces
    <3>6. Filling' \subseteq Filling
      BY <3>4 DEF Filling
    <3>7. CellInv /\ UNCHANGED <<task, wpc, wtask, issued, accepted, dropped, runs, cjob>>
      BY <1>12, <1>p, <2>1 DEF schedule_enqueue, workerVars, jobVars
    <3>8. CellInv'
      BY <3>1, <3>2, <3>4, <3>5, <3>6, <3>7 DEF CellInv
    <3>9. RunInv'
      BY <1>p, <2>1, <3>7 DEF RunInv
    <3>10. ASSUME NEW k, Placed(k) PROVE Placed(k)'
      BY <3>5, <3>7, <3>10 DEF Placed
    <3>11. Placed(cjob[c])'
      BY <3>2, <3>5, <3>7 DEF Placed
    <3>12. PlacedInv'
      BY <1>p, <2>1, <3>4, <3>7, <3>10, <3>11 DEF PlacedInv
    <3> QED BY <3>8, <3>9, <3>12 DEF JobInv
  <2> QED BY <2>0, <2>1
<1>13. ASSUME NEW c \in Clients, schedule_publish(c) PROVE JobInv'
  <2>1. \A u \in Workers : wpc'[u] # wpc[u] => wpc[u] = "asleep" /\ wpc'[u] = "wait"
    BY <1>13, <1>u DEF schedule_publish, SignalWorker, TypeOK
  <2>2. \A d \in Clients : cpc'[d] # cpc[d] => cpc[d] = "publish" /\ cpc'[d] = "idle"
    BY <1>13, <1>u DEF schedule_publish, ScheduleReturns, ClientAt, TypeOK
  <2>3. \A d \in Clients : d # c => cjob'[d] = cjob[d]
    BY <1>13, <1>u DEF schedule_publish, ScheduleReturns, TypeOK
  <2>4. cpc'[c] = "idle" /\ cpc[c] = "publish"
    BY <1>13, <1>u DEF schedule_publish, ScheduleReturns, ClientAt, TypeOK
  <2>5. accepted' = accepted \cup {cjob[c]}
    BY <1>13 DEF schedule_publish, ScheduleReturns
  <2> QED BY <1>13, <2>1, <2>2, <2>3, <2>4, <2>5, JobFrame DEF schedule_publish, poolVars
<1>14. ASSUME NEW c \in Clients, cx_threadpool_wait(c) PROVE JobInv'
  <2>1. \A d \in Clients : cpc'[d] # cpc[d] => cpc[d] = "wait" /\ cpc'[d] \in {"idle", "asleep"}
    BY <1>14, <1>u DEF cx_threadpool_wait, ClientAt, TypeOK
  <2> QED BY <1>14, <2>1, JobFrame DEF cx_threadpool_wait, poolVars, queueVars, workerVars, jobVars
<1>15. ASSUME NEW c \in Clients, worker_cleanup(c) PROVE JobInv'
  <2>1. \A u \in Workers : wpc'[u] # wpc[u] => wpc[u] = "asleep" /\ wpc'[u] = "wait"
    BY <1>15, <1>u DEF worker_cleanup, SignalWorker, TypeOK
  <2>2. \A d \in Clients : cpc'[d] # cpc[d] => cpc[d] = "stop" /\ cpc'[d] = "join"
    BY <1>15, <1>u DEF worker_cleanup, ClientAt, TypeOK
  <2> QED BY <1>15, <2>1, <2>2, JobFrame DEF worker_cleanup, poolVars, queueVars, jobVars
<1>16. ASSUME NEW c \in Clients, worker_cleanup_join(c) PROVE JobInv'
  <2>1. destroyed' # {}
    BY <1>16 DEF worker_cleanup_join
  <2> QED BY <1>s, <2>1
<1>17. ASSUME NEW c \in Clients, worker_cleanup_join_uncreated(c) PROVE JobInv'
  BY <1>17, JobFrame DEF worker_cleanup_join_uncreated, poolVars, queueVars, workerVars, clientVars, jobVars
<1>18. ASSUME NEW c \in Clients, NEW j \in Jobs, NEW t \in Tasks, task_new(c, j, t) PROVE JobInv'
  <2>0. CASE ~Protected
    BY <1>18, <1>s, <2>0 DEF task_new, queueVars
  <2>1. CASE Protected
    <3>1. /\ t \notin Queued /\ t \notin Held /\ t \notin Filling
          /\ task[t] = NULL /\ j \notin issued /\ j # NULL /\ runs[j] = 0
      BY <1>18, <1>p, <2>1, NullIsNoTask DEF task_new, Partition, RunInv
    <3>2. /\ task'[t] = j
          /\ \A x \in Tasks : x # t => task'[x] = task[x]
      BY <1>18, <1>u DEF task_new, TypeOK
    <3>3. /\ cpc[c] = "idle" /\ cpc'[c] = "scan" /\ ctask'[c] = t /\ cjob'[c] = j
          /\ \A d \in Clients : d # c => cpc'[d] = cpc[d] /\ ctask'[d] = ctask[d] /\ cjob'[d] = cjob[d]
      BY <1>18, <1>u DEF task_new, ClientAt, TypeOK
    <3>4. Filling' = Filling \cup {t} /\ Filling \subseteq Tasks
      BY <3>3 DEF Filling
    <3>5. Queued' = Queued /\ Queued \subseteq Tasks
      BY <1>18 DEF task_new, queueVars, Queued
    <3>6. \A u \in Workers : wpc[u] = "run" => wtask[u] \in Tasks /\ wtask[u] # t
      BY <1>u, <3>1 DEF Held, Locals
    <3>7. \A d \in Clients : cpc[d] \in {"scan", "lock"} => ctask[d] \in Tasks /\ ctask[d] # t
      BY <1>u, <3>1 DEF Filling, Locals
    <3>8. CellInv /\ issued' = issued \cup {j} /\ UNCHANGED <<wpc, wtask, accepted, dropped, runs>>
      BY <1>18, <1>p, <2>1 DEF task_new, workerVars
    <3>9. CellInv'
      <4>1. \A x, y \in Tasks : task'[x] # NULL /\ task'[x] = task'[y] => x = y
        BY <3>1, <3>2, <3>8 DEF CellInv
      <4>2. \A x \in Tasks : task'[x] # NULL => task'[x] \in issued'
        BY <3>2, <3>8 DEF CellInv
      <4>3. \A x \in Queued' \cup Filling' : runs'[task'[x]] = 0
        BY <3>1, <3>2, <3>4, <3>5, <3>8 DEF CellInv
      <4>4. \A u \in Workers : wpc'[u] = "run" => runs'[task'[wtask'[u]]] = 0
        BY <3>2, <3>6, <3>8 DEF CellInv
      <4>5. \A d \in Clients : cpc'[d] \in {"scan", "lock"} => task'[ctask'[d]] = cjob'[d]
        BY <3>2, <3>3, <3>7, <3>8 DEF CellInv
      <4> QED BY <4>1, <4>2, <4>3, <4>4, <4>5 DEF CellInv
    <3>10. RunInv'
      BY <1>p, <2>1, <3>8 DEF RunInv
    <3>11. ASSUME NEW k, Placed(k) PROVE Placed(k)'
      <4>1. CASE runs[k] = 1
        BY <3>8, <4>1 DEF Placed
      <4>2. CASE \E x \in Queued : task[x] = k
        BY <3>1, <3>2, <3>5, <4>2 DEF Placed
      <4>3. CASE \E u \in Workers : wpc[u] = "run" /\ task[wtask[u]] = k
        BY <3>2, <3>6, <3>8, <4>3 DEF Placed
      <4> QED BY <3>11, <4>1, <4>2, <4>3 DEF Placed
    <3>12. PlacedInv'
      BY <1>p, <2>1, <3>3, <3>8, <3>11 DEF PlacedInv
    <3> QED BY <3>9, <3>10, <3>12 DEF JobInv
  <2> QED BY <2>0, <2>1
<1>19. ASSUME NEW c \in Clients, NEW j \in Jobs, task_new_fails(c, j) PROVE JobInv'
  <2>0. CASE ~Protected
    BY <1>19, <1>s, <2>0 DEF task_new_fails, queueVars
  <2>1. CASE Protected
    <3>1. UNCHANGED <<queue, task, wpc, wtask, cpc, ctask, cjob, runs>>
      BY <1>19 DEF task_new_fails, queueVars, workerVars, clientVars
    <3>2. Queued' = Queued
      BY <3>1 DEF Queued
    <3>3. Filling' = Filling
      BY <3>1 DEF Filling
    <3>4. issued' = issued \cup {j} /\ accepted' \ dropped' \subseteq accepted \ dropped
      BY <1>19 DEF task_new_fails
    <3>5. CellInv'
      BY <1>p, <2>1, <3>1, <3>2, <3>3, <3>4 DEF CellInv
    <3>6. RunInv'
      BY <1>p, <2>1, <3>1, <3>4 DEF RunInv
    <3>7. ASSUME NEW k, Placed(k) PROVE Placed(k)'
      BY <3>1, <3>2, <3>7 DEF Placed
    <3>8. PlacedInv'
      BY <1>p, <2>1, <3>1, <3>4, <3>7 DEF PlacedInv
    <3> QED BY <3>5, <3>6, <3>8 DEF JobInv
  <2> QED BY <2>0, <2>1
<1>20. ASSUME NEW c \in Clients, schedule_lock_fails(c) PROVE JobInv'
  <2>0. CASE ~Protected
    BY <1>20, <1>s, <2>0 DEF schedule_lock_fails, queueVars
  <2>1. CASE Protected
    <3> DEFINE t == ctask[c]
    <3>1. t \in Tasks /\ cpc[c] = "lock" /\ t \in Filling
      BY <1>20, <1>u DEF schedule_lock_fails, ClientAt, Locals, Filling
    <3>2. t \notin Queued /\ t \notin Held
      BY <1>p, <2>1, <3>1 DEF Partition
    <3>3. /\ task'[t] = NULL
          /\ \A x \in Tasks : x # t => task'[x] = task[x]
      BY <1>20, <1>u, <3>1 DEF schedule_lock_fails, TypeOK
    <3>4. /\ cpc'[c] = "idle"
          /\ \A d \in Clients : d # c => cpc'[d] = cpc[d] /\ ctask'[d] = ctask[d] /\ cjob'[d] = cjob[d]
      BY <1>20, <1>u DEF schedule_lock_fails, ScheduleReturns, TypeOK
    <3>5. \A u \in Workers : wpc[u] = "run" => wtask[u] \in Tasks /\ wtask[u] # t
      BY <1>u, <3>2 DEF Held, Locals
    <3>6. \A d \in Clients : d # c /\ cpc[d] \in {"scan", "lock"} => ctask[d] \in Tasks /\ ctask[d] # t
      BY <1>p, <1>u, <2>1, <3>1 DEF HoldersDistinct, Locals
    <3>7. Queued' = Queued /\ Queued \subseteq Tasks
      BY <1>20 DEF schedule_lock_fails, queueVars, Queued
    <3> HIDE DEF t
    <3>8. Filling' \subseteq Filling /\ t \notin Filling' /\ Filling \subseteq Tasks
      BY <3>4, <3>6 DEF Filling
    <3>9. CellInv /\ UNCHANGED <<wpc, wtask, issued, runs>>
      BY <1>20, <1>p, <2>1 DEF schedule_lock_fails, workerVars
    <3>10. accepted' \ dropped' \subseteq accepted \ dropped
      BY <1>20 DEF schedule_lock_fails, ScheduleReturns
    <3>11. CellInv'
      <4>1. \A x, y \in Tasks : task'[x] # NULL /\ task'[x] = task'[y] => x = y
        BY <3>3, <3>9 DEF CellInv
      <4>2. \A x \in Tasks : task'[x] # NULL => task'[x] \in issued'
        BY <3>3, <3>9 DEF CellInv
      <4>3. \A x \in Queued' \cup Filling' : runs'[task'[x]] = 0
        BY <3>2, <3>3, <3>7, <3>8, <3>9 DEF CellInv
      <4>4. \A u \in Workers : wpc'[u] = "run" => runs'[task'[wtask'[u]]] = 0
        BY <3>3, <3>5, <3>9 DEF CellInv
      <4>5. \A d \in Clients : cpc'[d] \in {"scan", "lock"} => task'[ctask'[d]] = cjob'[d]
        BY <3>3, <3>4, <3>6, <3>9 DEF CellInv
      <4> QED BY <4>1, <4>2, <4>3, <4>4, <4>5 DEF CellInv
    <3>12. RunInv'
      BY <1>p, <2>1, <3>9 DEF RunInv
    <3>13. ASSUME NEW k, Placed(k) PROVE Placed(k)'
      <4>1. CASE runs[k] = 1
        BY <3>9, <4>1 DEF Placed
      <4>2. CASE \E x \in Queued : task[x] = k
        BY <3>2, <3>3, <3>7, <4>2 DEF Placed
      <4>3. CASE \E u \in Workers : wpc[u] = "run" /\ task[wtask[u]] = k
        BY <3>3, <3>5, <3>9, <4>3 DEF Placed
      <4> QED BY <3>13, <4>1, <4>2, <4>3 DEF Placed
    <3>14. PlacedInv'
      BY <1>p, <2>1, <3>4, <3>10, <3>13 DEF PlacedInv
    <3> QED BY <3>11, <3>12, <3>14 DEF JobInv
  <2> QED BY <2>0, <2>1
<1>21. ASSUME NEW c \in Clients, wait_enter(c) PROVE JobInv'
  BY <1>21, <1>u, JobFrame DEF wait_enter, ClientAt, TypeOK, poolVars, queueVars, workerVars, jobVars
<1>22. ASSUME NEW c \in Clients, wait_spurious_wakeup(c) PROVE JobInv'
  BY <1>22, <1>u, JobFrame DEF wait_spurious_wakeup, ClientAt, TypeOK, poolVars, queueVars, workerVars, jobVars
<1>23. ASSUME NEW c \in Clients, quit(c) PROVE JobInv'
  BY <1>23, <1>u, JobFrame DEF quit, ClientAt, TypeOK, poolVars, queueVars, workerVars, jobVars
<1>24. ASSUME NEW c \in Clients, cx_threadpool_cleanup(c) PROVE JobInv'
  <2>1. \A d \in Clients : cpc'[d] # cpc[d] => cpc[d] \in {"idle"} /\ cpc'[d] = "stop"
    BY <1>24, <1>u DEF cx_threadpool_cleanup, ClientAt, TypeOK
  <2> QED BY <1>24, <2>1, JobFrame DEF cx_threadpool_cleanup, queueVars, workerVars, jobVars
<1>25. ASSUME NEW c \in Clients, init_fails(c) PROVE JobInv'
  BY <1>25, JobFrame DEF init_fails, poolVars, queueVars, workerVars, clientVars, jobVars
<1>26. ASSUME NEW c \in Clients, worker_start_fails(c) PROVE JobInv'
  <2>1. \A d \in Clients : cpc'[d] # cpc[d] => cpc[d] \in {"init"} /\ cpc'[d] = "stop"
    BY <1>26, <1>u DEF worker_start_fails, ClientAt, TypeOK
  <2> QED BY <1>26, <2>1, JobFrame DEF worker_start_fails, queueVars, workerVars, jobVars
<1>27. CASE UNCHANGED vars
  BY <1>27, JobFrame DEF vars, poolVars, queueVars, workerVars, clientVars, jobVars
<1> QED
  BY <1>1, <1>2, <1>3, <1>4, <1>5, <1>6, <1>7, <1>8, <1>9, <1>10, <1>11, <1>12, <1>13,
     <1>14, <1>15, <1>16, <1>17, <1>18, <1>19, <1>20, <1>21, <1>22, <1>23, <1>24, <1>25, <1>26, <1>27
     DEF Next, WorkerStep, ClientStep, ClientCall, Terminated

\* active_tasks is 0 only when every job that schedule took over has run.
LEMMA Quiescent ==
    ASSUME PlaceInv, JobInv, Protected, active_tasks = 0
    PROVE  Held = {} /\ \A j \in accepted \ dropped : runs[j] = 1
<1>1. Cardinality(Queued) \in Nat /\ Cardinality(Busy) \in Nat
  BY PlacesFinite, FS_CardinalityType DEF PlaceInv
<1>2. Cardinality(Queued) = 0 /\ Cardinality(Busy) = 0
  BY <1>1 DEF PlaceInv, ActiveAccounting
<1>3. Queued = {} /\ Busy = {}
  BY <1>2, PlacesFinite, FS_EmptySet DEF PlaceInv
<1>4. \A w \in Workers : wpc[w] \notin {"run", "free"}
  BY <1>3 DEF Busy
<1> QED BY <1>3, <1>4 DEF JobInv, PlacedInv, Placed, Held

\* Every cell in use is at exactly one place, for any number of threads, until
\* cleanup destroys the first queue mutex.
THEOREM TaskOwnershipHolds == Spec => []TaskOwnership
<1>1. PlaceInv => TaskOwnership
  BY DEF PlaceInv
<1> QED BY PlaceInit, PlaceNext, <1>1, PTL DEF Spec

\* active_tasks counts the queued tasks and the busy workers, for any number of
\* threads, until cleanup destroys the first queue mutex.
THEOREM ActiveAccountingHolds == Spec => []ActiveAccounting
<1>1. PlaceInv => ActiveAccounting
  BY DEF PlaceInv
<1> QED BY PlaceInit, PlaceNext, <1>1, PTL DEF Spec

\* The inductive invariant holds in every reachable state.
LEMMA JobsInvariant == Spec => [](PlaceInv /\ JobInv)
<1>1. Init => PlaceInv /\ JobInv
  BY PlaceInit, JobInit
<1>2. PlaceInv /\ JobInv /\ [Next]_vars => (PlaceInv /\ JobInv)'
  BY PlaceNext, JobNext
<1> QED BY <1>1, <1>2, PTL DEF Spec

\* No job's function is called twice, however the workers steal, until cleanup
\* destroys the first queue mutex.
THEOREM RunAtMostOnceHolds == Spec => []RunAtMostOnce
<1>1. PlaceInv /\ JobInv => RunAtMostOnce
  BY DEF JobInv, RunInv, RunAtMostOnce
<1> QED BY JobsInvariant, <1>1, PTL

\* cx_threadpool_wait returns only when every job schedule took over has run.
THEOREM WaitCompletesHolds == Spec => WaitCompletes
<1> DEFINE Done == \A c \in Clients : cpc[c] = "wait" /\ cpc'[c] = "idle" =>
          \A j \in accepted \ dropped : runs[j] = 1 /\ j \notin {task[t] : t \in Held}
<1>1. PlaceInv /\ JobInv /\ [Next]_vars => [Done]_vars
  <2> SUFFICES ASSUME PlaceInv, JobInv, [Next]_vars,
                      NEW c \in Clients, cpc[c] = "wait", cpc'[c] = "idle"
               PROVE  \A j \in accepted \ dropped :
                         runs[j] = 1 /\ j \notin {task[t] : t \in Held}
    OBVIOUS
  <2>1. Protected
    BY DEF PlaceInv, Control, Protected
  <2>2. TypeOK
    BY DEF PlaceInv, TypeInv
  <2>3. active_tasks = 0
    <3>1. ASSUME NEW w \in Workers, WorkerStep(w) \/ worker_spurious_wakeup(w) PROVE FALSE
      BY <2>2, <3>1 DEF TypeOK, WorkerStep, worker_run_loop, worker_find_task,
         worker_find_task_unlocked, worker_get_task_unlocked, worker_wait_for_task,
         worker_run_execute, task_free, worker_run_done, worker_spurious_wakeup,
         SignalWaiter, clientVars
    <3>2. ASSUME NEW d \in Clients, ClientStep(d) PROVE active_tasks = 0
      BY <2>2, <3>2 DEF TypeOK, ClientStep, worker_start, schedule_scan, schedule_enqueue,
         schedule_publish, ScheduleReturns, cx_threadpool_wait, AllDone, worker_cleanup,
         worker_cleanup_join, worker_cleanup_join_uncreated, ClientAt, clientVars
    <3>3. ASSUME NEW d \in Clients, ClientCall(d) PROVE FALSE
      BY <2>2, <3>3 DEF TypeOK, ClientCall, task_new, task_new_fails, schedule_lock_fails,
         ScheduleReturns, wait_enter, wait_spurious_wakeup, quit, cx_threadpool_cleanup,
         init_fails, worker_start_fails, ClientAt, clientVars
    <3>4. CASE UNCHANGED vars
      BY <3>4 DEF vars, clientVars
    <3> QED BY <3>1, <3>2, <3>3, <3>4 DEF Next, Terminated
  <2> QED BY <2>1, <2>3, Quiescent
<1> QED BY JobsInvariant, <1>1, PTL DEF Spec, WaitCompletes

(***************************************************************************)
(* The queue mutexes, queue_length and the sleeping workers                *)
(***************************************************************************)

\* A queue mutex is held by exactly the client that is about to publish into
\* that queue.
LockInv ==
    /\ \A c \in Clients : cpc[c] = "publish" => queue_mutex[cworker[c]] = c
    /\ \A w \in Workers : queue_mutex[w] # NULL =>
          cpc[queue_mutex[w]] = "publish" /\ cworker[queue_mutex[w]] = w

\* Only queues whose mutex was destroyed are written without it, and their
\* own worker is gone.
GoneInv ==
    /\ \A v \in destroyed : wpc[v] = "exited"
    /\ \A w \in Workers : wpc[w] = "unlocked" => candidate(w) \in destroyed

\* QueueLengthTracks, with the two cases of the mutex apart.
LengthInv ==
    Protected => \A w \in Workers :
        /\ queue_mutex[w] = NULL => queue_length[w] = Len(queue[w])
        /\ queue_mutex[w] # NULL => queue_length[w] = Len(queue[w]) - 1

\* What QueueLengthTracks and NoLostWakeup need to be inductive.
WakeInv == LockInv /\ GoneInv /\ LengthInv /\ NoLostWakeup

\* NULL is no client, so a held mutex is told from a free one.
LEMMA NullIsNoClient == NULL \notin Clients
  BY ThreadpoolAssumption DEF ThreadpoolAssumption

\* WakeInv holds before any worker runs.
LEMMA WakeInit == Init => WakeInv
<1> SUFFICES ASSUME Init PROVE WakeInv
  OBVIOUS
<1>1. LockInv /\ GoneInv
  BY DEF Init, LockInv, GoneInv
<1>2. LengthInv /\ NoLostWakeup
  BY DEF Init, LengthInv, NoLostWakeup
<1> QED BY <1>1, <1>2 DEF WakeInv

\* A step that does not touch the mutexes, and moves nobody to or from
\* publish, keeps LockInv.
LEMMA LockFrame ==
    ASSUME TypeInv, LockInv, UNCHANGED queue_mutex,
           \A c \in Clients : cpc[c] = "publish" => cpc'[c] = "publish" /\ cworker'[c] = cworker[c],
           \A c \in Clients : cpc'[c] = "publish" => cpc[c] = "publish"
    PROVE  LockInv'
<1>1. \A w \in Workers : queue_mutex[w] \in Clients \cup {NULL}
  BY DEF TypeInv, TypeOK
<1> QED BY <1>1 DEF LockInv

\* A step that writes no queue, puts no worker to sleep, and lets no worker
\* leave or enter the unlocked path keeps the other three parts.
LEMMA WakeFrame ==
    ASSUME TypeInv, Control, WakeInv, LockInv',
           UNCHANGED <<running, queue, queue_length, queue_mutex, destroyed>>,
           \A w \in Workers : wpc'[w] = "asleep" => wpc[w] = "asleep",
           \A w \in Workers : wpc'[w] = "unlocked" =>
               wpc[w] = "unlocked" /\ windex'[w] = windex[w],
           \A w \in Workers : wpc[w] = "exited" => wpc'[w] = "exited" \/ running,
           running \/ (cpc'[Owner] = cpc[Owner] /\ cindex'[Owner] = cindex[Owner])
    PROVE  WakeInv'
<1>1. GoneInv'
  BY DEF WakeInv, GoneInv, candidate, Control, TypeInv, TypeOK
<1>2. LengthInv'
  BY DEF WakeInv, LengthInv, Protected
<1>3. NoLostWakeup'
  BY DEF WakeInv, NoLostWakeup
<1> QED BY <1>1, <1>2, <1>3 DEF WakeInv

\* Taking the first task of an unlocked queue keeps queue_length in step and
\* wakes or puts to sleep nobody.
LEMMA WakePop ==
    ASSUME TypeInv, Control, WakeInv, NEW w \in Workers, NEW v \in Workers,
           queue[v] # <<>>, Unlocked(v), worker_get_task(w, v),
           wpc[w] \in {"find", "wait"},
           UNCHANGED <<running, queue_mutex, destroyed, cpc, cworker, cindex>>,
           \A u \in Workers : u # w => windex'[u] = windex[u]
    PROVE  WakeInv'
<1> USE DEF TypeInv, TypeOK
<1>1. LockInv'
  BY LockFrame DEF WakeInv
<1>2. /\ wpc'[w] = "run"
      /\ \A u \in Workers : u # w => wpc'[u] = wpc[u]
  BY DEF worker_get_task
<1>3. GoneInv'
  BY <1>2 DEF WakeInv, GoneInv, candidate
<1>4. /\ \A u \in Workers : u # v => queue'[u] = queue[u] /\ queue_length'[u] = queue_length[u]
      /\ queue'[v] = Tail(queue[v])
      /\ queue_length'[v] = queue_length[v] - 1
  BY DEF worker_get_task
<1>5. queue[v] \in Seq(Tasks) /\ Len(Tail(queue[v])) = Len(queue[v]) - 1
  BY HeadTailProperties
<1>6. LengthInv'
  BY <1>4, <1>5 DEF WakeInv, LengthInv, Unlocked, Protected
<1>7. \A u \in Workers : wpc'[u] = "asleep" => wpc[u] = "asleep" /\ (queue'[u] # <<>> => queue_mutex'[u] # NULL)
  <2> SUFFICES ASSUME NEW u \in Workers, wpc'[u] = "asleep"
               PROVE  wpc[u] = "asleep" /\ (queue'[u] # <<>> => queue_mutex'[u] # NULL)
    OBVIOUS
  <2>1. u # w /\ wpc[u] = "asleep"
    BY <1>2
  <2>2. queue[u] # <<>> => queue_mutex[u] # NULL
    BY <2>1 DEF WakeInv, NoLostWakeup
  <2>3. u # v
    BY <2>2 DEF Unlocked
  <2> QED BY <2>1, <2>2, <2>3, <1>4
<1>8. NoLostWakeup'
  BY <1>7 DEF WakeInv, NoLostWakeup
<1> QED BY <1>1, <1>3, <1>6, <1>8 DEF WakeInv

\* The pool is stopped: the owner starts its round of worker_cleanup.
LEMMA WakeStop ==
    ASSUME TypeInv, Control, WakeInv, NEW c \in Clients, c = Owner,
           cpc[c] \in {"idle", "init"},
           running' = FALSE, cpc' = [cpc EXCEPT ![c] = "stop"], cindex' = [cindex EXCEPT ![c] = 0],
           UNCHANGED <<queueVars, workerVars, cworker>>
    PROVE  WakeInv'
<1> USE DEF TypeInv, TypeOK, queueVars, workerVars
<1>1. LockInv'
  BY LockFrame DEF WakeInv
<1>2. GoneInv'
  BY DEF WakeInv, GoneInv, candidate
<1>3. LengthInv'
  BY DEF WakeInv, LengthInv, Protected
<1>4. cpc'[Owner] = "stop" /\ cindex'[Owner] = 0 /\ \A w \in Workers : 0 <= w
  BY OwnerIsClient DEF Workers
<1>5. NoLostWakeup'
  BY <1>4 DEF WakeInv, NoLostWakeup
<1> QED BY <1>1, <1>2, <1>3, <1>5 DEF WakeInv

\* Every action keeps WakeInv.
LEMMA WakeNext == TypeInv /\ Control /\ WakeInv /\ [Next]_vars => WakeInv'
<1> SUFFICES ASSUME TypeInv, Control, WakeInv, [Next]_vars PROVE WakeInv'
  OBVIOUS
<1> USE OwnerIsClient DEF Protected
<1>t. /\ wpc \in [Workers -> WorkerPC] /\ cpc \in [Clients -> ClientPC]
      /\ cindex \in [Clients -> Workers] /\ windex \in [Workers -> Workers]
      /\ queue \in [Workers -> Seq(Tasks)] /\ queue_length \in [Workers -> Int]
      /\ queue_mutex \in [Workers -> Clients \cup {NULL}]
      /\ cworker \in [Clients -> Workers \cup {NULL}]
      /\ destroyed \subseteq Workers
  BY DEF TypeInv, TypeOK
<1>l. LockInv
  BY DEF WakeInv
<1>r. \A c \in Clients : cpc[c] \notin {"idle", "quit", "stop", "join", "done"} => running
  BY DEF Control
<1>1. ASSUME NEW w \in Workers, worker_run_loop(w) PROVE WakeInv'
  BY <1>1, <1>t, <1>l, LockFrame, WakeFrame
     DEF worker_run_loop, WorkerAt, poolVars, queueVars, clientVars
<1>2. ASSUME NEW w \in Workers, worker_find_task(w) PROVE WakeInv'
  <2>1. CASE queue[candidate(w)] # <<>>
    <3>1. candidate(w) \in Workers
      BY CandidateIsWorker DEF TypeInv
    <3>2. worker_get_task(w, candidate(w)) /\ UNCHANGED windex /\ wpc[w] = "find"
      BY <1>2, <2>1 DEF worker_find_task, WorkerAt
    <3> QED BY <1>2, <2>1, <3>1, <3>2, WakePop
            DEF worker_find_task, poolVars, clientVars
  <2>2. CASE queue[candidate(w)] = <<>>
    <3>1. UNCHANGED <<queue, queue_length>> /\ NextCandidate(w) /\ wpc[w] = "find"
      BY <1>2, <2>2 DEF worker_find_task, WorkerAt
    <3>2. /\ \A u \in Workers : u # w => wpc'[u] = wpc[u] /\ windex'[u] = windex[u]
          /\ wpc'[w] \in {"find", "wait"}
      BY <1>t, <3>1 DEF NextCandidate
    <3> QED BY <1>2, <1>t, <1>l, <3>1, <3>2, LockFrame, WakeFrame
            DEF worker_find_task, poolVars, clientVars
  <2> QED BY <2>1, <2>2
<1>3. ASSUME NEW w \in Workers, worker_find_task_unlocked(w) PROVE WakeInv'
  <2>1. /\ candidate(w) \in destroyed /\ wpc[w] = "find"
        /\ wpc' = [wpc EXCEPT ![w] = "unlocked"]
        /\ UNCHANGED <<running, queue, queue_length, queue_mutex, destroyed, windex,
                       cpc, cworker, cindex>>
    BY <1>3 DEF worker_find_task_unlocked, WorkerAt, poolVars, queueVars, clientVars
  <2>2. LockInv'
    BY <1>l, <2>1, LockFrame
  <2>3. GoneInv'
    BY <1>t, <2>1 DEF WakeInv, GoneInv, candidate
  <2>4. LengthInv' /\ NoLostWakeup'
    BY <1>t, <2>1 DEF WakeInv, LengthInv, NoLostWakeup
  <2> QED BY <2>2, <2>3, <2>4 DEF WakeInv
<1>4. ASSUME NEW w \in Workers, worker_get_task_unlocked(w) PROVE WakeInv'
  <2>1. /\ wpc[w] = "unlocked"
        /\ wpc' = [wpc EXCEPT ![w] = "run"]
        /\ queue' = [queue EXCEPT ![candidate(w)] = wrest[w]]
        /\ UNCHANGED <<running, queue_mutex, destroyed, windex, cpc, cworker, cindex>>
    BY <1>4 DEF worker_get_task_unlocked, WorkerAt, poolVars, clientVars
  <2>2. candidate(w) \in destroyed /\ wpc[candidate(w)] = "exited"
    BY <2>1 DEF WakeInv, GoneInv
  <2>3. destroyed # {}
    BY <2>2
  <2>4. LockInv'
    BY <1>l, <2>1, LockFrame
  <2>5. GoneInv'
    BY <1>t, <2>1 DEF WakeInv, GoneInv, candidate
  <2>6. LengthInv'
    BY <2>1, <2>3 DEF LengthInv
  <2>7. \A u \in Workers : wpc'[u] = "asleep" => wpc[u] = "asleep" /\ queue'[u] = queue[u]
    BY <1>t, <2>1, <2>2
  <2>8. NoLostWakeup'
    BY <2>1, <2>7 DEF WakeInv, NoLostWakeup
  <2> QED BY <2>4, <2>5, <2>6, <2>8 DEF WakeInv
<1>5. ASSUME NEW w \in Workers, worker_wait_for_task(w) PROVE WakeInv'
  <2>1. CASE queue[w] # <<>>
    BY <1>5, <2>1, WakePop DEF worker_wait_for_task, WorkerAt, poolVars, clientVars
  <2>2. CASE queue[w] = <<>>
    <3>1. /\ UNCHANGED <<running, queue, queue_length, queue_mutex, destroyed, windex,
                         cpc, cworker, cindex>>
          /\ wpc[w] = "wait"
          /\ wpc' = [wpc EXCEPT ![w] = IF running THEN "asleep" ELSE "loop"]
      BY <1>5, <2>2 DEF worker_wait_for_task, WorkerAt, WaitOrLeave, poolVars, clientVars
    <3>2. LockInv'
      BY <1>l, <3>1, LockFrame
    <3>3. GoneInv'
      BY <1>t, <3>1 DEF WakeInv, GoneInv, candidate
    <3>4. LengthInv'
      BY <3>1 DEF WakeInv, LengthInv
    <3>5. NoLostWakeup'
      BY <1>t, <2>2, <3>1 DEF WakeInv, NoLostWakeup
    <3> QED BY <3>2, <3>3, <3>4, <3>5 DEF WakeInv
  <2> QED BY <2>1, <2>2
<1>6. ASSUME NEW w \in Workers, worker_run_execute(w) PROVE WakeInv'
  <2>1. \A u \in Workers : wpc'[u] # wpc[u] => wpc[u] = "run" /\ wpc'[u] = "free"
    BY <1>6, <1>t DEF worker_run_execute, WorkerAt
  <2> QED BY <1>6, <1>l, <2>1, LockFrame, WakeFrame
          DEF worker_run_execute, poolVars, queueVars, clientVars
<1>7. ASSUME NEW w \in Workers, task_free(w) PROVE WakeInv'
  BY <1>7, <1>t, <1>l, LockFrame, WakeFrame
     DEF task_free, WorkerAt, poolVars, queueVars, clientVars
<1>8. ASSUME NEW w \in Workers, worker_run_done(w) PROVE WakeInv'
  <2>1. \A c \in Clients : cpc'[c] # cpc[c] => cpc[c] = "asleep" /\ cpc'[c] = "wait"
    BY <1>8, <1>t DEF worker_run_done, SignalWaiter
  <2>2. \A u \in Workers : wpc'[u] # wpc[u] => wpc[u] = "dec" /\ wpc'[u] = "loop"
    BY <1>8, <1>t DEF worker_run_done, WorkerAt
  <2>3. UNCHANGED <<running, queue, queue_length, queue_mutex, destroyed, windex, cworker, cindex>>
    BY <1>8 DEF worker_run_done, queueVars
  <2>4. LockInv'
    BY <1>l, <2>1, <2>3, LockFrame
  <2>5. running \/ cpc'[Owner] = cpc[Owner]
    BY <2>1 DEF Control
  <2> QED BY <2>2, <2>3, <2>4, <2>5, WakeFrame
<1>9. ASSUME NEW w \in Workers, worker_spurious_wakeup(w) PROVE WakeInv'
  BY <1>9, <1>t, <1>l, LockFrame, WakeFrame
     DEF worker_spurious_wakeup, WorkerAt, poolVars, queueVars, clientVars
<1>10. ASSUME NEW c \in Clients, worker_start(c) PROVE WakeInv'
  <2>1. /\ running
        /\ UNCHANGED <<running, queue, queue_length, queue_mutex, destroyed, windex, cworker>>
    BY <1>10, <1>r DEF worker_start, ClientAt, poolVars, queueVars
  <2>2. \A d \in Clients : cpc'[d] # cpc[d] => cpc[d] = "init" /\ cpc'[d] = "idle"
    BY <1>10, <1>t DEF worker_start, ClientAt
  <2>3. \A u \in Workers : wpc'[u] # wpc[u] => wpc'[u] = "loop"
    BY <1>10, <1>t DEF worker_start
  <2>4. LockInv'
    BY <1>l, <2>1, <2>2, LockFrame
  <2> QED BY <2>1, <2>3, <2>4, WakeFrame
<1>11. ASSUME NEW c \in Clients, schedule_scan(c) PROVE WakeInv'
  <2>1. /\ running
        /\ UNCHANGED <<running, queue, queue_length, queue_mutex, destroyed, wpc, windex>>
    BY <1>11, <1>r DEF schedule_scan, ClientAt, poolVars, queueVars, workerVars
  <2>2. \A d \in Clients : /\ cpc'[d] # cpc[d] => cpc[d] = "scan" /\ cpc'[d] = "lock"
                           /\ cworker'[d] # cworker[d] => cpc[d] = "scan"
    BY <1>11, <1>t DEF schedule_scan, ClientAt
  <2>4. LockInv'
    BY <1>l, <2>1, <2>2, LockFrame
  <2> QED BY <2>1, <2>4, WakeFrame
<1>12. ASSUME NEW c \in Clients, schedule_enqueue(c) PROVE WakeInv'
  <2> DEFINE w == cworker[c]
  <2>1. /\ running /\ cpc[c] = "lock"
        /\ w \in Workers /\ queue_mutex[w] = NULL /\ ctask[c] \in Tasks
        /\ UNCHANGED <<running, queue_length, destroyed, wpc, windex, cworker, cindex>>
    BY <1>12, <1>t, <1>r
       DEF schedule_enqueue, ClientAt, Unlocked, workerVars, TypeInv, Locals
  <2>2. /\ queue_mutex'[w] = c
        /\ \A u \in Workers : u # w => queue_mutex'[u] = queue_mutex[u] /\ queue'[u] = queue[u]
        /\ queue'[w] = Append(queue[w], ctask[c])
    BY <1>12, <1>t, <2>1 DEF schedule_enqueue
  <2>3. /\ cpc'[c] = "publish"
        /\ \A d \in Clients : d # c => cpc'[d] = cpc[d]
    BY <1>12, <1>t DEF schedule_enqueue
  <2>4. Len(queue'[w]) = Len(queue[w]) + 1
    BY <1>t, <2>1, <2>2
  <2> HIDE DEF w
  <2>5. LockInv'
    <3>1. \A d \in Clients : cpc'[d] = "publish" => queue_mutex'[cworker'[d]] = d
      <4> SUFFICES ASSUME NEW d \in Clients, cpc'[d] = "publish"
                   PROVE  queue_mutex'[cworker'[d]] = d
        OBVIOUS
      <4>1. CASE d = c
        BY <2>1, <2>2, <4>1 DEF w
      <4>2. CASE d # c
        <5>1. cpc[d] = "publish" /\ cworker[d] \in Workers /\ queue_mutex[cworker[d]] = d
          BY <1>l, <2>3, <4>2 DEF LockInv, TypeInv, Locals
        <5>2. cworker[d] # w
          BY <2>1, <5>1, NullIsNoClient
        <5> QED BY <2>1, <2>2, <5>1, <5>2
      <4> QED BY <4>1, <4>2
    <3>2. \A u \in Workers : queue_mutex'[u] # NULL =>
              cpc'[queue_mutex'[u]] = "publish" /\ cworker'[queue_mutex'[u]] = u
      <4> SUFFICES ASSUME NEW u \in Workers, queue_mutex'[u] # NULL
                   PROVE  cpc'[queue_mutex'[u]] = "publish" /\ cworker'[queue_mutex'[u]] = u
        OBVIOUS
      <4>1. CASE u = w
        BY <2>1, <2>2, <2>3, <4>1 DEF w
      <4>2. CASE u # w
        <5>1. queue_mutex'[u] = queue_mutex[u] /\ queue_mutex[u] \in Clients
          BY <1>t, <2>2, <4>2
        <5>2. cpc[queue_mutex[u]] = "publish" /\ cworker[queue_mutex[u]] = u
          BY <1>l, <5>1 DEF LockInv
        <5> QED BY <2>1, <2>3, <5>1, <5>2
      <4> QED BY <4>1, <4>2
    <3> QED BY <3>1, <3>2 DEF LockInv
  <2>6. GoneInv'
    BY <2>1 DEF WakeInv, GoneInv, candidate
  <2>7. LengthInv'
    <3>1. \A u \in Workers : queue_length[u] \in Int /\ Len(queue[u]) \in Nat
      BY <1>t
    <3>2. queue_length[w] = Len(queue[w])
      BY <2>1, <3>1 DEF WakeInv, LengthInv, Control
    <3>3. queue_length'[w] = Len(queue'[w]) - 1 /\ queue_mutex'[w] # NULL
      BY <2>1, <2>2, <2>4, <3>1, <3>2, NullIsNoClient
    <3> QED BY <2>1, <2>2, <3>3 DEF WakeInv, LengthInv
  <2>8. NoLostWakeup'
    <3>1. queue_mutex'[w] # NULL
      BY <2>2, NullIsNoClient
    <3> QED BY <2>1, <2>2, <3>1 DEF WakeInv, NoLostWakeup
  <2> QED BY <2>5, <2>6, <2>7, <2>8 DEF WakeInv
<1>13. ASSUME NEW c \in Clients, schedule_publish(c) PROVE WakeInv'
  <2> DEFINE w == cworker[c]
  <2>1. /\ running /\ cpc[c] = "publish"
        /\ w \in Workers /\ queue_mutex[w] = c
        /\ UNCHANGED <<running, queue, destroyed, windex, cindex>>
    BY <1>13, <1>l, <1>r
       DEF schedule_publish, ClientAt, poolVars, TypeInv, Locals, LockInv
  <2>2. /\ queue_mutex'[w] = NULL
        /\ queue_length'[w] = queue_length[w] + 1
        /\ \A u \in Workers : u # w =>
              queue_mutex'[u] = queue_mutex[u] /\ queue_length'[u] = queue_length[u]
    BY <1>13, <1>t, <2>1 DEF schedule_publish
  <2>3. /\ cpc'[c] = "idle"
        /\ \A d \in Clients : d # c => cpc'[d] = cpc[d] /\ cworker'[d] = cworker[d]
    BY <1>13, <1>t DEF schedule_publish, ScheduleReturns
  <2>4. /\ wpc'[w] # "asleep"
        /\ wpc'[w] # wpc[w] => wpc[w] = "asleep" /\ wpc'[w] = "wait"
        /\ \A u \in Workers : u # w => wpc'[u] = wpc[u]
    BY <1>13, <1>t, <2>1 DEF schedule_publish, SignalWorker
  <2> HIDE DEF w
  <2>5. LockInv'
    <3>1. \A d \in Clients : cpc'[d] = "publish" => queue_mutex'[cworker'[d]] = d
      <4> SUFFICES ASSUME NEW d \in Clients, cpc'[d] = "publish"
                   PROVE  queue_mutex'[cworker'[d]] = d
        OBVIOUS
      <4>1. d # c
        BY <2>3
      <4>2. cpc[d] = "publish" /\ cworker[d] \in Workers /\ queue_mutex[cworker[d]] = d
        BY <1>l, <2>3, <4>1 DEF LockInv, TypeInv, Locals
      <4>3. cworker[d] # w
        BY <2>1, <4>1, <4>2
      <4> QED BY <2>2, <2>3, <4>1, <4>2, <4>3
    <3>2. \A u \in Workers : queue_mutex'[u] # NULL =>
              cpc'[queue_mutex'[u]] = "publish" /\ cworker'[queue_mutex'[u]] = u
      <4> SUFFICES ASSUME NEW u \in Workers, queue_mutex'[u] # NULL
                   PROVE  cpc'[queue_mutex'[u]] = "publish" /\ cworker'[queue_mutex'[u]] = u
        OBVIOUS
      <4>1. u # w /\ queue_mutex'[u] = queue_mutex[u] /\ queue_mutex[u] \in Clients
        BY <1>t, <2>2
      <4>2. cpc[queue_mutex[u]] = "publish" /\ cworker[queue_mutex[u]] = u
        BY <1>l, <4>1 DEF LockInv
      <4>3. queue_mutex[u] # c
        BY <4>1, <4>2 DEF w
      <4> QED BY <2>3, <4>1, <4>2, <4>3
    <3> QED BY <3>1, <3>2 DEF LockInv
  <2>6. GoneInv'
    BY <2>1, <2>4 DEF WakeInv, GoneInv, candidate, Control
  <2>7. LengthInv'
    <3>1. \A u \in Workers : queue_length[u] \in Int /\ Len(queue[u]) \in Nat
      BY <1>t
    <3>2. queue_length[w] = Len(queue[w]) - 1
      BY <2>1, <3>1, NullIsNoClient DEF WakeInv, LengthInv, Control
    <3>3. queue_length'[w] = Len(queue'[w])
      BY <2>1, <2>2, <3>1, <3>2
    <3> QED BY <2>1, <2>2, <3>1, <3>3 DEF WakeInv, LengthInv
  <2>8. NoLostWakeup'
    BY <2>1, <2>2, <2>4 DEF WakeInv, NoLostWakeup
  <2> QED BY <2>5, <2>6, <2>7, <2>8 DEF WakeInv
<1>14. ASSUME NEW c \in Clients, cx_threadpool_wait(c) PROVE WakeInv'
  <2>1. running
    BY <1>14, <1>r DEF cx_threadpool_wait, ClientAt
  <2>2. \A d \in Clients : cpc'[d] # cpc[d] => cpc[d] = "wait" /\ cpc'[d] \in {"idle", "asleep"}
    BY <1>14, <1>t DEF cx_threadpool_wait, ClientAt
  <2> QED BY <1>14, <1>l, <2>1, <2>2, LockFrame, WakeFrame
          DEF cx_threadpool_wait, poolVars, queueVars, workerVars
<1>15. ASSUME NEW c \in Clients, worker_cleanup(c) PROVE WakeInv'
  <2> DEFINE i == cindex[c]
  <2>1. /\ c = Owner /\ ~running /\ cpc[c] = "stop" /\ i \in Workers
        /\ UNCHANGED <<running, queue, queue_length, queue_mutex, destroyed, windex, cworker, cindex>>
    BY <1>15, <1>t DEF worker_cleanup, ClientAt, poolVars, queueVars, Control
  <2>2. /\ cpc'[c] = "join"
        /\ \A d \in Clients : d # c => cpc'[d] = cpc[d]
    BY <1>15, <1>t DEF worker_cleanup
  <2>3. /\ wpc'[i] # "asleep"
        /\ wpc'[i] # wpc[i] => wpc[i] = "asleep" /\ wpc'[i] = "wait"
        /\ \A u \in Workers : u # i => wpc'[u] = wpc[u]
    BY <1>15, <1>t, <2>1 DEF worker_cleanup, SignalWorker
  <2>4. LockInv'
    BY <1>l, <2>1, <2>2, LockFrame
  <2>5. GoneInv'
    BY <1>t, <2>1, <2>3 DEF WakeInv, GoneInv, candidate
  <2>6. LengthInv'
    BY <2>1 DEF WakeInv, LengthInv
  <2>7. NoLostWakeup'
    BY <2>1, <2>2, <2>3 DEF WakeInv, NoLostWakeup
  <2> QED BY <2>4, <2>5, <2>6, <2>7 DEF WakeInv
<1>16. ASSUME NEW c \in Clients, worker_cleanup_join(c) PROVE WakeInv'
  <2> DEFINE i == cindex[c]
  <2>1. /\ c = Owner /\ ~running /\ cpc[c] = "join" /\ i \in Workers /\ wpc[i] = "exited"
        /\ destroyed' = destroyed \cup {i}
        /\ UNCHANGED <<running, queue, queue_length, queue_mutex, wpc, windex, cworker>>
    BY <1>16, <1>t DEF worker_cleanup_join, Joined, ClientAt, poolVars, workerVars, Control
  <2>2. /\ cpc'[c] \in {"stop", "done"}
        /\ \A d \in Clients : d # c => cpc'[d] = cpc[d]
    BY <1>16, <1>t DEF worker_cleanup_join
  <2>3. LockInv'
    BY <1>l, <2>1, <2>2, LockFrame
  <2>4. GoneInv'
    BY <2>1 DEF WakeInv, GoneInv, candidate
  <2>5. LengthInv'
    BY <2>1 DEF LengthInv
  <2>6. \A w \in Workers : wpc[w] = "asleep" => i + 1 <= w
    <3> SUFFICES ASSUME NEW w \in Workers, wpc[w] = "asleep" PROVE i + 1 <= w
      OBVIOUS
    <3>1. i <= w /\ i # w
      BY <2>1 DEF WakeInv, NoLostWakeup
    <3> QED BY <2>1, <3>1 DEF Workers
  <2>7. CASE i + 1 < WorkerCount
    <3>1. cindex'[c] = i + 1 /\ cpc'[c] = "stop"
      BY <1>16, <1>t, <2>7 DEF worker_cleanup_join
    <3>2. NoLostWakeup'
      BY <2>1, <2>6, <3>1 DEF WakeInv, NoLostWakeup
    <3> QED BY <2>3, <2>4, <2>5, <3>2 DEF WakeInv
  <2>8. CASE ~(i + 1 < WorkerCount)
    <3>1. \A w \in Workers : wpc[w] # "asleep"
      <4>1. WorkerCount \in Nat
        BY ThreadpoolAssumption DEF ThreadpoolAssumption
      <4> QED BY <2>1, <2>6, <2>8, <4>1 DEF Workers
    <3>2. NoLostWakeup'
      BY <2>1, <3>1 DEF NoLostWakeup
    <3> QED BY <2>3, <2>4, <2>5, <3>2 DEF WakeInv
  <2> QED BY <2>7, <2>8
<1>17. ASSUME NEW c \in Clients, worker_cleanup_join_uncreated(c) PROVE WakeInv'
  BY <1>17, <1>l, LockFrame, WakeFrame
     DEF worker_cleanup_join_uncreated, poolVars, queueVars, workerVars, clientVars
<1>18. ASSUME NEW c \in Clients, NEW j \in Jobs, NEW t \in Tasks, task_new(c, j, t) PROVE WakeInv'
  <2>1. running
    BY <1>18 DEF task_new, ClientAt, Initialised, Control
  <2>2. \A d \in Clients : cpc'[d] # cpc[d] \/ cworker'[d] # cworker[d] =>
            cpc[d] = "idle" /\ cpc'[d] = "scan"
    BY <1>18, <1>t DEF task_new, ClientAt
  <2> QED BY <1>18, <1>l, <2>1, <2>2, LockFrame, WakeFrame
          DEF task_new, poolVars, queueVars, workerVars
<1>19. ASSUME NEW c \in Clients, NEW j \in Jobs, task_new_fails(c, j) PROVE WakeInv'
  BY <1>19, <1>l, LockFrame, WakeFrame
     DEF task_new_fails, poolVars, queueVars, workerVars, clientVars
<1>20. ASSUME NEW c \in Clients, schedule_lock_fails(c) PROVE WakeInv'
  <2>1. running
    BY <1>20, <1>r DEF schedule_lock_fails, ClientAt
  <2>2. \A d \in Clients : cpc'[d] # cpc[d] \/ cworker'[d] # cworker[d] =>
            cpc[d] = "lock" /\ cpc'[d] = "idle"
    BY <1>20, <1>t DEF schedule_lock_fails, ScheduleReturns, ClientAt
  <2> QED BY <1>20, <1>l, <2>1, <2>2, LockFrame, WakeFrame
          DEF schedule_lock_fails, poolVars, queueVars, workerVars
<1>21. ASSUME NEW c \in Clients, wait_enter(c) PROVE WakeInv'
  <2>1. running
    BY <1>21 DEF wait_enter, ClientAt, Initialised, Control
  <2>2. \A d \in Clients : cpc'[d] # cpc[d] => cpc[d] = "idle" /\ cpc'[d] = "wait"
    BY <1>21, <1>t DEF wait_enter, ClientAt
  <2> QED BY <1>21, <1>l, <2>1, <2>2, LockFrame, WakeFrame
          DEF wait_enter, poolVars, queueVars, workerVars
<1>22. ASSUME NEW c \in Clients, wait_spurious_wakeup(c) PROVE WakeInv'
  <2>1. running
    BY <1>22, <1>r DEF wait_spurious_wakeup, ClientAt
  <2>2. \A d \in Clients : cpc'[d] # cpc[d] => cpc[d] = "asleep" /\ cpc'[d] = "wait"
    BY <1>22, <1>t DEF wait_spurious_wakeup, ClientAt
  <2> QED BY <1>22, <1>l, <2>1, <2>2, LockFrame, WakeFrame
          DEF wait_spurious_wakeup, poolVars, queueVars, workerVars
<1>23. ASSUME NEW c \in Clients, quit(c) PROVE WakeInv'
  <2>1. c # Owner
    BY <1>23 DEF quit
  <2>2. \A d \in Clients : cpc'[d] # cpc[d] => d = c /\ cpc[d] = "idle" /\ cpc'[d] = "quit"
    BY <1>23, <1>t DEF quit, ClientAt
  <2> QED BY <1>23, <1>l, <2>1, <2>2, LockFrame, WakeFrame
          DEF quit, poolVars, queueVars, workerVars
<1>24. ASSUME NEW c \in Clients, cx_threadpool_cleanup(c) PROVE WakeInv'
  BY <1>24, WakeStop DEF cx_threadpool_cleanup, ClientAt
<1>25. ASSUME NEW c \in Clients, init_fails(c) PROVE WakeInv'
  BY <1>25, <1>l, LockFrame, WakeFrame
     DEF init_fails, poolVars, queueVars, workerVars, clientVars
<1>26. ASSUME NEW c \in Clients, worker_start_fails(c) PROVE WakeInv'
  <2>1. c = Owner
    BY <1>26 DEF worker_start_fails, ClientAt, Control
  <2> QED BY <1>26, <2>1, WakeStop DEF worker_start_fails, ClientAt
<1>27. CASE UNCHANGED vars
  BY <1>27, <1>l, LockFrame, WakeFrame
     DEF vars, poolVars, queueVars, workerVars, clientVars
<1> QED
  BY <1>1, <1>2, <1>3, <1>4, <1>5, <1>6, <1>7, <1>8, <1>9, <1>10, <1>11, <1>12, <1>13,
     <1>14, <1>15, <1>16, <1>17, <1>18, <1>19, <1>20, <1>21, <1>22, <1>23, <1>24, <1>25, <1>26, <1>27
     DEF Next, WorkerStep, ClientStep, ClientCall, Terminated

\* The types, the control and WakeInv hold in every reachable state.
LEMMA WakeInvariant == Spec => [](TypeInv /\ Control /\ WakeInv)
<1>1. Init => TypeInv /\ Control /\ WakeInv
  BY TypeCorrectInit, ControlInit, WakeInit
<1>2. TypeInv /\ Control /\ WakeInv /\ [Next]_vars => (TypeInv /\ Control /\ WakeInv)'
  BY TypeCorrectNext, ControlNext, WakeNext
<1> QED BY <1>1, <1>2, PTL DEF Spec

\* The queue_length that schedule reads without the lock is the length of the
\* list, one behind only inside the critical section of schedule, for any
\* number of workers that take from it and clients that add to it, until
\* cleanup destroys the first queue mutex.
THEOREM QueueLengthTracksHolds == Spec => []QueueLengthTracks
<1>1. TypeInv /\ Control /\ WakeInv => QueueLengthTracks
  <2>1. ASSUME TypeInv, LengthInv, Protected, NEW w \in Workers
        PROVE  queue_length[w] = Len(queue[w]) - (IF queue_mutex[w] = NULL THEN 0 ELSE 1)
    <3>1. Len(queue[w]) \in Nat
      BY <2>1 DEF TypeInv, TypeOK
    <3>2. CASE queue_mutex[w] = NULL
      BY <2>1, <3>1, <3>2 DEF LengthInv
    <3>3. CASE queue_mutex[w] # NULL
      BY <2>1, <3>1, <3>3 DEF LengthInv
    <3> QED BY <3>2, <3>3
  <2> QED BY <2>1 DEF WakeInv, QueueLengthTracks
<1> QED BY WakeInvariant, <1>1, PTL

\* No worker sleeps on queue_cond over a task nobody will signal, and none
\* sleeps on once worker_cleanup has signalled it, whatever fails and however
\* many workers write the queues of destroyed ones.
THEOREM NoLostWakeupHolds == Spec => []NoLostWakeup
<1>1. TypeInv /\ Control /\ WakeInv => NoLostWakeup
  BY DEF WakeInv
<1> QED BY WakeInvariant, <1>1, PTL
=============================================================================
