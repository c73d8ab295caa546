# Verification of cextras

cextras is a C library of concurrency primitives, allocators, containers and
Unicode helpers. This directory holds TLA+ models of its parts, the TLC
configurations that check them on small instances, and TLAPS proofs of the most
important invariants for all instances. `PROJECT.json` lists the components,
the runs, the hazards each property is aimed at, the source lines of every
definition, and for every property a mutation of the code that it catches.

## 1. The system

| part | source | state | operations |
|---|---|---|---|
| thread pool | `lib/concurrency/threadpool.c` | per worker a FIFO list of tasks with mutex, condition and atomic length; `running`, `active_tasks`; a pool of task cells | init, schedule, wait, cleanup; the worker thread |
| future | `lib/concurrency/future.c` | `out_value` under a mutex, NULL = unresolved | wait, resolve, get_in_value, destroy |
| semaphore | `lib/concurrency/semaphore.c` | `count` under a mutex | wait, post, destroy |
| preallocated pool | `lib/memory/prealloc_pool.c` | array of chunks, offset in the last chunk, free list | get, recycle, cleanup |
| reference-counted array | `lib/collection/rc_map.c` | a count and a value per slot | set, retain, release, cleanup |
| LRU cache | `lib/collection/lru.c` | a ring of keys, each with a reference in a backend | touch, touch_value, cleanup |
| reference-counted hash map | `lib/collection/rc_hash_map.c` | a list of tables: keys and a reference-counted array | put, retain, release, release_key, cleanup |
| radix tree | `lib/collection/radix_tree.c` | capacity, root, branches | get, put / new_leaf, delete |
| reference-counted radix tree | `lib/collection/rc_radix_tree.c` | a radix tree of counted leaves | put, retain, release, cleanup |
| buffer | `lib/collection/buffer.c` | a block, size, capacity | add_capacity (rounded or exact), add_size, append, move, drain, unwrap, cleanup |
| collector | `lib/collection/collector.c` | two buffers: offsets and strings | collect, which drives an iterator callback |
| atomic reference count | `lib/memory/rc.c` | an atomic unsigned int | init, retain, release |
| UTF-8, UTF-16, width | `lib/unicode/utf8.c`, `utf16.c`, `unicode-width.c` | none | length, byte index, decoding, columns, column index |
| Unicode tables | `lib/unicode/codegen/byte_size.c`, `char_width.c` | generated arrays | run by the build on the files of the Unicode database |

How they interact:

* The thread pool keeps its tasks in a preallocated pool under
  `task_pool_mutex`; a recycled cell is overwritten by the free list, so a cell
  that is still read after `task_free` runs a wrong function.
* The radix tree gets its branches and leaves from two preallocated pools, and
  relies on new branches being zeroed.
* The hash map is built from reference-counted arrays; the reference-counted
  radix tree promises the same interface; the cache drives any of the three
  through a table of functions (`CxLruBackend`).
* The collector keeps offsets in one buffer and bytes in another and joins them
  at the end; both move while they grow, so nothing may keep an address.
* A future is destroyed by its callers, who must know that nobody is inside a
  call; a `CxRc` beside it is how they can know. Jobs of the thread pool use
  futures to wait for each other.
* The width functions read tables through two levels that another program
  generated; they call the UTF-8 functions for the characters.
* Only the thread pool, the future, the semaphore and `CxRc` are meant for
  several threads. Containers leave locking to their callers.

What is hard: work stealing with unlocked reads of queue lengths; four sleep and
wake protocols; cleanup while workers still run; counts that must agree with
references in every order of calls; slots, leaves and cells that are used again;
blocks that `realloc` moves and structures that pass them on; system calls that
fail half-way through an operation; the edges of tables and characters.

## 2. Modules

| module | models | notes |
|---|---|---|
| `Threadpool` | `threadpool.c` | one action per access other threads can see; faults are a constant |
| `ThreadpoolProofs` | | proofs about `Threadpool` |
| `Semaphore` | `semaphore.c` | a wrapping `size_t`, failing pthread calls |
| `Future` | `future.c` | the unlock at the end of a call is a step of its own |
| `Rc` | `rc.c` | holders of references |
| `SharedFuture` | `future.c` and `rc.c` together | refines `Future` |
| `SyncProofs` | | proofs about `Semaphore`, `Future`, `Rc` and `SharedFuture` |
| `PoolFutures` | `threadpool.c` and `future.c` together | jobs that wait for futures |
| `PreallocPool`, `PreallocPoolProofs` | `prealloc_pool.c` | addresses are (chunk, byte) pairs |
| `RcMapOps` | `rc_map.c` | its functions as operators on values |
| `RcMap`, `RcMapProofs` | `rc_map.c` and its clients | also the abstract specification of `RcRadixTree` |
| `Lru` | `lru.c` | extends `RcMap`: the cache and direct calls interleave; proofs in `RcMapProofs` |
| `RcHashMap`, `RcHashMapProofs` | `rc_hash_map.c` | uses `RcMapOps` for its tables |
| `RadixTreeOps` | `radix_tree.c` | its functions as operators, by recursive functions over the levels |
| `RadixTree` | `radix_tree.c` and its callers | with failing pools |
| `RcRadixTree`, `RcRadixTreeProofs` | `rc_radix_tree.c` | extends `RadixTree`, refines `RcMap`; the proofs cover both trees |
| `Buffer` | `buffer.c` and its callers | functions as the sets of their outcomes, over a heap |
| `Collector`, `CollectorProofs` | `collector.c` | extends `Buffer`: both share the heap; the proofs cover both |
| `Utf8` | `utf8.c`, `utf16.c`, `byte_size.c` | operators |
| `WidthTable` | `char_width.c`, `table_lookup` of `unicode-width.c` | operators |
| `Unicode`, `UnicodeProofs` | `unicode-width.c` | extends both; a state machine that enumerates files and texts; the proofs cover all three |
| `MC*` | | symmetry sets, hash functions, texts and files for TLC |

### Threadpool

`worker_run` is cut into `worker_run_loop` (the test of `running`),
`worker_find_task` (one round of the search, under the candidate's mutex),
`worker_wait_for_task`, `worker_run_execute`, `task_free` and `worker_run_done`.
`cx_threadpool_schedule` is `task_new`, one `schedule_scan` for each unlocked
load of a queue length, `schedule_enqueue` (the list changes and the task is
counted as active) and `schedule_publish` (the length, the signal, the unlock).
`cx_threadpool_cleanup` clears `running`, then signals, joins and destroys worker
after worker. While later workers still run, they may meet the mutex of an
earlier one that is destroyed already; locking it fails, the result is not
looked at, and `worker_get_task` runs unprotected: `worker_find_task_unlocked`
and `worker_get_task_unlocked` are the two halves of that race. The critical
sections of `wait_mutex` and `task_pool_mutex` are single actions.
The history variables `issued`, `accepted`, `dropped` and `runs` record what
callers can observe. A client makes one call at a time; only the owner cleans up,
after the others have stopped calling. In `Threadpool` jobs are functions that
return. In `PoolFutures` a job waits for the futures of the jobs in `Awaits`
before it ends and resolves its own: the worker of a job whose future is not
resolved cannot take a step. The futures are used in the safest possible order,
a job is scheduled only after the jobs it waits for.

### Future and reference count

`Future` leaves its callers' duties, not to call a destroyed future and not to
destroy one in use, as conditions in `Next`, because the code does not check
them. `SharedFuture` takes the steps without these conditions, gives every thread
a reference (`Rc`) and lets the thread whose `cx_rc_release` returns true destroy
the future. That the result implements `Future` (`ImplementsFuture`) says that
the count discharges the duties, also for a thread that is still in the
`pthread_mutex_unlock` at the end of its call.

### Containers

The clients of `RcMap`, `RcHashMap` and `RcRadixTree` use the interface as it is
meant: they release what they hold and serialise their calls. `held` counts
their references, `cleaned` the calls of the cleanup function. Items are the
objects that clients pass in, each once. In `PreallocPool`, `RadixTree` and
`RcHashMap` a failed allocation leaves a state in which the next call may use
memory that is not there: the models enter it (`broken`, or counters in
`PreallocPool`) and the properties say what still holds.

`RcRadixTree` starts either as a plain radix tree with the callers of `RadixTree`
or as the values of a `CxRcRadixTree` (`counted`), so that one instance covers
both.

### Buffer and collector

`Buffer` has a heap of blocks at numbered addresses. A function that allocates is
the set of its outcomes: `realloc` fails, keeps the block's address or takes a
free one, of which the lowest stands for all. `size_t` has `SIZE_BITS` bits, so
that both overflow checks and the missing power of two are met. Callers mix all
functions on two buffers; `log` records what they appended and `spare` what they
reserved. `cx_collect` is one action per call of the iterator (`handle_next`,
with its three appends chained through their outcomes) and `collect_ends`. A
pointer in memory is `WORD` cells that only make sense together.

### Unicode

The functions have no state. `Unicode` first lets the two files of the database
get lines, then runs the generator, then types a text character by character
and damages it by cutting bytes off or adding stray ones. The functions are
compared in every state with the code points typed and the lines of the files.
`utf8_len_map` and `utf16_len_map` are the arrays `byte_size.c` prints. A table
byte is the set of its bits. `UINT8_MAX` is a parameter, so that the number of
blocks can exceed what a lookup entry can hold.

## 3. Runs

| run | instance | states | result |
|---|---|---|---|
| `threadpool_safety` | 3 workers, 2 clients (both wait), 3 jobs, 2 cells, all faults | 616,004 | holds |
| `pool_futures` | 2 workers, 2 clients, 1 waiter, job 2 waits for job 1, 2 cells | 13,652 | holds |
| `threadpool_two_waiters` | 2 workers, 2 waiters, 1 job | 3,618 | `WaitReturns` violated |
| `semaphore` | 4 threads, `SIZE_MAX` 3, 6 posts, all faults | 36,168 | holds |
| `shared_future` | 2 resolvers, 2 waiters, a creator, 2 values and NULL | 27,420 | holds |
| `prealloc_pool` | chunks of 2 and 4 elements of 2 bytes, both faults | 6,029 | holds |
| `lru` | 4 slots, one of them the marker, 4 items, 2 references a slot, rings of 0 to 3 | 165,883 | holds |
| `rc_hash_map` | 4 keys, 3 with one hash index, 4 indices, 2 probes, 2 tables, 5 items | 6,468 | holds |
| `rc_hash_map_release_key` | the same, all keys released by key | | `CountsNotNegative` violated |
| `rc_radix_tree` | radix 2, 3 levels, 4 keys, 3 leaves, 4 items, 2 references; both faults for the plain tree | 5,856 | holds |
| `collector` | 2 buffers, 3 blocks, `size_t` of 5 bits, 3 strings, words of 2 bytes | 310,588 | holds |
| `unicode` | 2 lines a file, blocks of 16, 3 characters out of 10, 2 damaged bytes | 63,813 | holds |

Why the bounds are enough to meet the interesting cases:

* Three workers: two thieves meet at a third queue, and two workers are left
  while cleanup is between them. Three jobs and two cells: a cell is used again
  while another job is queued. `SIZE_MAX` only has to exceed the number of
  cells, as in the code.
* Four threads at a semaphore: two sleepers, a poster and a late thread that
  takes the unit first. `SIZE_MAX` = 3 lets the count wrap around.
* Three colliding keys and two probes: the third put adds a table, and a slot
  that became empty still shows a key that lives elsewhere.
* Keys 0 to 6 in a tree of radix 2 grow the tree by zero, one and three levels
  in one put, over an empty tree, a single leaf and branches. The code has
  radix 256 and eight levels; only the number of digits matters to the walk.
* An LRU ring of size 0 is the early return, of size 1 the case in which the
  oldest and the newest entry are the same. `MaxCount` bounds the count of the
  key that equals the marker, which is the only one that grows without end.
* Two jobs, two workers and their queues are the least in which a worker can
  overtake the job it waits for. An instance with a third job that waits for
  nothing and a third cell (431,455 states) was checked with the same result;
  it takes longer than the run. So were three workers with one client (74,191
  states) and with two (163,591 states): there cleanup meets workers that use
  destroyed mutexes while it is under way, and returns unless one of them crashed or
  waits for a job that nobody will run.
* Five holders and `UINT_MAX` = 5: the count reaches the largest value that the
  code's type is assumed to hold, and each holder can be the last.
* A `size_t` of 5 bits and requests of 1 and 31 bytes: sums overflow, powers of
  two do not exist, and ordinary appends still fit. Three strings grow the array
  and the strings over several powers of two, so that each moves before and
  after the other.
* The code points of `unicode` are both sides of every change of the encoded
  length, a tab, one of width 0 and one that is wide. Lines fill a block, end in
  one, cross its boundary and name a single code point; with `UINT8_MAX` = 2
  three mixed blocks are already too many. The build uses blocks of 256 and 512
  and the same arithmetic.

Properties, by what they protect:

* Thread pool. `TaskOwnership`: every cell in use has exactly one place.
  `ActiveAccounting`: `active_tasks` counts queued tasks and busy workers.
  `QueueLengthTracks`: the length that is read without a lock. `RunAtMostOnce`.
  These four hold until cleanup destroys the first queue mutex (`Protected`), also
  while the stopped workers finish; after that they are wrong, see section 4.
  `NoLostWakeup`, and the action property `WaitCompletes`: wait returns only when
  everything that was scheduled before has run. Liveness, with jobs that wait for
  each other: `JobsRun`, `WaitsReturn` (one waiter), `CleanupReturns`. Each names
  its one exception, see section 4.
* Semaphore. `UnitsTakenOnce`: nobody gets through wait without a unit of its own,
  and units are lost only when `count++` wraps around; `count--` wraps in the
  model too, so that a thread which does not test again after it was woken would
  show. `NoLostWakeup`: beside a sleeper every unit has a woken thread;
  `SleeperServed`.
* Future and reference count. `Agreement` of all waiters on the one successful
  resolve; `FreedByOne`: exactly one holder is told to free, when no reference is
  left; `ImplementsFuture`: nobody uses a destroyed future; `FreedInTheEnd`: once
  a future is resolved every waiter returns and the future is destroyed.
* Preallocated pool. `HandedOutOnce`, `NoOverlap`, `InBounds`,
  `FreesAllChunks`. The first two hold whatever fails; `InBounds` as long as no
  `calloc` failed and `FreesAllChunks` as long as no `realloc` did, each with the
  other failing as often as it likes.
* Counted containers. `ReferencesStayGood`: what a client holds keeps its item.
  `CleanedOnce`: no item is leaked or cleaned up twice. `LruCounted`: counts are
  client references plus ring entries, so that the assertion of
  `cx_rc_map_cleanup` holds when everything was given back; only the count of the
  key that equals the marker may be too high.
  `LastTouchedStays`. `RetainFinds`: a key with references is always within reach of
  the probes, and a key that collides with no other is not hidden behind an empty
  slot either.
* Radix trees. `OthersUntouched`, `LeavesNotShared`;
  `AddressStays`; `ImplementsRcMap`, the refinement: with the keys as slots and
  what the tree finds as the map, every step of `RcRadixTree` is a step of
  `RcMap` or a stutter; in particular a key that was put is found.
* Buffer and collector. `TypeOK` contains `Shape`: capacity is the length of the
  block, and contents and reserved bytes fit. `ContentsKept`: the contents are
  what was appended, whatever moved. `OneOwner`: every block has exactly one
  owner. `Collected`: the result of `cx_collect` is an array of pointers into
  itself to the strings that were yielded, in order, and NULL.
  `FailedCallsLeaveNoTrace`: after an error nothing has changed ("On error, the
  buffer is not modified"), and a failed `cx_collect` leaks nothing.
* Unicode. `TablesExact`: the generated tables say of every code point what the
  files say, as long as the blocks can be numbered by a byte. `TextMeasured`: on a
  well-formed text every function agrees with the text. `DamageSeen`: on any
  bytes indices stay inside the string and a cut character is noticed.

### Fairness

`Threadpool!FairSpec` and `FuturesSpec` have weak fairness for the steps a worker
or a client takes inside a function it has entered; a worker whose job waits for
an unresolved future has no step. This is the scheduler's promise that a thread
which can run does run, that a mutex which is free is obtained, and that jobs
return when what they wait for is there. Entering a function, spurious wakeups
and failures have no fairness. Weak fairness is enough because the critical
sections are short and no property needs a thread to win a mutex against
infinitely many others: the number of jobs is finite. `Semaphore` and
`SharedFuture` have weak fairness for the thread inside `wait`, for the same
reason; `SharedFuture` also assumes that a thread gives up its reference and
destroys the future when told to, which is the contract of `CxRc`. Nobody is
assumed to call wait or resolve, and a waiter that nobody resolves keeps its
reference.

## 4. Disagreements between the code and what is written about it

Two are runs with expected violations:

* `cx_threadpool_wait` "Waits for all tasks to finish", but the last task wakes
  one waiter with `pthread_cond_signal`; a second one sleeps for ever
  (`threadpool_two_waiters`).
* `release_rc` asserts that counts are not negative, but
  `cx_rc_hash_map_release_key` stops at an empty slot that still shows the key
  (`rc_hash_map_release_key`).

Others are visible in the models and bound the properties:

* `cx_threadpool_schedule` returns 0 when it has dropped the job (`dropped`),
  and `cx_threadpool_init` returns 0 after a failure.
* Jobs that wait for futures can stop the pool although they are scheduled in the
  order of their futures. A worker looks at its own queue and finds it empty; job
  1 is appended there; the worker goes on to another queue, steals job 2, which
  waits for job 1, and blocks. The other workers sleep on their own queues and
  nobody signals them (`Overtaken` in `PoolFutures`, the exception of `JobsRun`
  and `WaitsReturn`). In the same way cleanup does not return if it leaves a job
  in a queue that a running job waits for (`CleanupReturns`).
* The workers that cleanup has not joined yet use destroyed mutexes (see above), so
  a task may run twice after the first one was joined.
* `cx_threadpool_init` never initialises `wait_mutex`, `wait_cond` and
  `task_pool_mutex` (`threadpool.c:189-214`). The model takes them as working,
  which they are on Linux in a pool that is zeroed before.
* `cx_future_resolve(f, NULL)` succeeds and resolves nothing;
  `cx_future_get_in_value` does not block, as `concurrency.h` says it does.
* `cx_rc_hash_map_retain` returns NULL for a key that is present behind an empty
  slot showing the same key; hence the second half of `RetainFinds` speaks of keys
  without collisions.
* `cx_lru_rc_hash_map` has no `.retain_value` (`rc_hash_map.c:223-226`), so that
  `cx_lru_touch_value` over a hash map would call a NULL pointer. The models of
  the cache use the backend of `rc_map.c`, which has one.
* `cx_radix_tree_new_leaf` of a key that has a leaf below a branch puts a new,
  unwritten leaf in its place and returns NULL (`radix_tree.c:168-184`), and so does
  `cx_radix_tree_put`. The old leaf is not recycled: whoever holds its
  address keeps it, but `get` no longer finds it. A leaf that is the root is
  returned and written again.
* `cx_radix_tree_delete` of a key beyond the capacity deletes the key with the
  same low digits; `OthersUntouched` says exactly that.
* `cx_lru_touch` "marks an item as recently used" (`collection.h:549`), but a
  touch of the entry that is overwritten next returns early, and the next touch
  of another key evicts it; `LastTouchedStays` says what remains.
* The cache never releases the key `UINT64_MAX` (`LruCounted`).
* `cx_utf8_16len` counts a character of three bytes as two units; UTF-16 has one.
  `TextMeasured` states the number the code computes.
* `cx_utf8_clen` counts a character that is cut off at the end, `cx_utf8_bidx` and
  `cx_utf8_cols` refuse it. No function looks at continuation bytes, so that
  overlong and broken sequences are accepted.
* A tab makes `cx_utf8_colidx` round the columns that are left up to a multiple of
  the tab size instead of subtracting the columns the tab takes; `TextMeasured`
  compares texts without tabs, `DamageSeen` all.
* A width table with more different blocks than a byte can number would be
  wrong without an error (`Fits`); the present files of the database are far
  from that.
* After a failed allocation the preallocated pool hands out elements beyond its
  chunk or forgets chunks, and the hash map and the radix tree follow pointers
  that were not written.

## 5. Proofs

All theorems hold for every value of the constants that satisfies the module's
named assumption.

`ThreadpoolProofs` (any number of workers, clients, jobs; finitely many cells,
fewer than `SIZE_MAX`; any set of faults):

* `TypeCorrect`: `Spec => []TypeOK`. `TypeOK` alone is not inductive: that
  `task[wtask[w]]` is a job cell needs to know that the locals in use hold values
  (`Locals`). `TypeInv` is their conjunction.
* `TaskOwnershipHolds`, `ActiveAccountingHolds`. The inductive invariant
  `PlaceInv` is `TypeInv`, `Control` (who may hold which mutex, and that clients
  are outside the pool when it is stopped), `TaskOwnership` and
  `ActiveAccounting`. Accounting needs ownership: taking a task lowers the number
  of queued cells by exactly one only if the cell is queued once. Lemmas
  `PopPlaces` and `PushPlaces` say what removing the head and appending do to
  the set of queued cells; `Frame` covers all steps that move no cell.
* `RunAtMostOnceHolds`, `WaitCompletesHolds`. `JobInv` adds that no two cells
  hold the same job, that a job which is in a cell has run only if its worker is
  past the call, and that an accepted job is in a cell or has run. With
  `active_tasks = 0` no cell is queued and no worker is busy, so every accepted
  job has run (`Quiescent`).

* `QueueLengthTracksHolds`, `NoLostWakeupHolds`. `NoLostWakeup` is not inductive:
  that a worker never goes to sleep beside a task needs to know who may be inside
  the critical section. `WakeInv` adds `LockInv` (a held queue mutex belongs to
  the one client that is about to publish there), `GoneInv` (a destroyed mutex
  belongs to a worker that has ended, and only such queues are written without a
  lock) and `LengthInv`. The race on destroyed mutexes therefore cannot put a
  task beside a sleeper.

`SyncProofs`, for the semaphore: `SemTypeCorrect`, `UnitsTakenOnceHolds` and
`NoLostWakeupHolds`. The units that were posted and not taken, modulo
`SIZE_MAX` + 1, are the count; a thread that takes one has just seen a count
other than 0, so there was a unit for it. The last theorem is inductive together with `TypeOK`; its steps compare the number
of woken threads before and after (`WokenChange`).

`SyncProofs`, for `Future` by itself: `TypeCorrect` (in particular no thread
gets NULL from `cx_future_wait`) and `AgreementHolds`. The invariant `Winner` ties
`out_value` to the one resolver whose call succeeded with a value, and what
threads got to `out_value`. With the count, for any threads, values and a
`UINT_MAX` that is not smaller than the number of holders: `RcFreesOnce` and
`SharedFreesOnce` (`FreedByOne`), and `SharedIsFuture`, the refinement
`SharedSpec => Spec` of `Future`. The inductive invariant of the count says that
`rc_count` is the number of holders in state "held" and that somebody frees exactly
when it is 0. The refinement adds that a thread which is inside a call holds a
reference and that the future is not freed while one is held; every step of
`SharedFuture` is then a step of `Future!Next` with its conditions, or leaves its
variables alone. `SharedAgreement`, `Agreement` of the shared future, follows from
the refinement.

`RcMapProofs`, for the array by itself: `ReferencesStayGoodHolds` and
`CleanedOnceHolds`. The model's guards use the sum of all references to a slot;
the invariant avoids sums, because all references to a slot are to one item
(`Counted`), and ties `cleaned` to the items that are in no slot (`Placed`).

`RcMapProofs`, for the array behind a cache of any size (`LruSpec`):
`LruReferencesStayGood`, `LruCleanedOnce`, `LruCountedHolds` and
`LastTouchedStaysHolds`. The invariant of the array, `RcInv(x)`, has as a parameter
how many references to each slot are not the clients'. `LruInv` says that there
is such an x, that it is the number of ring entries of every key but the marker,
and that the ring itself is in order. That eviction drops the right reference
needs that the entry it overwrites holds one; the marker is why x cannot simply
be defined as the number of entries. `LruCounted` is about a sum over the items,
which `HeldIsOne` reduces to the only item that has references; it is shown by
taking a minimal counterexample among finite subsets (`MinimalSubset`), which
replaces induction over finite sets.

`RcHashMapProofs`, for any hash function, table size, number of probes and of tables,
and for failing extensions: `ReferencesStayGoodHolds`, `CleanedOnceHolds`,
`RetainFindsHolds`. `HashInv` is `HashType`, `Counted` (the count of a slot is the
number of references to it, all to its key and item), `Placed` (an item is in one
slot, and was given and not cleaned), `Gone` (an item in no slot was cleaned once)
and `Homed` (a key with references is near its hash index, and one without
collisions at that index of the first table). The
theorems assume `KeyReleases \subseteq Alone`: clients release by key only keys
that collide with no other one. The hypothesis is needed, `rc_hash_map_release_key`
is the counterexample without it, and the passing run satisfies it.

`CollectorProofs`, for a `size_t` of any width, any number of buffers, blocks and
strings, and every outcome of `realloc`: `TypeCorrect`, `ContentsKeptHolds`,
`OneOwnerHolds`, `CollectedHolds` and the action property `FailedCallsHolds`.
`CollectorInv` (checked with TLC on the states of the run before it was proved)
consists of

* `BufferInv`, of all buffers: `MemOK`, which says that a block is owned once and is
  as long as the capacity of its owner, that reserved bytes fit, and that each
  buffer holds (`Holds`) what its log says;
* `Layout`, while `cx_collect` runs: word i of the array is an offset at which the
  i-th string stands in the other buffer, with its NUL;
* that all other buffers are empty and nothing is reserved meanwhile, and
  `Collected` for what it delivered.

One lemma per function of `buffer.c` says what it does to a heap for which `MemOK`
holds (`AddCapacityIs`, `AppendIs`, `DrainIs`, `MoveIs`, `UnwrapIs`, ...); `OneChange` is
the frame: a function works on one buffer, and whatever the others hold stays.
`LayoutGrows` is the step of `handle_next`, `FixUpDelivers` the end, where offsets
become addresses. That `round_to_next_pow2` gives enough room (`RoundsUp`) rests on
the least power of two above a number, whose existence is shown with the
well-ordering of the naturals (`LeastIn`) instead of induction.

`PreallocPoolProofs`: `HandedOutOnceHolds` and `NoOverlapHolds`, also for failing
allocations, from `PoolInv`: the free list is linear and apart from what is
held, and everything cut from the current chunk ends before `next_offset`
(`Cut`). `InBoundsHolds` and `FreesAllChunksHolds` from `ChunkInv`, which has one
conjunct for each kind of history: while no `calloc` failed the current chunk has
`chunk_size` bytes and elements lie inside their chunks (`Sized`), while no
`realloc` failed the array has every chunk once (`Listed`), and while nothing failed
it has nothing else (`Exact`).

`RcRadixTreeProofs`, for every radix, number of levels, set of keys and set of
leaves, and for failing pools. The assumptions on the constants are that the keys
have at most `MaxLevels` digits (eight of 256 in the code, which is every
`uint64_t`) and that `NULL` is neither a leaf nor the index of a branch.

* `LeavesNotSharedHolds`, `OthersUntouchedHolds`. `LeavesNotShared` is not inductive:
  it says nothing of branches, and a branch below two others would be changed
  for both. `TreeInv` says that, until a pool of branches failed, the tree is one
  (`IsTree`): the branches have heights such that the children of a branch at
  height h are branches at height h - 1, leaves in use at height 1, or `NULL`; the
  root has the height that the capacity says; and no node is below two branches
  (`Shape`). From this, what the walk of a key meets is determined by its digits
  (`Way`), and two walks that meet had the same digits before (`WaysMeet`). One
  lemma for each change the code makes says what `get` returns afterwards, for the
  key and for all others: `LiftKeeps` for a new root, `AddBranch` for a branch
  that is missing, `SetLeaf`, `Recycle`. `ResizeKeeps` and `DescentKeeps` put them
  together along the loops, `NewLeafKeeps` and `DeleteKeeps` are the functions of
  `radix_tree.c`.
* `AddressStaysHolds`, from `CountInv`: the leaf a key finds holds an item that was
  put, at the address recorded for it, and its count is the number of references
  to that item and not zero; a key that is not found is not held (`KeyInv`).
* `ImplementsRcMapHolds`: the reference-counted radix tree implements `RcMap`.
  The keys are the slots, the map is what `get` finds, and the two invariants
  above are what the steps need. `cx_rc_radix_tree_put` is a `cx_rc_map_set`,
  also when the tree grows by several levels; the steps of the plain tree
  change nothing of the map.

`UnicodeProofs`. `SizeOfEncoded`, `CutIsSeen` and `DecodesEncoded` are about one
character and hold for every code point of Unicode: the masks and shifts of
`cx_utf8_cp` are the inverse of the encoding of the standard, and a cut character
is refused. About tables and strings:

* `TablesExactHolds`, for files of any length and every radix for which blocks
  are whole bytes. `TableInv` says that the tables are those of the files. The
  bitmap reaches from 0 to the largest code point of the file, mixed blocks are
  numbered by their rank and full and empty ones share a number each; as long as
  the numbers fit a byte, the two reads of `table_lookup` give the bit that the lines gave (`LookupIs`).
* `DamageSeenHolds`, for all strings of bytes, damaged in any way: the loops stop
  inside the string, and a character that is cut off is noticed by the functions
  that look for it.
* `TextMeasuredHolds`, for texts of any length. `TextInv` is needed because a
  string does not say where its characters begin: while nothing is damaged there
  are offsets at which the string spells the text (`Spells`). At such an offset
  each function reads exactly the character of the text (`DecodesPrefix`), its
  width is that of the files (`WidthIs`, from `LookupExact`), and the loops are
  compared with the sums over the text from the end of the string backwards
  (`SpelledChars`, `SumBackwards`).

Induction. The induction theorems of the library take an operator as a
parameter, which the provers cannot instantiate. Both modules work with sets
instead: a set that contains 0 and with each number the next one contains all
up to a bound (`UpTo`, from a minimal member of a family of finite sets,
`MinimalSubset`; `Backwards` is the same from the other end). A loop of the code
is a recursive function, of which the provers know nothing before it is shown
that a function with its equation exists; in `UnicodeProofs` one lemma,
`Recursion`, does this for every loop, from a rank that becomes smaller at each
turn.

Only model-checked: all liveness (`JobsRun`, `WaitsReturn`, `CleanupReturns`,
`SleeperServed`, `FreedInTheEnd`), because there is no reasoning about fairness
and ENABLED here. Every other property of a passing run is stated by a theorem.

## 6. Not modelled

* `cx_memdup` (one allocation and one copy), the platform macros of `endian.h`,
  `macro.h`, `types.h` and the error numbers.
* `codegen/char_info.c`, an unfinished copy of `char_width.c` that no build file
  compiles.
* `CxReader` and `CxIteratorImpl` are declared and not implemented.
* The second implementation of the preallocated pool behind `#if 0`, and the
  dump functions of the radix tree.
* Overflow of `size * count` in allocations; the hash function, which is a
  parameter of `RcHashMap`; the NULL string of `cx_utf8_cp`; a touch of a key that
  the cache's backend does not have; a cache over a hash map.
* The scanning of lines in the table generator, beyond the fields it compares,
  and its I/O errors. `testlib/driver.c` runs the tests.

## 7. Plan

1. Done: every component that keeps state, the Unicode functions, the
   compositions of future and reference count and of pool and futures.
2. Done: the safety invariants and action properties of all components are
   theorems, and so are the refinements of `Future` by the shared future and of
   `RcMap` by the reference-counted radix tree.
3. Left: an abstract pool of jobs that `Threadpool` implements until it is stopped.

## 8. Running

    tlc -workers 2 -config Threadpool_safety.cfg MCThreadpool
    tlapm ThreadpoolProofs.tla

The module and the configuration of every run are in `PROJECT.json`. The whole
set takes about five minutes with two workers, the proofs about half an hour more.
