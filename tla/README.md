# Verification of the TVM runtime in TLA+

This directory holds TLA+ models of parts of the Apache TVM runtime, the TLC
instances that check them, and TLAPS proofs of their main safety properties.
The models are written from the C++ source; paths below are relative to the
root of the repository.

TVM is a compiler and a runtime. The compiler transforms programs
deterministically; what it must preserve is the meaning of an expression
language, which a finite instance says little about. The runtime is where the
concurrency, the shared tables and the protocols are, so the project is about
the runtime.

## 1. Inventory

| Part | State | Operations | What makes it hard |
|---|---|---|---|
| Task queue, `thread_pool.cc` (`SpscTaskQueue`) | ring, head, tail, `pending_`, exit flag, mutex, condition variable | `Push`, `Pop`, `SignalForKill` | lost wakeups, a counter and a ring updated in separate steps, an 8-bit counter |
| Thread pool and launcher, `thread_pool.cc` | queues, `ParallelLauncher` (pending count, errors, counter page), workers | `TVMBackendParallelLaunch`, `TVMBackendParallelBarrier`, `Configure`, `Reset`, destructor | the closure lives on the caller's stack; a barrier whose counters are never reset; errors recorded after the job is counted as done |
| Paged KV cache, `vm/paged_kv_cache.cc` | sequences, tree of blocks, pages, free lists, reference counts, windows | add, remove, fork, pop, window, forward, clear | shared prefixes, splits, page boundaries, a full cache, sliding windows with a sink |
| Token trees and KV transfer, same file | pending tree per sequence, accepted nodes, remote positions | forward with a tree, commit, prepare receive, mark send | commit of a batch other than the last one, two rounds before a commit |
| RNN state, `vm/rnn_state.cc` | slots, history ring | the same interface as the KV cache | rollback across prefills and forks |
| Workspace pool, `workspace_pool.cc` | sorted free list, allocated list | alloc, free | guard entry, search without a bound |
| Pooled allocator, `memory/` | buffers by size, used bytes | alloc with retry, free, clear | release while buffers are in use |
| Byte ring, `support/ring_buffer.h` | ring, head, length | write, read, grow, shrink | growing while wrapped |
| Disco, `disco/` | register files, message queues, free registers | broadcast, call, copy, sync, shutdown | a register reused while a worker is behind, a worker that dies |
| RPC endpoint, `rpc/rpc_endpoint.cc` | packet state machine, byte streams | call, copy, sync, shutdown | connection lost inside a packet |
| RPC tracker and server, `python/tvm/rpc/` | values, requests, match keys | put, request, disconnect, timeout | a client that comes late, a server that leaves while matched |
| Hexagon threads and DMA, `hexagon/` | pipes, semaphores, descriptor ring | dispatch, signal, wait, DMA groups | full pipes, bookkeeping before the test for room |
| MetaSchedule task scheduler, `meta_schedule/task_scheduler/` | task records, futures | pick, send, join, terminate | joining what is terminated |
| Relax VM, object model, device APIs | frames, handles | calls | sequential, or the state of a vendor driver |
| TensorIR, Relax, arith, target, frontends | programs | passes | program semantics |

How they interact: compiled code calls `TVMBackendParallelLaunch` and
`TVMBackendParallelBarrier`, which use the pool of the calling thread; the pool
hands tasks to its workers through one task queue per worker. A language model
running in the Relax VM owns a KV cache or an RNN state and calls it around each
forward. The VM allocates through the memory manager and kernels through the
workspace pool. Disco runs one VM per worker; RPC runs a session of the runtime
on another machine, found through the tracker.

`PROJECT.json` lists every part with its status, and the hazards of the code at
the lines where they bite.

## 2. Modules

| Module | Models | Kind |
|---|---|---|
| `TaskQueue` | what a worker's queue promises | abstract specification |
| `SpscTaskQueue` | `class SpscTaskQueue` | one step per atomic access, lock and slot access |
| `SpscTaskQueueProof` | | inductive invariant, refinement, 6 theorems |
| `ThreadPool` | `class ThreadPool`, `class ParallelLauncher`, the two C entry points | one step per access to an atomic of the launcher |
| `ThreadPoolNested` | a launch made from inside task 0 | extends `ThreadPool` |
| `ThreadPoolInduction`, `ThreadPoolProof` | | inductive invariant, 8 theorems |
| `KVSequences` | `KVStateObj`, `AttentionKVCacheObj` | abstract specification |
| `PagedKVCache` | the page table of `PagedAttentionKVCacheObj` | one action per member function |
| `MC...` | | instances for TLC |

Definitions that begin like another one and end in `_Something`
(`PushLock_NoMutex`, `ShrinkBlock_RoundsDown`) are deliberately wrong variants
of it. They show that the property they belong to can be broken by a plausible
slip in the code. No specification uses them.

### 2.1 Task queue

The producer (the thread that owns the pool) and the consumer (one worker) each
have a program counter, `prod` and `cons`. `buffer_`, `head_`, `tail_`,
`pending_` and `exit_now_` are the members of the class. `mutex_` holds its
owner, and a consumer in `cv_.wait` is `"asleep"` until it is notified or wakes
for no reason. `pending_` has the arithmetic of `int8_t`. The busy wait before
the `fetch_sub` changes nothing and is the wait in front of `PopClaim`.
`SignalForKill` is a call, a wait for the mutex, the store and the notification.
The contract `TaskQueue` says which task each `Pop` hands out (`popped`), and the
refinement maps it to the `output` the consumer read from its slot.
`kRingSize` is 2 in the code and a parameter here.

Interleavings are sequentially consistent: the model says nothing about
reorderings that the memory orders of the atomics allow.

### 2.2 Thread pool

`main` is where the launching thread is; `run[i]` is where the thread that runs
task `i` is. The queues are those of `TaskQueue`, so the pool is checked against
the contract and the queue is shown to meet it. `par_errors_`, `has_error_`,
`num_pending_`, `page` (the size of the counter page) and `sync_counter_` are
the members of the launcher. `SignalJobError` is three steps, because the code
first decrements the count, then stores the error, then sets the flag. The id
that the main thread passes for its own error is an uninitialised variable when
it pushed no task, and the model chooses any value inside the vector.

A counter at or past `page` is memory outside the array: a `load` or `fetch_add`
of it may return any value of `Memory`, whatever was stored before
(`Counter`). `ParallelLauncher::Init` is one step: no task of its launch exists
yet, and a runner of the launch before can only be inside `SignalJobError`,
whose store to `has_error_` falls before or after the one of `Init` in the model
as in the code. Its store to `par_errors_` while the vector is resized is a data
race whose effect is not modelled.

`barriers`, `outstanding`, `failed` and `result` are observations that only
properties read. Every task of a launch calls the barrier the same number of
times, as the barrier requires; a task may fail at any point when `FailWith`
allows it.

Left out: the OpenMP build, `need_sync = 0` (no caller uses it), affinity, and
the size of core lists.

### 2.3 Paged KV cache

The object is used by one thread. `cache` is a record with its members, and each
member function is an operator from a cache to a cache. A failed check throws in
the middle: the operator returns the members as they are at that point with
`error` set to

- `"full"`: no page is free (`GetFreePage`),
- `"refused"`: the arguments are not acceptable,
- `"broken"`: an internal check of the page table failed.

A forward is `BeginForward`, the append by the attention of each layer, and
`EndForward`, as one action: a client that calls another member in between is
not modelled. The layers all do the same to their pages, so one stands for all,
and the append comes after the reservation whether `append_before_attn_` is set
or not. A page holds the numbers of the tokens whose K/V it has. While a
reservation waits for the slide to release pages, a block may list the temporary
page id in the place of a page; `PagesOwnedOnce` says that none is left behind.

Abstractions, and why they keep the behaviour:

- The free lists are kept sorted. Which free page or block is taken next makes
  no difference to any property.
- A slot no sequence can reach holds `Junk` (`Scrub`), and so does a slot of a
  released page. A read of one would show as `Junk` in a sequence, which no
  abstract step allows.
- New tokens take the smallest unused numbers (`Fresh`).
- A cache that has thrown is only cleared, although the code lets a client go
  on with it; what such a client would meet is not modelled. What the members look like right
  after the throw is kept and checked (`SeqLengthIsSum`).
- `Cautious` restricts a client to uses of a sliding window that the page table
  copes with: no fork at the very end of a sequence with a window, none past the
  first page once it has slid, pops only before it has slid and inside the last
  block, no window shorter than the shared prefix. The runs with
  `Cautious = FALSE` show what happens to two of these uses.
- Windows per layer (`support_layer_sliding_window_` without
  `support_sliding_window_`) are accepted and recorded and give up no page; they
  limit what some kernels read. No run sets the constant.

`KVSequences` is what a client is promised: a sequence is the list of tokens
appended to it, less the ones popped and the ones a window let go; a fork is a
prefix; an operation on one sequence leaves the others alone; an operation that
cannot be carried out makes the cache fail. `call` records the operation and its
arguments in both specifications, so that a fork at position `p` must give
exactly `p` tokens, a pop of `n` must drop exactly `n`, and a forward must append
the lengths asked for. `ImplementsSequences` says that the page table implements
it, with the contents of a sequence read through its blocks, pages, sink and
window offset.

`WindowNeverStarves` is about borrowed pages: a sequence whose last block holds,
together with the free list, as many pages as its sink and its window can ever
need is never told that the cache is full, however long the append.

Left out: the index arrays for the kernels (they are functions of the page
table), token trees, KV transfer, MLA and cross attention, device streams.

## 3. Runs

| Run | Instance | Shows |
|---|---|---|
| `spsc` | ring of 3, two tasks | types, exact `pending_`, no failed sanity check, no slot race, no lost wakeup, FIFO refinement, fair refinement, calls return |
| `pool` | 3 workers, task 0 on the main thread, 0 to 2 barriers, failures, inline launches, reconfiguration, reset, destruction | the count is exact, a launch is synchronous, pushes find room, barriers separate and their counters are inside the page, errors of task 0 are reported, launches and resets return |
| `kv_cache` | 3 sequences, 3 pages of 3 tokens, appends of 4, batches of 2, window 4 with sink 1 | pages and references are exact, blocks are well formed, positions are right, internal checks hold, refinement of `KVSequences` |
| `kv_long_sink` | 2 sequences, 5 pages of 2 tokens, appends of 1 and 3, batches of 2, window 5 with sink 3 | a sink of two pages, splits inside a sink, borrowed pages: internal checks hold, enough pages suffice, a window does not starve, refinement of `KVSequences` |
| `pool_error_lost` | 2 workers | **violated** `ErrorIsReported` |
| `pool_inline_error` | a concurrency of one | **violated** `ErrorIsReported` |
| `pool_counter_page` | 3 workers, launches of 2 and 3 tasks | **violated** `PageCoversTasks` |
| `pool_no_workers` | a configuration with no worker in use | **violated** `LaunchReturns` |
| `pool_nested` | 2 workers, a launch inside task 0 | **violated** `NestedLaunchReturns` |
| `kv_pop_window` | 1 sequence, pages of 2, window 4 with sink 1 | **violated** `PopsTrailingTokens` |
| `kv_fork_sink` | 2 sequences, pages of 2, window 4 with sink 3 | **violated** `InternalChecksHold` |
| `kv_full` | 2 sequences, 2 pages of 2 | **violated** `SeqLengthIsSum` |

Each run is `tlc -config <cfg> <module>` with the names in `PROJECT.json`. The
violated ones are disagreements between the code and a comment or an assertion;
section 6 describes them.

### Bounds

- *Queue.* A ring of 3 has the full, the partly filled and the empty case, wraps
  and reuses slots; two tasks tell any swap or loss apart. The proof covers all
  sizes up to 128.
- *Pool.* Three runners are the smallest number at which one task can be a
  barrier ahead of another while a third still scans; two barriers let counters
  of different barriers meet. `FailWith` lets lambdas without barriers fail: a
  task that fails before a barrier leaves the others waiting (section 6).
  `WorkerCounts` has one and all workers, so that the sizes of launches are not
  neighbours (`pool_counter_page` has 2 and 3). `Memory` has the values a counter
  can take, `0 .. MaxBarrier`: enough for a stale, an early and a late read. The proof covers any number of workers
  and barriers.
- *KV cache.* Three sequences give a shared prefix with two users and a block
  above it, and a second split of a split block. With pages of 3 a window can
  start in the page of the sink, in the next, and at every offset. An append of
  4 fills more than one page; pops of every length reach all other lengths. 3
  pages make the cache run full. At most 9 tokens are held and 8 new ones
  added, below `MaxTokens`. `kv_long_sink` has a sink of a page and a half, so
  that a fork can split the last block inside the sink and lower
  `last_block_attn_sink_size`; five pages leave room for a batch of two with
  pages to spare and still run out.
- *View.* `MCPagedKVCache!View` names blocks, pages and tokens by where the
  sequences meet them. Two states with the same view differ in a renaming of
  blocks, pages and tokens. No action and no property depends on the names. Sequence ids are
  not renamed.

Deadlock is checked in every run. `Terminated` and `Destroyed` are the stuttering
ends of a queue and a pool that were torn down.

### Fairness

Weak fairness of each thread's own steps: the operating system schedules every
thread, and a lambda that is not waiting goes on. Nobody is obliged to push,
launch, configure, reset or kill, and no spurious wakeup is promised. The queue
needs strong fairness of the producer's two acquisitions of the mutex, `PushLock`
and `KillLock`: a consumer that keeps waking for no reason takes the mutex again
and again, and the mutex must not starve the producer. The KV cache is sequential and has no liveness property.

## 4. Proofs

All theorems are checked by `tlapm` to the last leaf.

**`SpscTaskQueueProof`**, for every ring size in 2..128 (`RingAssumption`, the
sizes an `int8_t` can count) and every set of tasks. `PendingAccounts` alone is
not inductive. `IInv` adds that a producer past its test has room, that a
published task not yet counted is still in the ring, that a consumer past its
wait holds a claim or was told to exit, who holds the mutex, that a consumer
that found its predicate false is notified (`SleeperIsNotified` from one step
earlier), that the slot about to be published holds the argument of `Push`, and
that nothing is pushed after the kill. From it follow `TypeCorrect`,
`PendingIsExact`, `PopNeverFindsEmpty`, `SlotsNeverRace`, `NoLostWakeup` and the
refinement `RingImplementsQueue`.

**`ThreadPoolProof`**, for any number of workers, any launches and any number of
barriers, under `HasWorkers` (no configuration leaves the pool without a worker
in use; `pool_no_workers` shows why). The invariant says where the main thread
and the runners can be together (`Positions`), that each outstanding task is in
exactly one place (`TaskPlaces`), that, while the page covers the tasks
(`Covered`), counter `i` is the number of barriers task `i` has reached
(`Counters`) and the barrier separates (`Separates`), and where the error of task 0 is
(`MainError`). `ThreadPoolInduction` proves it inductive from a hypothesis about
cardinalities, `Counting`, which `ThreadPoolProof` discharges from the library;
the split keeps the library's theorems out of the large proof. From it follow
`PoolTypeCorrect`, `PendingCountsTasks`, `LaunchIsSynchronous`, `PushFindsRoom`,
`BarrierIsBSP` and `MainErrorIsReported`. `BarrierIsBSP` says that
`BarrierSeparates` holds wherever `PageCoversTasks` does. `pool_counter_page`
shows that the condition can fail. `PageIsLargeEnough` gives a pool in which it
does not: no two sizes of a launch are neighbours (`SizesApart`); its invariant
`Shaped` says that `par_errors_` is one longer than the page and the page is the
size of some launch. `BarrierIsBSPForSizesApart` puts the two together.

Only model-checked: everything about liveness (`CallsReturn`,
`ImplementsFairQueue`, `LaunchReturns`, `ResetReturns`), which is out of the
prover's reach, and so far all of the KV cache. Its block traces and contents are
recursive functions; facts that need induction over them stay with TLC, while
`PagesOwnedOnce` and `RefCounts` do not need them and are to be proved.

## 5. Plan

In this order; each step is a module with its run, and a proof where one is
marked.

1. `PagedKVCache`: a proof of `PagesOwnedOnce` and `RefCounts` (needs the type
   invariant and acyclicity of parents as strengthening); token trees
   (`BeginForward` with a tree, `CommitAcceptedTokenTreeNodes`) as further
   actions; `GetBlockIdsOnDepth` and `GetChunkedBlockIds` as operators against
   the set of pages each query must see.
2. `RNNState` (proof): slots owned once, a rollback finds the state it asks for;
   refines `KVSequences` without windows where it can.
3. `WorkspacePool` (proof): the free list stays sorted, no page is in two places.
   `PooledAllocator`: the accounting of `used_memory_` and the retry.
4. `RingBuffer`: bytes come out as they went in, across growth and shrinking,
   refined to a sequence.
5. `DiscoSession` (proof): commands in order at every worker, a reused register
   never shows an old value, host arrays meet their commands.
6. `RPCTracker` with the server loop; `RPCEndpoint` for the packet protocol.
7. `HexagonThreads`, the descriptor ring, the task scheduler.

## 6. What the checks found

Each of the first eight is a run; the rest were met while modelling.

1. *An error of a worker can be lost* (`thread_pool.cc:118`). The job is counted
   as done before the error is recorded, so the launch may return 0. The late
   error is then reported by the next launch, or wiped by it.
2. *An inline launch drops the error of its lambda* (`thread_pool.cc:486`). With
   a concurrency of one the return value of the lambda is ignored.
3. *The counter page can be too small* (`thread_pool.cc:81`). `par_errors_` and
   the page are of different sizes and grow under one test.
4. *A pool without workers never returns* (`thread_pool.cc:294`).
5. *A launch inside task 0 is let through and hangs* (`thread_pool.cc:291`).
6. *`PopN` after a slide releases a page in use* (`paged_kv_cache.cc:801`).
7. *A fork at the end of a sequence with a window enlarges its sink*
   (`paged_kv_cache.cc:615`), and a later forward fails an internal check.
8. *A forward that finds the cache full leaves longer sequences behind*
   (`paged_kv_cache.cc:885`).

Met while modelling, without a run of their own: a task that fails before a
barrier leaves the others waiting for ever; the error of task 0 is filed under the id of
the last task pushed (`thread_pool.cc:315`); `ForkSequence` loses the child
block when no page is free (`paged_kv_cache.cc:680`); `PopN` into a shared
prefix drops the window of the sequence (`paged_kv_cache.cc:819`).

## 7. Not modelled

Weak memory, device streams and kernels, and everything with status
`not_modelled` in `PROJECT.json`, each with its reason there. The compiler, code
generation and the frontends are out of scope: their correctness is that of
program transformations.
