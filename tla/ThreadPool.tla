----------------------------- MODULE ThreadPool -----------------------------
(***************************************************************************)
(* class ThreadPool and class ParallelLauncher of                          *)
(* src/runtime/thread_pool.cc, with TVMBackendParallelLaunch and           *)
(* TVMBackendParallelBarrier: one main thread that launches groups of      *)
(* parallel tasks on its workers, waits for them and reports their errors. *)
(*                                                                         *)
(* Each worker's queue is the abstract one of module TaskQueue, which      *)
(* SpscTaskQueue implements.  Task i of a launch is run by worker i, or by *)
(* the main thread when i is 0 and exclude_worker0_ is set: "runner i" is  *)
(* that thread.  Every access of a runner to the launcher is a step, and   *)
(* so is every load of the main thread that waits for the runners.         *)
(*                                                                         *)
(* ParallelLauncher::Init is one step: no task of the launch exists yet,   *)
(* and a runner of the launch before can only be between the steps of      *)
(* SignalJobError, whose store to has_error_ comes before or after the one *)
(* of Init here as it does there.  Its store to par_errors_ during the     *)
(* resize of the vector is a data race whose effect is not modelled.       *)
(***************************************************************************)
EXTENDS Integers, Sequences, FiniteSets

CONSTANTS
    num_workers_,       \* MaxConcurrency() when the pool was made
    exclude_worker0_,   \* whether the main thread runs task 0
    big_workers,        \* workers used after Configure(kBig, 0): the big cores
    TaskCounts,         \* the num_task arguments of launches
    WorkerCounts,       \* what Configure may set num_workers_used_ to
    Concurrency,        \* what Configure may set max_concurrency to
    MaxBarrier,         \* bound: barrier calls a task makes
    FailWith            \* the numbers of barriers of lambdas that may fail

ASSUME PoolAssumption ==
    /\ num_workers_ \in Nat \ {0}
    /\ exclude_worker0_ \in BOOLEAN
    /\ big_workers \in 1 .. num_workers_
    /\ TaskCounts \subseteq Nat
    /\ WorkerCounts \subseteq 0 .. num_workers_
    /\ Concurrency \subseteq Nat \ {0}
    /\ MaxBarrier \in Nat
    /\ FailWith \subseteq 0 .. MaxBarrier

Ids == 0 .. num_workers_ - 1
Workers == IF exclude_worker0_ THEN Ids \ {0} ELSE Ids
FirstPushed == IF exclude_worker0_ THEN 1 ELSE 0
NoError == -1
NoId == -1      \* an uninitialised tsk.task_id

VARIABLES
    main,               \* where the main thread is
    num_workers_used_, max_concurrency,
    queues_, exit_now_, \* per worker: the queue and its kill signal
    next_,              \* loop index of the main thread
    last_id,            \* tsk.task_id of Launch
    closing,            \* the pool is being destroyed, not reset
    \* the main thread's ParallelLauncher
    num_task, num_pending_, has_error_, par_errors_, page, sync_counter_,
    \* per runner: its position, the barriers it has passed, its barrier locals
    run, bars, bar,
    \* observations: the barriers of the tasks of this launch, its tasks that
    \* have not signalled yet, its tasks that failed, and what it returned
    barriers, outstanding, failed, result

pool == <<num_workers_used_, max_concurrency, queues_, exit_now_, closing>>
launcher == <<num_task, num_pending_, has_error_, par_errors_, page, sync_counter_>>
local == <<next_, last_id>>
runners == <<run, bars, bar>>
seen == <<barriers, outstanding, failed, result>>
vars == <<main, pool, launcher, local, runners, seen>>

Init ==
    /\ main = "idle"
    /\ num_workers_used_ = big_workers
    /\ max_concurrency = num_workers_
    /\ queues_ = [w \in Ids |-> << >>]
    /\ exit_now_ = [w \in Ids |-> FALSE]
    /\ next_ = 0
    /\ last_id = NoId
    /\ closing = FALSE
    /\ num_task = 0
    /\ num_pending_ = 0
    /\ has_error_ = FALSE
    /\ par_errors_ = << >>
    /\ page = 0
    /\ sync_counter_ = [i \in Ids |-> 0]
    /\ run = [i \in Ids |-> IF i \in Workers THEN "pop" ELSE "off"]
    /\ bars = [i \in Ids |-> 0]
    /\ bar = [i \in Ids |-> [old |-> 0, scan |-> 0, tasks |-> 0]]
    /\ barriers = 0
    /\ outstanding = {}
    /\ failed = {}
    /\ result = 0

-----------------------------------------------------------------------------
(* Launch *)

Requested(n) == IF n = 0 THEN num_workers_used_ ELSE n

LauncherInit_NoStore(n) ==
    /\ UNCHANGED num_pending_
    /\ num_task' = n
    /\ has_error_' = FALSE
    /\ IF n > Len(par_errors_)
       THEN /\ par_errors_' = par_errors_ \o [i \in 1 .. n + 1 - Len(par_errors_) |-> NoError]
            /\ page' = n
       ELSE UNCHANGED <<par_errors_, page>>
    /\ sync_counter_' = [i \in Ids |-> IF i < n THEN 0 ELSE sync_counter_[i]]

LauncherInit_KeepPage(n) ==
    /\ num_pending_' = n
    /\ num_task' = n
    /\ has_error_' = FALSE
    /\ IF n > Len(par_errors_)
       THEN /\ par_errors_' = par_errors_ \o [i \in 1 .. n + 1 - Len(par_errors_) |-> NoError]
            /\ page' = IF page = 0 THEN n ELSE page
       ELSE UNCHANGED <<par_errors_, page>>
    /\ sync_counter_' = [i \in Ids |-> IF i < n THEN 0 ELSE sync_counter_[i]]

\* ParallelLauncher::Init with need_sync.  par_errors_ is the vector: index i
\* of the code is element i + 1.  The counter page is only replaced when
\* par_errors_ has to grow.
LauncherInit(n) ==
    /\ num_pending_' = n
    /\ num_task' = n
    /\ has_error_' = FALSE
    /\ IF n > Len(par_errors_)
       THEN /\ par_errors_' = par_errors_ \o [i \in 1 .. n + 1 - Len(par_errors_) |-> NoError]
            /\ page' = n
       ELSE UNCHANGED <<par_errors_, page>>
    /\ sync_counter_' = [i \in Ids |-> IF i < n THEN 0 ELSE sync_counter_[i]]

\* Launch up to its loop of pushes; ICHECK_LE refuses a larger request.
Launch(n, b) ==
    /\ main = "idle"
    /\ max_concurrency # 1
    /\ Requested(n) <= num_workers_used_
    /\ LauncherInit(Requested(n))
    /\ next_' = FirstPushed
    /\ last_id' = NoId
    /\ main' = "push"
    /\ bars' = [i \in Ids |-> 0]
    /\ barriers' = b
    /\ outstanding' = 0 .. Requested(n) - 1
    /\ failed' = {}
    /\ result' = 0
    /\ UNCHANGED <<pool, run, bar>>

\* Push spins while the queue is full.
PushTask ==
    /\ main = "push"
    /\ next_ < num_task
    /\ queues_[next_] = << >>
    /\ queues_' = [queues_ EXCEPT ![next_] = << next_ >>]
    /\ last_id' = next_
    /\ next_' = next_ + 1
    /\ UNCHANGED <<main, num_workers_used_, max_concurrency, exit_now_, closing,
                   launcher, runners, seen>>

PushDone ==
    /\ main = "push"
    /\ next_ >= num_task
    /\ IF exclude_worker0_
       THEN main' = "task0" /\ run' = [run EXCEPT ![0] = "body"]
       ELSE main' = "wait" /\ UNCHANGED run
    /\ UNCHANGED <<pool, launcher, local, bars, bar, seen>>

WaitForJobs_OffByOne ==
    /\ main = "wait"
    /\ num_pending_ <= 1
    /\ main' = "test"
    /\ UNCHANGED <<pool, launcher, local, runners, seen>>

WaitForJobs ==
    /\ main = "wait"
    /\ num_pending_ = 0
    /\ main' = "test"
    /\ UNCHANGED <<pool, launcher, local, runners, seen>>

Return(res) ==
    /\ main' = "idle"
    /\ result' = res
    /\ UNCHANGED <<pool, num_task, num_pending_, has_error_, page, sync_counter_, local,
                   runners, barriers, outstanding, failed>>

ReturnOk ==
    /\ main = "test"
    /\ ~has_error_
    /\ Return(0)
    /\ UNCHANGED par_errors_

\* The errors are gathered and cleared; has_error_ stays set until Init.
ReturnError ==
    /\ main = "test"
    /\ has_error_
    /\ par_errors_' = [i \in DOMAIN par_errors_ |-> NoError]
    /\ Return(-1)

\* TVMBackendParallelLaunch with one worker: no pool, and the value of the
\* lambda is not looked at.
InlineLaunch ==
    /\ main = "idle"
    /\ max_concurrency = 1
    /\ failed' \in {{}} \cup {{0} : b \in FailWith}
    /\ result' = 0
    /\ outstanding' = {}
    /\ barriers' = 0
    /\ UNCHANGED <<main, pool, launcher, local, runners>>

-----------------------------------------------------------------------------
(* The runners *)

IsMain(i) == i \notin Workers
Idle(i) == IF IsMain(i) THEN "off" ELSE "pop"

\* What a runner does when its task has signalled.
AfterTask(i) ==
    /\ run' = [run EXCEPT ![i] = Idle(i)]
    /\ main' = IF IsMain(i) THEN "wait" ELSE main

RunWorker(w) ==
    /\ run[w] = "pop"
    /\ queues_[w] # << >>
    /\ queues_' = [queues_ EXCEPT ![w] = Tail(queues_[w])]
    /\ run' = [run EXCEPT ![w] = "body"]
    /\ UNCHANGED <<main, num_workers_used_, max_concurrency, exit_now_, closing, launcher,
                   local, bars, bar, seen>>

WorkerExit_LoopsOn(w) ==
    /\ run[w] = "pop"
    /\ exit_now_[w]
    /\ UNCHANGED vars

WorkerExit(w) ==
    /\ run[w] = "pop"
    /\ exit_now_[w]
    /\ run' = [run EXCEPT ![w] = "exited"]
    /\ UNCHANGED <<main, pool, launcher, local, bars, bar, seen>>

\* Counters past the end of the page are memory of somebody else: a load of
\* one may return anything, of which the values a counter can have are explored.
Memory == 0 .. MaxBarrier
Counter(j) == IF j < page THEN {sync_counter_[j]} ELSE Memory

BarrierArrive_NoAdd(i) ==
    /\ run[i] = "body"
    /\ bars[i] < barriers
    /\ \E old \in Counter(i) :
          bar' = [bar EXCEPT ![i] = [old |-> old, scan |-> 0, tasks |-> num_task]]
    /\ run' = [run EXCEPT ![i] = "barrier"]
    /\ UNCHANGED <<main, pool, launcher, local, bars, seen>>

\* TVMBackendParallelBarrier: announce, then wait for every other task in turn.
BarrierArrive(i) ==
    /\ run[i] = "body"
    /\ bars[i] < barriers
    /\ \E old \in Counter(i) :
          bar' = [bar EXCEPT ![i] = [old |-> old, scan |-> 0, tasks |-> num_task]]
    /\ sync_counter_' = [sync_counter_ EXCEPT ![i] = @ + 1]
    /\ run' = [run EXCEPT ![i] = "barrier"]
    /\ UNCHANGED <<main, pool, num_task, num_pending_, has_error_, par_errors_, page, local,
                   bars, seen>>

\* Task i, which loaded c from counter j, yields and loads it again.
Waits_OffByOne(i, j, c) == j # i /\ c < bar[i].old
Waits(i, j, c) == j # i /\ c <= bar[i].old

BarrierScan(i) ==
    /\ run[i] = "barrier"
    /\ bar[i].scan < bar[i].tasks
    /\ \E c \in Counter(bar[i].scan) : ~Waits(i, bar[i].scan, c)
    /\ bar' = [bar EXCEPT ![i].scan = @ + 1]
    /\ UNCHANGED <<main, pool, launcher, local, run, bars, seen>>

BarrierLeave(i) ==
    /\ run[i] = "barrier"
    /\ bar[i].scan = bar[i].tasks
    /\ bars' = [bars EXCEPT ![i] = @ + 1]
    /\ run' = [run EXCEPT ![i] = "body"]
    /\ UNCHANGED <<main, pool, launcher, local, bar, seen>>

\* The loops that yield until another thread has moved on.
Spin(i) ==
    /\ \/ main = "wait" /\ num_pending_ # 0
       \/ /\ run[i] = "barrier"
          /\ bar[i].scan < bar[i].tasks
          /\ \E c \in Counter(bar[i].scan) : Waits(i, bar[i].scan, c)
    /\ UNCHANGED vars

\* The lambda returns 0: SignalJobFinish.
SignalJobFinish(i) ==
    /\ run[i] = "body"
    /\ bars[i] = barriers
    /\ num_pending_' = num_pending_ - 1
    /\ outstanding' = outstanding \ {i}
    /\ AfterTask(i)
    /\ UNCHANGED <<pool, num_task, has_error_, par_errors_, page, sync_counter_, local,
                   bars, bar, barriers, failed, result>>

SignalJobError_NoSub(i) ==
    /\ barriers \in FailWith
    /\ run[i] = "body"
    /\ outstanding' = outstanding \ {i}
    /\ failed' = failed \cup {i}
    /\ run' = [run EXCEPT ![i] = "record"]
    /\ UNCHANGED <<main, pool, launcher, local, bars, bar, barriers, result>>

\* The lambda returns an error, before or after any of its barriers:
\* SignalJobError, which counts the job as done before it records the error.
SignalJobError(i) ==
    /\ barriers \in FailWith
    /\ run[i] = "body"
    /\ num_pending_' = num_pending_ - 1
    /\ outstanding' = outstanding \ {i}
    /\ failed' = failed \cup {i}
    /\ run' = [run EXCEPT ![i] = "record"]
    /\ UNCHANGED <<main, pool, num_task, has_error_, par_errors_, page, sync_counter_, local,
                   bars, bar, barriers, result>>

\* The task id SignalJobError is given: the main thread passes the id of the
\* last task it pushed, which is uninitialised when it pushed none: any value,
\* of which those inside the vector are explored.
ErrorSlots(i) ==
    IF ~IsMain(i) THEN {i}
    ELSE IF last_id # NoId THEN {last_id} ELSE {k - 1 : k \in DOMAIN par_errors_}

RecordError(i) ==
    /\ run[i] = "record"
    /\ \E slot \in ErrorSlots(i) : par_errors_' = [par_errors_ EXCEPT ![slot + 1] = i]
    /\ run' = [run EXCEPT ![i] = "flag"]
    /\ UNCHANGED <<main, pool, num_task, num_pending_, has_error_, page, sync_counter_, local,
                   bars, bar, seen>>

FlagError_WorkersOnly(i) ==
    /\ run[i] = "flag"
    /\ has_error_' = (has_error_ \/ ~IsMain(i))
    /\ AfterTask(i)
    /\ UNCHANGED <<pool, num_task, num_pending_, par_errors_, page, sync_counter_, local,
                   bars, bar, seen>>

FlagError(i) ==
    /\ run[i] = "flag"
    /\ has_error_' = TRUE
    /\ AfterTask(i)
    /\ UNCHANGED <<pool, num_task, num_pending_, par_errors_, page, sync_counter_, local,
                   bars, bar, seen>>

-----------------------------------------------------------------------------
(* Configuration, Reset and destruction *)

\* The observations of the last launch end here.
Configure(used, concurrency) ==
    /\ main = "idle"
    /\ num_workers_used_' = used
    /\ max_concurrency' = concurrency
    /\ failed' = {}
    /\ result' = 0
    /\ UNCHANGED <<main, queues_, exit_now_, closing, launcher, local, runners, barriers,
                   outstanding>>

\* Reset() and ~ThreadPool() kill the queues one by one, then join.
StartKill(close) ==
    /\ main = "idle"
    /\ main' = "kill"
    /\ next_' = 0
    /\ closing' = close
    /\ UNCHANGED <<num_workers_used_, max_concurrency, queues_, exit_now_, last_id,
                   launcher, runners, seen>>

KillQueue ==
    /\ main = "kill"
    /\ next_ < num_workers_
    /\ exit_now_' = [exit_now_ EXCEPT ![next_] = TRUE]
    /\ next_' = next_ + 1
    /\ UNCHANGED <<main, num_workers_used_, max_concurrency, queues_, closing, last_id,
                   launcher, runners, seen>>

Joined == \A w \in Workers : run[w] = "exited"

JoinAndInit ==
    /\ main = "kill"
    /\ next_ = num_workers_
    /\ Joined
    /\ ~closing
    /\ main' = "idle"
    /\ queues_' = [w \in Ids |-> << >>]
    /\ exit_now_' = [w \in Ids |-> FALSE]
    /\ num_workers_used_' = big_workers
    /\ run' = [i \in Ids |-> Idle(i)]
    /\ UNCHANGED <<max_concurrency, closing, launcher, local, bars, bar, seen>>

JoinAndDestroy ==
    /\ main = "kill"
    /\ next_ = num_workers_
    /\ Joined
    /\ closing
    /\ main' = "destroyed"
    /\ UNCHANGED <<pool, launcher, local, runners, seen>>

Destroyed == main = "destroyed" /\ UNCHANGED vars

-----------------------------------------------------------------------------

MainStep ==
    \/ PushTask \/ PushDone \/ WaitForJobs \/ ReturnOk \/ ReturnError
    \/ KillQueue \/ JoinAndInit \/ JoinAndDestroy

WorkerStep(w) == RunWorker(w) \/ WorkerExit(w)

TaskStep(i) ==
    \/ BarrierArrive(i) \/ BarrierScan(i) \/ BarrierLeave(i)
    \/ SignalJobFinish(i) \/ SignalJobError(i) \/ RecordError(i) \/ FlagError(i)

Caller ==
    \/ \E n \in TaskCounts, b \in 0 .. MaxBarrier : Launch(n, b)
    \/ InlineLaunch
    \/ \E used \in WorkerCounts, c \in Concurrency : Configure(used, c)
    \/ \E close \in BOOLEAN : StartKill(close)

Next ==
    \/ Caller
    \/ MainStep
    \/ \E w \in Workers : WorkerStep(w)
    \/ \E i \in Ids : TaskStep(i) \/ Spin(i)
    \/ Destroyed

Spec == Init /\ [][Next]_vars

\* Every thread is scheduled, and a lambda that can go on does.  Nobody is
\* obliged to launch, configure or reset.
FairSpec ==
    /\ Spec
    /\ WF_vars(MainStep)
    /\ \A w \in Workers : WF_vars(WorkerStep(w))
    /\ \A i \in Ids : WF_vars(TaskStep(i))

-----------------------------------------------------------------------------
(* Properties *)

Stages == {"off", "pop", "body", "barrier", "record", "flag", "exited"}

PoolTypeOK ==
    /\ main \in {"idle", "push", "task0", "wait", "test", "kill", "destroyed"}
    /\ num_workers_used_ \in 0 .. num_workers_
    /\ max_concurrency \in Nat
    /\ queues_ \in [Ids -> {<< >>} \cup {<< i >> : i \in Ids}]
    /\ exit_now_ \in [Ids -> BOOLEAN]
    /\ closing \in BOOLEAN

LocalTypeOK ==
    /\ next_ \in 0 .. num_workers_
    /\ last_id \in Ids \cup {NoId}

LauncherTypeOK ==
    /\ num_task \in 0 .. num_workers_
    /\ num_pending_ \in 0 .. num_workers_
    /\ has_error_ \in BOOLEAN
    /\ par_errors_ \in Seq(Ids \cup {NoError})
    /\ page \in 0 .. num_workers_
    /\ sync_counter_ \in [Ids -> Nat]

RunnersTypeOK ==
    /\ run \in [Ids -> Stages]
    /\ bars \in [Ids -> Nat]
    /\ bar \in [Ids -> [old : Nat, scan : Nat, tasks : Nat]]

SeenTypeOK ==
    /\ barriers \in Nat
    /\ outstanding \subseteq Ids
    /\ failed \subseteq Ids
    /\ result \in {0, -1}

\* Type invariant.  num_pending_ stays between 0 and the number of workers.
TypeOK == PoolTypeOK /\ LocalTypeOK /\ LauncherTypeOK /\ RunnersTypeOK /\ SeenTypeOK

Launching == main \in {"push", "task0", "wait", "test"}
InLambda(i) == run[i] \in {"body", "barrier"}

\* num_pending_ counts exactly the tasks of this launch that have not signalled,
\* although it is stored by the launcher and decremented by every runner
\* (lines 75, 118, 123).
PendingIsOutstanding == num_pending_ = Cardinality(outstanding)

\* When Launch returns, each of its tasks has been run once and no thread is
\* still inside a lambda or about to enter one: the closure data may be freed
\* (lines 289 to 320).
NothingRunsAfterReturn ==
    ~Launching => \A i \in Ids : ~InLambda(i) /\ queues_[i] = << >>

\* Push never spins in Launch: "The SpscTaskQueue only hosts ONE item at a
\* time" (line 340), and that one is always gone before the next launch.
QueueHasRoom ==
    main = "push" => \A i \in Ids : next_ <= i /\ i < num_task => queues_[i] = << >>

\* The barriers that task i has reached.
Reached(i) == bars[i] + (IF run[i] = "barrier" THEN 1 ELSE 0)

\* BSP barrier: a task that passed its k-th barrier finds every task of the
\* launch at its k-th barrier or beyond (lines 506 to 524).
BarrierSeparates ==
    Launching => \A i, j \in 0 .. num_task - 1 : bars[i] <= Reached(j)

\* The arrays of the launcher are reshaped to the launch ("reshape",
\* thread_pool.cc:80): the counter page has a counter for every task.  The code
\* breaks it when a launch of n tasks is followed by one of n + 1.
PageCoversTasks == Launching => num_task <= page

\* An error of the task that the main thread runs is always reported by the
\* launch it belongs to (lines 310 to 319).
MainErrorReported ==
    main = "idle" /\ exclude_worker0_ /\ max_concurrency # 1 /\ 0 \in failed => result = -1

\* Every launch, reset and destruction comes to an end.
LaunchReturns == Launching ~> ~Launching
ResetReturns == main = "kill" ~> main \in {"idle", "destroyed"}

-----------------------------------------------------------------------------
(* What the documentation says and the code does not do. *)

\* "0 when no error is thrown, -1 when failure happens"
\* (include/tvm/runtime/c_backend_api.h:116).
ErrorIsReported == main = "idle" => (result = -1 <=> failed # {})
=============================================================================
