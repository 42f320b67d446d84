--------------------------- MODULE ThreadPoolInduction -------------------------
(***************************************************************************)
(* The inductive invariant of ThreadPool, for any number of workers, any   *)
(* launches and any configuration that leaves at least one worker in use.  *)
(* The facts about cardinalities that it needs are a hypothesis here       *)
(* (Counting), which ThreadPoolProof discharges.                           *)
(***************************************************************************)
EXTENDS ThreadPool, TLAPS

\* Configure never leaves the pool without a worker in use.
HasWorkers == 0 \notin WorkerCounts

-----------------------------------------------------------------------------
(* The inductive invariant *)

\* Where the main thread, the runners and the kill signals are, together.
Positions ==
    /\ num_workers_used_ >= 1
    /\ ~Launching => outstanding = {}
    /\ main = "test" => outstanding = {}
    /\ Launching => num_task >= 1
    /\ main = "push" => FirstPushed <= next_
    /\ main = "task0" => exclude_worker0_
    /\ \A i \in Ids :
        /\ IsMain(i) => IF main = "task0" THEN run[i] \in {"body", "barrier", "record", "flag"}
                                          ELSE run[i] = "off"
        /\ ~IsMain(i) => run[i] # "off"
        /\ run[i] = "exited" => exit_now_[i]
        /\ exit_now_[i] => main \in {"kill", "destroyed"}

\* A task that has not signalled is about to be pushed, in its queue, or in its
\* lambda, in only one of these places, and no other task is in any of them.
TaskPlaces ==
    \A i \in Ids :
        /\ i \in outstanding => i < num_task
        /\ queues_[i] # << >> => i \in outstanding /\ ~IsMain(i) /\ ~InLambda(i)
        /\ InLambda(i) => i \in outstanding
        /\ main = "push" /\ i < num_task /\ (next_ <= i \/ IsMain(i))
              => i \in outstanding /\ queues_[i] = << >> /\ ~InLambda(i)

\* The counter page has a counter for every task.
Covered == num_task <= page

\* The counters during a launch: counter i has been stored the number of barriers
\* task i has reached, and, if the page covers the tasks, a task that scans has
\* seen the ones it scanned reach its own.
Counters ==
    /\ Launching =>
         \A i \in 0 .. num_task - 1 : sync_counter_[i] = Reached(i)
    /\ \A i \in Ids : run[i] = "barrier" =>
         /\ bar[i].tasks = num_task
         /\ bar[i].scan <= num_task
         /\ Covered => /\ bar[i].old = bars[i]
                       /\ \A j \in 0 .. bar[i].scan - 1 : j # i => bars[i] < sync_counter_[j]

\* BarrierSeparates, on a page that covers the tasks.
Separates == Covered => BarrierSeparates

\* Where the error of the main thread's task is until the launch returns.
MainError ==
    exclude_worker0_ /\ 0 \in failed =>
        /\ main # "push"
        /\ main = "task0" => run[0] \in {"record", "flag"}
        /\ main \in {"wait", "test"} => has_error_
        /\ ~Launching /\ max_concurrency # 1 => result = -1

IInv ==
    /\ TypeOK
    /\ PendingIsOutstanding
    /\ Positions
    /\ TaskPlaces
    /\ Counters
    /\ Separates
    /\ MainError

-----------------------------------------------------------------------------
(* Lemmas *)

USE PoolAssumption
    DEF Ids, Workers, FirstPushed, IsMain, Idle, NoError, NoId, Launching, InLambda,
        pool, launcher, local, runners, seen

\* What num_pending_ counts: finite sets of tasks.
Counting ==
    /\ \A S \in SUBSET Ids :
          /\ Cardinality(S) \in 0 .. num_workers_
          /\ Cardinality(S) = 0 => S = {}
          /\ \A i \in S : Cardinality(S \ {i}) = Cardinality(S) - 1
    /\ \A n \in Nat : Cardinality(0 .. n - 1) = n
    /\ Cardinality({}) = 0

\* Storing an error, clearing the errors and growing the vector of errors keep
\* it a sequence of errors.
LEMMA ErrorsTyped ==
    ASSUME NEW s \in Seq(Ids \cup {NoError})
    PROVE  /\ \A k \in Int, e \in Ids : [s EXCEPT ![k] = e] \in Seq(Ids \cup {NoError})
           /\ [k \in DOMAIN s |-> NoError] \in Seq(Ids \cup {NoError})
           /\ \A n \in Nat : s \o [k \in 1 .. n |-> NoError] \in Seq(Ids \cup {NoError})
<1> DEFINE E == Ids \cup {NoError}
<1>1. Len(s) \in Nat /\ DOMAIN s = 1 .. Len(s) /\ s \in [1 .. Len(s) -> E]
  OBVIOUS
<1>2. \A m \in Nat : \A f \in [1 .. m -> E] : f \in Seq(E)
  OBVIOUS
<1>3. ASSUME NEW k \in Int, NEW e \in Ids
      PROVE  [s EXCEPT ![k] = e] \in Seq(E)
  <2>1. [s EXCEPT ![k] = e] \in [1 .. Len(s) -> E]
    BY <1>1, Zenon
  <2> QED
    BY <1>1, <1>2, <2>1
<1>4. [k \in DOMAIN s |-> NoError] \in Seq(E)
  <2>1. [k \in DOMAIN s |-> NoError] \in [1 .. Len(s) -> E]
    BY <1>1
  <2> QED
    BY <1>1, <1>2, <2>1
<1>5. ASSUME NEW n \in Nat
      PROVE  s \o [k \in 1 .. n |-> NoError] \in Seq(E)
  <2>1. [k \in 1 .. n |-> NoError] \in Seq(E)
    <3>1. [k \in 1 .. n |-> NoError] \in [1 .. n -> E]
      OBVIOUS
    <3> QED
      BY <1>2, <3>1
  <2> QED
    BY <2>1
<1> QED
  BY <1>3, <1>4, <1>5

LEMMA InitIInv == Counting /\ Init => IInv
<1> SUFFICES ASSUME Counting, Init PROVE IInv
  OBVIOUS
<1>1. TypeOK
  <2>1. PoolTypeOK
    <3>1. exit_now_ \in [Ids -> BOOLEAN] /\ closing \in BOOLEAN
      BY Zenon DEF Init
    <3>2. queues_ \in [Ids -> {<< >>} \cup {<< i >> : i \in Ids}]
      BY DEF Init
    <3> QED
      BY <3>1, <3>2 DEF Init, PoolTypeOK
  <2>2. LauncherTypeOK
    <3>1. has_error_ \in BOOLEAN
      BY Zenon DEF Init
    <3> QED
      BY <3>1 DEF Init, LauncherTypeOK
  <2>3. LocalTypeOK /\ RunnersTypeOK /\ SeenTypeOK
    BY DEF Init, LocalTypeOK, RunnersTypeOK, SeenTypeOK, Stages
  <2> QED
    BY <2>1, <2>2, <2>3 DEF TypeOK
<1>2. PendingIsOutstanding
  BY DEF Counting, Init, PendingIsOutstanding
<1>3. Positions
  BY DEF Init, Positions
<1>4. TaskPlaces
  BY DEF Init, TaskPlaces
<1>5. Counters /\ Separates
  BY DEF Init, Counters, Separates, BarrierSeparates, Reached
<1>6. MainError
  BY DEF Init, MainError
<1> QED
  BY <1>1, <1>2, <1>3, <1>4, <1>5, <1>6 DEF IInv

\* A step that leaves the counters and the barriers alone, and moves no task
\* into or out of a barrier during a launch.
LEMMA CalmStep ==
    ASSUME RunnersTypeOK, Counters, Separates,
           UNCHANGED <<bars, bar, sync_counter_, num_task, page>>,
           Launching' => Launching /\ \A i \in Ids : (run'[i] = "barrier") <=> (run[i] = "barrier"),
           \A i \in Ids : run'[i] = "barrier" => run[i] = "barrier",
           num_task \in 0 .. num_workers_
    PROVE  Counters' /\ Separates'
<1>1. Launching' => \A i \in 0 .. num_task - 1 : Reached(i)' = Reached(i)
  BY DEF Reached
<1>2. Counters'
  BY <1>1 DEF Counters, Covered
<1>3. Separates'
  BY <1>1 DEF Separates, Covered, BarrierSeparates
<1> QED
  BY <1>2, <1>3

\* Every step keeps the inductive invariant.
LEMMA NextIInv == Counting /\ HasWorkers /\ IInv /\ [Next]_vars => IInv'
<1> SUFFICES ASSUME Counting, HasWorkers, IInv, [Next]_vars PROVE IInv'
  OBVIOUS
<1>0. /\ PoolTypeOK /\ LocalTypeOK /\ LauncherTypeOK /\ RunnersTypeOK /\ SeenTypeOK
      /\ PendingIsOutstanding /\ Positions /\ TaskPlaces /\ Counters /\ Separates /\ MainError
  BY DEF IInv, TypeOK
<1>1. ASSUME NEW n \in TaskCounts, NEW b \in 0 .. MaxBarrier, Launch(n, b) PROVE IInv'
  <2> DEFINE N == Requested(n)
  <2>a. N \in 1 .. num_workers_
    BY <1>0, <1>1 DEF Launch, Requested, PoolTypeOK, Positions
  <2>b. /\ LauncherInit(N) /\ outstanding' = 0 .. N - 1 /\ num_task' = N /\ num_pending_' = N
        /\ main = "idle" /\ main' = "push" /\ next_' = FirstPushed
        /\ bars' = [j \in Ids |-> 0] /\ barriers' = b /\ failed' = {} /\ result' = 0
        /\ UNCHANGED <<queues_, exit_now_, run, bar, num_workers_used_>>
    BY <1>1, Zenon DEF Launch, LauncherInit
  <2>c. \A j \in Ids : ~InLambda(j) /\ queues_[j] = << >>
    BY <1>0, <2>b DEF Positions, TaskPlaces
  <2> HIDE DEF N
  <2>1. TypeOK'
    <3>1. PoolTypeOK'
      BY <1>0, <1>1 DEF Launch, PoolTypeOK
    <3>2. LocalTypeOK'
      BY <1>0, <1>1 DEF Launch, LocalTypeOK
    <3>3. LauncherTypeOK'
      <4>1. par_errors_' \in Seq(Ids \cup {NoError})
        <5>1. Len(par_errors_) \in Nat /\ par_errors_ \in Seq(Ids \cup {NoError})
          BY <1>0 DEF LauncherTypeOK
        <5>2. CASE N > Len(par_errors_)
          <6>1. N + 1 - Len(par_errors_) \in Nat
            BY <2>a, <5>1, <5>2
          <6> QED
            BY <2>b, <5>1, <5>2, <6>1, ErrorsTyped, Zenon DEF LauncherInit
        <5>3. CASE ~(N > Len(par_errors_))
          BY <2>b, <5>1, <5>3 DEF LauncherInit
        <5> QED
          BY <5>2, <5>3
      <4>2. page' \in 0 .. num_workers_
        BY <1>0, <2>a, <2>b DEF LauncherInit, LauncherTypeOK
      <4>3. sync_counter_' \in [Ids -> Nat]
        BY <1>0, <2>a, <2>b DEF LauncherInit, LauncherTypeOK
      <4>4. has_error_' \in BOOLEAN
        BY <2>b, Zenon DEF LauncherInit
      <4> QED
        BY <2>a, <2>b, <4>1, <4>2, <4>3, <4>4 DEF LauncherTypeOK
    <3>4. RunnersTypeOK'
      BY <1>0, <1>1 DEF Launch, RunnersTypeOK, Stages
    <3>5. SeenTypeOK'
      BY <2>a, <2>b DEF SeenTypeOK
    <3> QED
      BY <1>0, <1>1, <3>1, <3>2, <3>3, <3>4, <3>5 DEF Launch, TypeOK
  <2>2. PendingIsOutstanding'
    BY <2>a, <2>b DEF Counting, PendingIsOutstanding
  <2>3. Positions'
    BY <1>0, <2>a, <2>b DEF Positions, PoolTypeOK
  <2>4. TaskPlaces'
    BY <2>a, <2>b, <2>c DEF TaskPlaces
  <2>5. Counters' /\ Separates'
    <3>1. \A j \in 0 .. N - 1 : j \in Ids /\ sync_counter_'[j] = 0
      BY <1>0, <2>a, <2>b DEF LauncherInit, LauncherTypeOK
    <3>2. \A j \in 0 .. N - 1 : bars'[j] = 0 /\ Reached(j)' = 0
      BY <2>b, <2>c, <3>1 DEF Reached
    <3> QED
      BY <2>b, <2>c, <3>1, <3>2 DEF Counters, Separates, BarrierSeparates
  <2>6. MainError'
    BY <1>0, <1>1 DEF Launch, RunnersTypeOK, MainError, Positions
  <2> QED
    BY <2>1, <2>2, <2>3, <2>4, <2>5, <2>6 DEF IInv
<1>2. ASSUME PushTask PROVE IInv'
  <2>1. TypeOK'
    <3>1. PoolTypeOK'
      <4>1. next_ \in Ids
        BY <1>0, <1>2 DEF PushTask, LocalTypeOK, LauncherTypeOK
      <4>2. queues_' \in [Ids -> {<< >>} \cup {<< i >> : i \in Ids}]
        BY <1>0, <1>2, <4>1 DEF PushTask, PoolTypeOK
      <4> QED
        BY <1>0, <1>2, <4>2 DEF PushTask, PoolTypeOK
    <3>2. LocalTypeOK'
      BY <1>0, <1>2 DEF PushTask, LocalTypeOK, LauncherTypeOK
    <3> QED
      BY <1>0, <1>2, <3>1, <3>2, Zenon DEF PushTask, TypeOK, LauncherTypeOK, RunnersTypeOK, SeenTypeOK
  <2>2. PendingIsOutstanding'
    BY <1>0, <1>2 DEF PushTask, SeenTypeOK, LauncherTypeOK, PendingIsOutstanding
  <2>3. Positions'
    BY <1>0, <1>2 DEF PushTask, Positions, LocalTypeOK
  <2>4. TaskPlaces'
    <3>1. next_ \in Ids /\ ~IsMain(next_)
      BY <1>0, <1>2 DEF PushTask, Positions, LocalTypeOK, LauncherTypeOK
    <3>2. queues_' = [queues_ EXCEPT ![next_] = << next_ >>] /\ << next_ >> # << >>
      BY <1>2 DEF PushTask
    <3>3. \A j \in Ids : j # next_ => queues_'[j] = queues_[j]
      BY <1>0, <3>2 DEF PoolTypeOK
    <3> QED
      BY <1>0, <1>2, <3>1, <3>3 DEF PushTask, TaskPlaces, LocalTypeOK, LauncherTypeOK
  <2>5. Counters' /\ Separates'
    BY <1>0, <1>2, CalmStep, Zenon DEF PushTask, RunnersTypeOK, LauncherTypeOK
  <2>6. MainError'
    BY <1>0, <1>2 DEF PushTask, RunnersTypeOK, MainError, Positions
  <2> QED
    BY <2>1, <2>2, <2>3, <2>4, <2>5, <2>6 DEF IInv
<1>3. ASSUME PushDone PROVE IInv'
  <2>1. TypeOK'
    <3>1. PoolTypeOK'
      BY <1>0, <1>3 DEF PushDone, PoolTypeOK
    <3>2. RunnersTypeOK'
      BY <1>0, <1>3, Zenon DEF PushDone, RunnersTypeOK, Stages
    <3> QED
      BY <1>0, <1>3, <3>1, <3>2 DEF PushDone, TypeOK, LocalTypeOK, LauncherTypeOK, SeenTypeOK
  <2>2. PendingIsOutstanding'
    BY <1>0, <1>3 DEF PushDone, SeenTypeOK, LauncherTypeOK, PendingIsOutstanding
  <2>3. Positions'
    BY <1>0, <1>3, Zenon DEF PushDone, PoolTypeOK, RunnersTypeOK, LauncherTypeOK, LocalTypeOK, Positions
  <2>4. TaskPlaces'
    <3>1. CASE exclude_worker0_
      <4>1. 0 \in Ids /\ 0 < num_task /\ IsMain(0)
        BY <1>0, <1>3, <3>1 DEF PushDone, Positions, LauncherTypeOK
      <4>2. 0 \in outstanding /\ queues_[0] = << >>
        BY <1>0, <1>3, <4>1 DEF PushDone, TaskPlaces
      <4>3. run' = [run EXCEPT ![0] = "body"] /\ main' = "task0"
        BY <1>3, <3>1 DEF PushDone
      <4> QED
        BY <1>0, <1>3, <4>1, <4>2, <4>3 DEF PushDone, TaskPlaces, RunnersTypeOK
    <3>2. CASE ~exclude_worker0_
      BY <1>0, <1>3, <3>2 DEF PushDone, TaskPlaces
    <3> QED
      BY <3>1, <3>2
  <2>5. Counters' /\ Separates'
    <3>1. \A j \in Ids : (run'[j] = "barrier") <=> (run[j] = "barrier")
      BY <1>0, <1>3, Zenon DEF PushDone, RunnersTypeOK, Positions
    <3> QED
      BY <1>0, <1>3, <3>1, CalmStep DEF PushDone, LauncherTypeOK
  <2>6. MainError'
    BY <1>0, <1>3 DEF PushDone, RunnersTypeOK, MainError, Positions
  <2> QED
    BY <2>1, <2>2, <2>3, <2>4, <2>5, <2>6 DEF IInv
<1>4. ASSUME WaitForJobs PROVE IInv'
  <2>1. TypeOK'
    <3>1. PoolTypeOK'
      BY <1>0, <1>4 DEF WaitForJobs, PoolTypeOK
    <3> QED
      BY <1>0, <1>4, <3>1, Zenon DEF WaitForJobs, TypeOK, LocalTypeOK, LauncherTypeOK, RunnersTypeOK, SeenTypeOK
  <2>2. PendingIsOutstanding'
    BY <1>0, <1>4, Zenon DEF WaitForJobs, SeenTypeOK, LauncherTypeOK, PendingIsOutstanding
  <2>3. Positions'
    <3>1. outstanding = {}
      BY <1>0, <1>4, Zenon DEF Counting, WaitForJobs, PendingIsOutstanding, SeenTypeOK
    <3> QED
      BY <1>0, <1>4, <3>1 DEF WaitForJobs, Positions
  <2>4. TaskPlaces'
    BY <1>0, <1>4, Zenon DEF WaitForJobs, PoolTypeOK, RunnersTypeOK, LauncherTypeOK, LocalTypeOK, SeenTypeOK, TaskPlaces
  <2>5. Counters' /\ Separates'
    BY <1>0, <1>4, CalmStep DEF WaitForJobs, RunnersTypeOK, LauncherTypeOK
  <2>6. MainError'
    BY <1>0, <1>4 DEF WaitForJobs, RunnersTypeOK, MainError, Positions
  <2> QED
    BY <2>1, <2>2, <2>3, <2>4, <2>5, <2>6 DEF IInv
<1>5. ASSUME ReturnOk PROVE IInv'
  <2>1. TypeOK'
    <3>1. PoolTypeOK'
      BY <1>0, <1>5 DEF ReturnOk, Return, PoolTypeOK
    <3>2. SeenTypeOK'
      BY <1>0, <1>5 DEF ReturnOk, Return, SeenTypeOK
    <3> QED
      BY <1>0, <1>5, <3>1, <3>2, Zenon DEF ReturnOk, Return, TypeOK, LocalTypeOK, LauncherTypeOK, RunnersTypeOK
  <2>2. PendingIsOutstanding'
    BY <1>0, <1>5 DEF ReturnOk, Return, SeenTypeOK, LauncherTypeOK, PendingIsOutstanding
  <2>3. Positions'
    BY <1>0, <1>5 DEF ReturnOk, Return, PoolTypeOK, RunnersTypeOK, LauncherTypeOK, LocalTypeOK, Positions
  <2>4. TaskPlaces'
    BY <1>0, <1>5, Zenon DEF ReturnOk, Return, PoolTypeOK, RunnersTypeOK, LauncherTypeOK, LocalTypeOK, SeenTypeOK, TaskPlaces
  <2>5. Counters' /\ Separates'
    BY <1>0, <1>5, CalmStep DEF ReturnOk, Return, RunnersTypeOK, LauncherTypeOK
  <2>6. MainError'
    BY <1>0, <1>5 DEF ReturnOk, Return, RunnersTypeOK, MainError, Positions
  <2> QED
    BY <2>1, <2>2, <2>3, <2>4, <2>5, <2>6 DEF IInv
<1>6. ASSUME ReturnError PROVE IInv'
  <2>1. TypeOK'
    <3>1. PoolTypeOK'
      BY <1>0, <1>6 DEF ReturnError, Return, PoolTypeOK
    <3>2. LauncherTypeOK'
      <4>1. par_errors_' \in Seq(Ids \cup {NoError})
        BY <1>0, <1>6, ErrorsTyped DEF ReturnError, LauncherTypeOK
      <4> QED
        BY <1>0, <1>6, <4>1 DEF ReturnError, Return, LauncherTypeOK
    <3>3. SeenTypeOK'
      BY <1>0, <1>6 DEF ReturnError, Return, SeenTypeOK
    <3> QED
      BY <1>0, <1>6, <3>1, <3>2, <3>3, Zenon DEF ReturnError, Return, TypeOK, LocalTypeOK, RunnersTypeOK
  <2>2. PendingIsOutstanding'
    BY <1>0, <1>6 DEF ReturnError, Return, SeenTypeOK, LauncherTypeOK, PendingIsOutstanding
  <2>3. Positions'
    BY <1>0, <1>6 DEF ReturnError, Return, PoolTypeOK, RunnersTypeOK, LauncherTypeOK, LocalTypeOK, Positions
  <2>4. TaskPlaces'
    BY <1>0, <1>6, Zenon DEF ReturnError, Return, PoolTypeOK, RunnersTypeOK, LauncherTypeOK, LocalTypeOK, SeenTypeOK, TaskPlaces
  <2>5. Counters' /\ Separates'
    BY <1>0, <1>6, CalmStep DEF ReturnError, Return, RunnersTypeOK, LauncherTypeOK
  <2>6. MainError'
    BY <1>0, <1>6 DEF ReturnError, Return, RunnersTypeOK, MainError, Positions
  <2> QED
    BY <2>1, <2>2, <2>3, <2>4, <2>5, <2>6 DEF IInv
<1>7. ASSUME InlineLaunch PROVE IInv'
  <2>1. TypeOK'
    <3>1. SeenTypeOK'
      BY <1>0, <1>7 DEF InlineLaunch, SeenTypeOK
    <3> QED
      BY <1>0, <1>7, <3>1, Zenon DEF InlineLaunch, TypeOK, PoolTypeOK, LocalTypeOK, LauncherTypeOK, RunnersTypeOK
  <2>2. PendingIsOutstanding'
    BY <1>0, <1>7 DEF InlineLaunch, PendingIsOutstanding, Positions
  <2>3. Positions'
    BY <1>0, <1>7 DEF InlineLaunch, PoolTypeOK, RunnersTypeOK, LauncherTypeOK, LocalTypeOK, Positions
  <2>4. TaskPlaces'
    BY <1>0, <1>7 DEF InlineLaunch, TaskPlaces, Positions
  <2>5. Counters' /\ Separates'
    BY <1>0, <1>7, CalmStep DEF InlineLaunch, RunnersTypeOK, LauncherTypeOK
  <2>6. MainError'
    BY <1>0, <1>7 DEF InlineLaunch, RunnersTypeOK, MainError, Positions
  <2> QED
    BY <2>1, <2>2, <2>3, <2>4, <2>5, <2>6 DEF IInv
<1>8. ASSUME NEW w \in Workers, RunWorker(w) PROVE IInv'
  <2>a. Tail(queues_[w]) = << >> /\ w \in Ids
    <3>1. PICK k \in Ids : queues_[w] = << k >>
      BY <1>0, <1>8 DEF RunWorker, PoolTypeOK
    <3> QED
      BY <3>1
  <2>b. queues_' = [queues_ EXCEPT ![w] = << >>]
    BY <1>8, <2>a, Zenon DEF RunWorker
  <2>1. TypeOK'
    <3>1. PoolTypeOK'
      BY <1>0, <1>8, <2>a, <2>b DEF RunWorker, PoolTypeOK
    <3>2. RunnersTypeOK'
      BY <1>0, <1>8, Zenon DEF RunWorker, RunnersTypeOK, Stages
    <3> QED
      BY <1>0, <1>8, <3>1, <3>2 DEF RunWorker, TypeOK, LocalTypeOK, LauncherTypeOK, SeenTypeOK
  <2>2. PendingIsOutstanding'
    BY <1>0, <1>8 DEF RunWorker, SeenTypeOK, LauncherTypeOK, PendingIsOutstanding
  <2>3. Positions'
    BY <1>0, <1>8, Zenon DEF RunWorker, PoolTypeOK, RunnersTypeOK, LauncherTypeOK, LocalTypeOK, Positions
  <2>4. TaskPlaces'
    <3>1. w \in outstanding /\ ~IsMain(w)
      BY <1>0, <1>8, <2>a DEF RunWorker, TaskPlaces
    <3>2. queues_'[w] = << >> /\ \A j \in Ids : j # w => queues_'[j] = queues_[j]
      BY <1>0, <2>a, <2>b DEF PoolTypeOK
    <3>3. run'[w] = "body" /\ \A j \in Ids : j # w => run'[j] = run[j]
      BY <1>0, <1>8, <2>a DEF RunWorker, RunnersTypeOK
    <3>4. ~(main = "push" /\ w < num_task /\ next_ <= w)
      BY <1>0, <1>8, <2>a DEF RunWorker, TaskPlaces
    <3> QED
      BY <1>0, <1>8, <2>a, <3>1, <3>2, <3>3, <3>4 DEF RunWorker, TaskPlaces
  <2>5. Counters' /\ Separates'
    BY <1>0, <1>8, CalmStep, Zenon DEF RunWorker, RunnersTypeOK, LauncherTypeOK
  <2>6. MainError'
    BY <1>0, <1>8 DEF RunWorker, RunnersTypeOK, MainError, Positions
  <2> QED
    BY <2>1, <2>2, <2>3, <2>4, <2>5, <2>6 DEF IInv
<1>9. ASSUME NEW w \in Workers, WorkerExit(w) PROVE IInv'
  <2>1. TypeOK'
    <3>1. RunnersTypeOK'
      BY <1>0, <1>9, Zenon DEF WorkerExit, RunnersTypeOK, Stages
    <3> QED
      BY <1>0, <1>9, <3>1 DEF WorkerExit, TypeOK, PoolTypeOK, LocalTypeOK, LauncherTypeOK, SeenTypeOK
  <2>2. PendingIsOutstanding'
    BY <1>0, <1>9 DEF WorkerExit, SeenTypeOK, LauncherTypeOK, PendingIsOutstanding
  <2>3. Positions'
    BY <1>0, <1>9, Zenon DEF WorkerExit, PoolTypeOK, RunnersTypeOK, LauncherTypeOK, LocalTypeOK, Positions
  <2>4. TaskPlaces'
    BY <1>0, <1>9, Zenon DEF WorkerExit, PoolTypeOK, RunnersTypeOK, LauncherTypeOK, LocalTypeOK, SeenTypeOK, TaskPlaces
  <2>5. Counters' /\ Separates'
    BY <1>0, <1>9, CalmStep, Zenon DEF WorkerExit, RunnersTypeOK, LauncherTypeOK
  <2>6. MainError'
    BY <1>0, <1>9 DEF WorkerExit, RunnersTypeOK, MainError, Positions
  <2> QED
    BY <2>1, <2>2, <2>3, <2>4, <2>5, <2>6 DEF IInv
<1>10. ASSUME NEW i \in Ids, BarrierArrive(i) PROVE IInv'
  <2>1. TypeOK'
    <3>1. LauncherTypeOK'
      BY <1>0, <1>10 DEF BarrierArrive, LauncherTypeOK
    <3>2. RunnersTypeOK'
      <4>1. PICK old \in Counter(i) :
               bar' = [bar EXCEPT ![i] = [old |-> old, scan |-> 0, tasks |-> num_task]]
        BY <1>10, Zenon DEF BarrierArrive
      <4>2. old \in Nat
        BY <1>0, <1>10, <4>1 DEF Counter, Memory, LauncherTypeOK
      <4>3. [old |-> old, scan |-> 0, tasks |-> num_task] \in [old : Nat, scan : Nat, tasks : Nat]
        BY <1>0, <4>2 DEF LauncherTypeOK
      <4> QED
        BY <1>0, <1>10, <4>1, <4>3, Zenon DEF BarrierArrive, RunnersTypeOK, Stages
    <3> QED
      BY <1>0, <1>10, <3>1, <3>2 DEF BarrierArrive, TypeOK, PoolTypeOK, LocalTypeOK, SeenTypeOK
  <2>2. PendingIsOutstanding'
    BY <1>0, <1>10 DEF BarrierArrive, SeenTypeOK, LauncherTypeOK, PendingIsOutstanding
  <2>3. Positions'
    BY <1>0, <1>10, Zenon DEF BarrierArrive, PoolTypeOK, RunnersTypeOK, LauncherTypeOK, LocalTypeOK, Positions
  <2>4. TaskPlaces'
    BY <1>0, <1>10, Zenon DEF BarrierArrive, PoolTypeOK, RunnersTypeOK, LauncherTypeOK, LocalTypeOK, SeenTypeOK, TaskPlaces
  <2>5. Counters' /\ Separates'
    <3>1. Launching /\ i < num_task
      BY <1>0, <1>10 DEF BarrierArrive, Positions, TaskPlaces
    <3>a. PICK old \in Counter(i) :
             bar' = [bar EXCEPT ![i] = [old |-> old, scan |-> 0, tasks |-> num_task]]
      BY <1>10, Zenon DEF BarrierArrive
    <3>2. /\ sync_counter_'[i] = sync_counter_[i] + 1 /\ run'[i] = "barrier" /\ run[i] = "body"
          /\ bar'[i] = [old |-> old, scan |-> 0, tasks |-> num_task]
          /\ \A j \in Ids : j # i => /\ sync_counter_'[j] = sync_counter_[j]
                                     /\ run'[j] = run[j] /\ bar'[j] = bar[j]
          /\ UNCHANGED <<main, num_task, bars, page>>
      BY <1>0, <1>10, <3>a DEF BarrierArrive, LauncherTypeOK, RunnersTypeOK
    <3>3. /\ num_task \in 0 .. num_workers_ /\ bars \in [Ids -> Nat]
          /\ sync_counter_ \in [Ids -> Nat]
      BY <1>0 DEF LauncherTypeOK, RunnersTypeOK
    <3>4. Reached(i) = bars[i] /\ Reached(i)' = bars[i] + 1 /\ sync_counter_[i] = bars[i]
      <4>1. Reached(i) = bars[i] + 0 /\ Reached(i)' = bars[i] + 1
        BY <3>2 DEF Reached
      <4>2. bars[i] \in Nat
        BY <1>10, <3>3
      <4>3. i \in 0 .. num_task - 1
        BY <1>10, <3>1, <3>3
      <4>4. sync_counter_[i] = Reached(i)
        BY <1>0, <3>1, <4>3 DEF Counters
      <4> QED
        BY <4>1, <4>2, <4>4
    <3>5. \A j \in Ids : j # i => Reached(j)' = Reached(j)
      BY <3>2 DEF Reached
    <3>b. Covered => old = bars[i]
      BY <1>0, <1>10, <3>1, <3>3, <3>4, <3>a DEF Counter, Covered, LauncherTypeOK
    <3>6. Separates'
      <4> SUFFICES ASSUME Covered, NEW j \in 0 .. num_task - 1, NEW k \in 0 .. num_task - 1
                   PROVE  bars[j] <= Reached(k)'
        BY <3>2 DEF Separates, Covered, BarrierSeparates
      <4>1. j \in Ids /\ k \in Ids /\ bars[j] \in Nat /\ bars[j] <= Reached(k)
        BY <1>0, <3>1, <3>3 DEF Separates, BarrierSeparates
      <4>2. CASE k = i
        BY <3>3, <3>4, <4>1, <4>2
      <4>3. CASE k # i
        BY <3>5, <4>1, <4>3
      <4> QED
        BY <4>2, <4>3
    <3>7. Counters'
      <4>1. \A j \in 0 .. num_task - 1 : sync_counter_'[j] = Reached(j)'
        <5> TAKE j \in 0 .. num_task - 1
        <5>1. j \in Ids /\ sync_counter_[j] = Reached(j)
          BY <1>0, <3>1, <3>3 DEF Counters
        <5> QED
          BY <3>2, <3>3, <3>4, <3>5, <5>1, Zenon
      <4>2. \A j \in Ids : sync_counter_[j] \in Nat /\ sync_counter_'[j] \in Nat
                              /\ sync_counter_[j] <= sync_counter_'[j]
        <5>1. sync_counter_[i] \in Nat /\ sync_counter_'[i] = sync_counter_[i] + 1
          BY <1>10, <3>2, <3>3
        <5>2. \A j \in Ids : sync_counter_[j] \in Nat /\ (j # i => sync_counter_'[j] = sync_counter_[j])
          BY <3>2, <3>3
        <5> QED
          BY <5>1, <5>2
      <4>3. ASSUME NEW j \in Ids, run'[j] = "barrier", j # i
            PROVE  /\ bar'[j].tasks = num_task /\ bar'[j].scan <= num_task
                   /\ Covered =>
                        /\ bar'[j].old = bars[j]
                        /\ \A k \in 0 .. bar'[j].scan - 1 : k # j => bars[j] < sync_counter_'[k]
        <5>1. /\ bar[j].tasks = num_task /\ bar[j].scan <= num_task
              /\ Covered =>
                   /\ bar[j].old = bars[j]
                   /\ \A k \in 0 .. bar[j].scan - 1 : k # j => bars[j] < sync_counter_[k]
          BY <1>0, <3>2, <4>3 DEF Counters
        <5>2. bar[j].scan \in Nat /\ bars[j] \in Nat
          BY <1>0 DEF RunnersTypeOK
        <5>3. \A k \in 0 .. bar[j].scan - 1 : k \in Ids
          <6>1. num_task \in 0 .. num_workers_ /\ bar[j].scan <= num_task /\ bar[j].scan \in Nat
            BY <3>3, <5>1, <5>2, Zenon
          <6> QED
            BY <6>1
        <5>4. ASSUME Covered
              PROVE  \A k \in 0 .. bar[j].scan - 1 : k # j => bars[j] < sync_counter_'[k]
          <6> TAKE k \in 0 .. bar[j].scan - 1
          <6>1. k # j => bars[j] < sync_counter_[k]
            BY <5>1, <5>4
          <6>2. sync_counter_[k] \in Nat /\ sync_counter_[k] <= sync_counter_'[k] /\ sync_counter_'[k] \in Nat
            BY <4>2, <5>3
          <6> QED
            BY <5>2, <6>1, <6>2
        <5> QED
          BY <3>2, <4>3, <5>1, <5>4
      <4>4. /\ bar'[i].tasks = num_task /\ bar'[i].scan <= num_task
            /\ bar'[i].scan = 0
            /\ Covered => bar'[i].old = bars[i]
        BY <3>2, <3>3, <3>b
      <4>5. Covered' <=> Covered
        BY <3>2 DEF Covered
      <4>6. /\ bar'[i].tasks = num_task /\ bar'[i].scan <= num_task
            /\ Covered => /\ bar'[i].old = bars[i]
                          /\ \A k \in 0 .. bar'[i].scan - 1 : k # i => bars[i] < sync_counter_'[k]
        BY <4>4
      <4>7. ASSUME NEW j \in Ids, run'[j] = "barrier"
            PROVE  /\ bar'[j].tasks = num_task /\ bar'[j].scan <= num_task
                   /\ Covered =>
                        /\ bar'[j].old = bars[j]
                        /\ \A k \in 0 .. bar'[j].scan - 1 : k # j => bars[j] < sync_counter_'[k]
        BY <4>3, <4>6, <4>7, Zenon
      <4> QED
        BY <3>2, <4>1, <4>5, <4>7, Zenon DEF Counters
    <3> QED
      BY <3>6, <3>7
  <2>6. MainError'
    BY <1>0, <1>10 DEF BarrierArrive, RunnersTypeOK, MainError, Positions
  <2> QED
    BY <2>1, <2>2, <2>3, <2>4, <2>5, <2>6 DEF IInv
<1>11. ASSUME NEW i \in Ids, BarrierScan(i) PROVE IInv'
  <2>1. TypeOK'
    <3>1. RunnersTypeOK'
      <4>1. [bar[i] EXCEPT !.scan = @ + 1] \in [old : Nat, scan : Nat, tasks : Nat]
        <5>1. bar[i] \in [old : Nat, scan : Nat, tasks : Nat]
          BY <1>0, <1>11 DEF RunnersTypeOK
        <5> QED
          BY <5>1
      <4>2. bar' = [bar EXCEPT ![i] = [bar[i] EXCEPT !.scan = @ + 1]]
        BY <1>0, <1>11 DEF BarrierScan, RunnersTypeOK
      <4> QED
        BY <1>0, <1>11, <4>1, <4>2, Zenon DEF BarrierScan, RunnersTypeOK
    <3> QED
      BY <1>0, <1>11, <3>1, Zenon DEF BarrierScan, TypeOK, PoolTypeOK, LocalTypeOK, LauncherTypeOK, SeenTypeOK
  <2>2. PendingIsOutstanding'
    BY <1>0, <1>11 DEF BarrierScan, SeenTypeOK, LauncherTypeOK, PendingIsOutstanding
  <2>3. Positions'
    BY <1>0, <1>11, Zenon DEF BarrierScan, PoolTypeOK, RunnersTypeOK, LauncherTypeOK, LocalTypeOK, Positions
  <2>4. TaskPlaces'
    BY <1>0, <1>11, Zenon DEF BarrierScan, PoolTypeOK, RunnersTypeOK, LauncherTypeOK, LocalTypeOK, SeenTypeOK, TaskPlaces
  <2>5. Counters' /\ Separates'
    <3>1. /\ bar'[i].old = bar[i].old /\ bar'[i].tasks = bar[i].tasks
          /\ bar'[i].scan = bar[i].scan + 1
          /\ \A j \in Ids : j # i => bar'[j] = bar[j]
          /\ UNCHANGED <<main, num_task, run, bars, sync_counter_, page>>
      BY <1>0, <1>11 DEF BarrierScan, RunnersTypeOK
    <3>2. /\ bar[i].scan \in Nat /\ bar[i].tasks = num_task
          /\ bar[i].scan < num_task /\ num_task \in 0 .. num_workers_
          /\ Covered =>
               /\ bar[i].old = bars[i]
               /\ \A k \in 0 .. bar[i].scan - 1 : k # i => bars[i] < sync_counter_[k]
      BY <1>0, <1>11 DEF BarrierScan, RunnersTypeOK, LauncherTypeOK, Counters
    <3>3. ASSUME Covered
          PROVE  bar[i].scan # i => bars[i] < sync_counter_[bar[i].scan]
      <4>1. bar[i].scan \in Ids /\ bars[i] \in Nat /\ sync_counter_[bar[i].scan] \in Nat
        <5>1. bar[i].scan \in Ids
          BY <3>2
        <5>2. bars \in [Ids -> Nat] /\ sync_counter_ \in [Ids -> Nat]
          BY <1>0 DEF RunnersTypeOK, LauncherTypeOK
        <5> QED
          BY <1>11, <5>1, <5>2
      <4>2. bar[i].scan # i => ~(sync_counter_[bar[i].scan] <= bar[i].old)
        <5>1. bar[i].scan < page
          BY <1>0, <3>2, <3>3 DEF Covered, LauncherTypeOK
        <5> QED
          BY <1>11, <5>1 DEF BarrierScan, Waits, Counter
      <4> QED
        BY <3>2, <3>3, <4>1, <4>2
    <3>4. Covered => \A k \in 0 .. bar'[i].scan - 1 : k # i => bars[i] < sync_counter_[k]
      BY <3>1, <3>2, <3>3
    <3>a. Covered' <=> Covered
      BY <3>1 DEF Covered
    <3>5. \A j \in Ids : Reached(j)' = Reached(j)
      BY <3>1 DEF Reached
    <3>6. Separates'
      BY <1>0, <3>1, <3>2, <3>5, <3>a DEF Separates, BarrierSeparates
    <3>7. Counters'
      <4>1. Launching' => \A j \in 0 .. num_task - 1 : sync_counter_'[j] = Reached(j)'
        <5>1. (Launching' <=> Launching) /\ sync_counter_' = sync_counter_
          BY <3>1 DEF Launching
        <5>2. Launching => \A j \in 0 .. num_task - 1 : sync_counter_[j] = Reached(j)
          BY <1>0, Zenon DEF Counters
        <5>3. \A j \in 0 .. num_task - 1 : Reached(j)' = Reached(j)
          BY <3>2, <3>5 DEF Ids
        <5> QED
          BY <5>1, <5>2, <5>3, Zenon
      <4>2. bar'[i].scan <= num_task
        <5>1. bar'[i].scan = bar[i].scan + 1
          BY <3>1
        <5>2. bar[i].scan \in Nat /\ num_task \in Nat /\ bar[i].scan < num_task
          BY <3>2
        <5> QED
          BY <5>1, <5>2
      <4> QED
        BY <1>0, <3>1, <3>2, <3>4, <3>a, <4>1, <4>2 DEF Counters
    <3> QED
      BY <3>6, <3>7
  <2>6. MainError'
    BY <1>0, <1>11 DEF BarrierScan, RunnersTypeOK, MainError, Positions
  <2> QED
    BY <2>1, <2>2, <2>3, <2>4, <2>5, <2>6 DEF IInv
<1>12. ASSUME NEW i \in Ids, BarrierLeave(i) PROVE IInv'
  <2>1. TypeOK'
    <3>1. RunnersTypeOK'
      <4>1. bars' \in [Ids -> Nat]
        <5>1. bars \in [Ids -> Nat]
          BY <1>0 DEF RunnersTypeOK
        <5>2. bars' = [bars EXCEPT ![i] = bars[i] + 1]
          BY <1>0, <1>12 DEF BarrierLeave, RunnersTypeOK
        <5> QED
          BY <5>1, <5>2
      <4>2. run' \in [Ids -> Stages]
        BY <1>0, <1>12 DEF BarrierLeave, RunnersTypeOK, Stages
      <4> QED
        BY <1>0, <1>12, <4>1, <4>2, Zenon DEF BarrierLeave, RunnersTypeOK
    <3> QED
      BY <1>0, <1>12, <3>1 DEF BarrierLeave, TypeOK, PoolTypeOK, LocalTypeOK, LauncherTypeOK, SeenTypeOK
  <2>2. PendingIsOutstanding'
    BY <1>0, <1>12 DEF BarrierLeave, SeenTypeOK, LauncherTypeOK, PendingIsOutstanding
  <2>3. Positions'
    BY <1>0, <1>12, Zenon DEF BarrierLeave, PoolTypeOK, RunnersTypeOK, LauncherTypeOK, LocalTypeOK, Positions
  <2>4. TaskPlaces'
    BY <1>0, <1>12, Zenon DEF BarrierLeave, PoolTypeOK, RunnersTypeOK, LauncherTypeOK, LocalTypeOK, SeenTypeOK, TaskPlaces
  <2>5. Counters' /\ Separates'
    <3>1. /\ bars'[i] = bars[i] + 1 /\ run'[i] = "body" /\ run[i] = "barrier"
          /\ \A j \in Ids : j # i => bars'[j] = bars[j] /\ run'[j] = run[j]
          /\ UNCHANGED <<main, num_task, bar, sync_counter_, page>>
          /\ bars \in [Ids -> Nat] /\ sync_counter_ \in [Ids -> Nat]
          /\ num_task \in 0 .. num_workers_
      BY <1>0, <1>12, Zenon DEF BarrierLeave, RunnersTypeOK, LauncherTypeOK
    <3>2. Launching
      BY <1>0, <1>12, <3>1 DEF Positions, TaskPlaces
    <3>3. Covered => \A k \in 0 .. num_task - 1 : k # i => bars[i] < sync_counter_[k]
      BY <1>0, <1>12, <3>1, Zenon DEF BarrierLeave, Counters
    <3>4. \A j \in Ids : Reached(j)' = Reached(j)
      <4>1. Reached(i)' = bars[i] + 1 /\ Reached(i) = bars[i] + 1
        BY <3>1 DEF Reached
      <4>2. \A j \in Ids : j # i => Reached(j)' = Reached(j)
        BY <3>1, Zenon DEF Reached
      <4> QED
        BY <4>1, <4>2
    <3>5. \A j \in 0 .. num_task - 1 : j \in Ids /\ sync_counter_[j] = Reached(j)
      BY <1>0, <3>1, <3>2 DEF Counters
    <3>6. Separates'
      <4> SUFFICES ASSUME Covered, NEW j \in 0 .. num_task - 1, NEW k \in 0 .. num_task - 1
                   PROVE  bars'[j] <= Reached(k)'
        BY <3>1 DEF Separates, Covered, BarrierSeparates
      <4>1. bars[j] <= Reached(k) /\ j \in Ids /\ k \in Ids
        BY <1>0, <3>1, <3>2 DEF Separates, BarrierSeparates
      <4>2. CASE j # i
        BY <3>1, <3>4, <4>1, <4>2, Zenon
      <4>3. CASE j = i /\ k # i
        <5>1. bars[i] < sync_counter_[k] /\ sync_counter_[k] = Reached(k)'
          BY <3>3, <3>4, <3>5, <4>1, <4>3, Zenon
        <5>2. bars'[j] = bars[i] + 1 /\ bars[i] \in Nat /\ sync_counter_[k] \in Nat
          BY <3>1, <4>1, <4>3
        <5> QED
          BY <5>1, <5>2
      <4>4. CASE j = i /\ k = i
        BY <3>1, <4>1, <4>4 DEF Reached
      <4> QED
        BY <4>2, <4>3, <4>4
    <3>7. Counters'
      <4>1. \A j \in 0 .. num_task - 1 : sync_counter_'[j] = Reached(j)'
        BY <3>1, <3>4, <3>5
      <4> QED
        BY <1>0, <3>1, <4>1, Zenon DEF Counters, Covered
    <3> QED
      BY <3>6, <3>7
  <2>6. MainError'
    BY <1>0, <1>12 DEF BarrierLeave, RunnersTypeOK, MainError, Positions
  <2> QED
    BY <2>1, <2>2, <2>3, <2>4, <2>5, <2>6 DEF IInv
<1>13. ASSUME NEW i \in Ids, SignalJobFinish(i) PROVE IInv'
  <2>a. i \in outstanding
    BY <1>0, <1>13 DEF SignalJobFinish, TaskPlaces
  <2>b. Cardinality(outstanding') = num_pending_ - 1 /\ Cardinality(outstanding') \in 0 .. num_workers_
    <3>1. outstanding' = outstanding \ {i} /\ outstanding \in SUBSET Ids /\ outstanding' \in SUBSET Ids
      BY <1>0, <1>13 DEF SignalJobFinish, SeenTypeOK
    <3> QED
      BY <1>0, <2>a, <3>1, Zenon DEF Counting, PendingIsOutstanding
  <2>1. TypeOK'
    <3>1. PoolTypeOK'
      BY <1>0, <1>13 DEF SignalJobFinish, AfterTask, PoolTypeOK
    <3>2. LauncherTypeOK'
      BY <1>0, <1>13, <2>b DEF SignalJobFinish, LauncherTypeOK
    <3>3. RunnersTypeOK'
      BY <1>0, <1>13, Zenon DEF SignalJobFinish, AfterTask, RunnersTypeOK, Stages
    <3>4. SeenTypeOK'
      BY <1>0, <1>13 DEF SignalJobFinish, AfterTask, SeenTypeOK
    <3> QED
      BY <1>0, <1>13, <3>1, <3>2, <3>3, <3>4 DEF SignalJobFinish, AfterTask, TypeOK, LocalTypeOK
  <2>2. PendingIsOutstanding'
    BY <1>13, <2>b DEF SignalJobFinish, PendingIsOutstanding
  <2>3. Positions'
    BY <1>0, <1>13, Zenon DEF SignalJobFinish, AfterTask, PoolTypeOK, RunnersTypeOK, LauncherTypeOK, LocalTypeOK, Positions
  <2>4. TaskPlaces'
    BY <1>0, <1>13, Zenon DEF SignalJobFinish, AfterTask, PoolTypeOK, RunnersTypeOK, LauncherTypeOK, LocalTypeOK, SeenTypeOK, TaskPlaces
  <2>5. Counters' /\ Separates'
    <3>1. /\ \A j \in Ids : (run'[j] = "barrier") <=> (run[j] = "barrier")
          /\ Launching' => Launching
      BY <1>0, <1>13, Zenon DEF SignalJobFinish, AfterTask, RunnersTypeOK, Positions
    <3> QED
      BY <1>0, <1>13, <3>1, CalmStep DEF SignalJobFinish, LauncherTypeOK
  <2>6. MainError'
    <3>1. IsMain(i) => i = 0 /\ main = "task0" /\ exclude_worker0_
      BY <1>0, <1>13 DEF SignalJobFinish, Positions
    <3>2. CASE IsMain(i)
      BY <1>0, <1>13, <3>1, <3>2 DEF SignalJobFinish, AfterTask, MainError
    <3>3. CASE ~IsMain(i)
      <4>1. exclude_worker0_ => run'[0] = run[0]
        BY <1>0, <1>13, <3>3 DEF SignalJobFinish, AfterTask, RunnersTypeOK
      <4> QED
        BY <1>0, <1>13, <3>3, <4>1 DEF SignalJobFinish, AfterTask, MainError
    <3> QED
      BY <3>2, <3>3
  <2> QED
    BY <2>1, <2>2, <2>3, <2>4, <2>5, <2>6 DEF IInv
<1>14. ASSUME NEW i \in Ids, SignalJobError(i) PROVE IInv'
  <2>a. i \in outstanding
    BY <1>0, <1>14 DEF SignalJobError, TaskPlaces
  <2>b. Cardinality(outstanding') = num_pending_ - 1 /\ Cardinality(outstanding') \in 0 .. num_workers_
    <3>1. outstanding' = outstanding \ {i} /\ outstanding \in SUBSET Ids /\ outstanding' \in SUBSET Ids
      BY <1>0, <1>14 DEF SignalJobError, SeenTypeOK
    <3> QED
      BY <1>0, <2>a, <3>1 DEF Counting, PendingIsOutstanding
  <2>1. TypeOK'
    <3>1. LauncherTypeOK'
      BY <1>0, <1>14, <2>b DEF SignalJobError, LauncherTypeOK
    <3>2. RunnersTypeOK'
      BY <1>0, <1>14, Zenon DEF SignalJobError, RunnersTypeOK, Stages
    <3>3. SeenTypeOK'
      BY <1>0, <1>14 DEF SignalJobError, SeenTypeOK
    <3> QED
      BY <1>0, <1>14, <3>1, <3>2, <3>3 DEF SignalJobError, TypeOK, PoolTypeOK, LocalTypeOK
  <2>2. PendingIsOutstanding'
    BY <1>14, <2>b DEF SignalJobError, PendingIsOutstanding
  <2>3. Positions'
    BY <1>0, <1>14, Zenon DEF SignalJobError, PoolTypeOK, RunnersTypeOK, LauncherTypeOK, LocalTypeOK, Positions
  <2>4. TaskPlaces'
    BY <1>0, <1>14, Zenon DEF SignalJobError, PoolTypeOK, RunnersTypeOK, LauncherTypeOK, LocalTypeOK, SeenTypeOK, TaskPlaces
  <2>5. Counters' /\ Separates'
    BY <1>0, <1>14, CalmStep, Zenon DEF SignalJobError, RunnersTypeOK, LauncherTypeOK
  <2>6. MainError'
    <3>1. /\ run'[i] = "record" /\ \A j \in Ids : j # i => run'[j] = run[j]
          /\ failed' = failed \cup {i}
          /\ UNCHANGED <<main, has_error_, result, max_concurrency>>
      BY <1>0, <1>14 DEF SignalJobError, RunnersTypeOK
    <3>2. exclude_worker0_ /\ i = 0 => main = "task0"
      BY <1>0, <1>14 DEF SignalJobError, Positions
    <3>3. 0 \in Ids
      OBVIOUS
    <3> QED
      BY <1>0, <3>1, <3>2, <3>3 DEF MainError
  <2> QED
    BY <2>1, <2>2, <2>3, <2>4, <2>5, <2>6 DEF IInv
<1>15. ASSUME NEW i \in Ids, RecordError(i) PROVE IInv'
  <2>1. TypeOK'
    <3>1. LauncherTypeOK'
      <4>1. PICK slot \in ErrorSlots(i) : par_errors_' = [par_errors_ EXCEPT ![slot + 1] = i]
        BY <1>15, Zenon DEF RecordError
      <4>2. slot + 1 \in Int
        <5>1. slot \in Int
          BY <1>0 DEF ErrorSlots, LauncherTypeOK, LocalTypeOK
        <5> QED
          BY <5>1
      <4>3. par_errors_' \in Seq(Ids \cup {NoError})
        BY <1>0, <4>1, <4>2, ErrorsTyped DEF LauncherTypeOK
      <4> QED
        BY <1>0, <1>15, <4>3 DEF RecordError, LauncherTypeOK
    <3>2. RunnersTypeOK'
      BY <1>0, <1>15, Zenon DEF RecordError, RunnersTypeOK, Stages
    <3> QED
      BY <1>0, <1>15, <3>1, <3>2 DEF RecordError, TypeOK, PoolTypeOK, LocalTypeOK, SeenTypeOK
  <2>2. PendingIsOutstanding'
    BY <1>0, <1>15 DEF RecordError, SeenTypeOK, LauncherTypeOK, PendingIsOutstanding
  <2>3. Positions'
    BY <1>0, <1>15, Zenon DEF RecordError, PoolTypeOK, RunnersTypeOK, LauncherTypeOK, LocalTypeOK, Positions
  <2>4. TaskPlaces'
    BY <1>0, <1>15, Zenon DEF RecordError, PoolTypeOK, RunnersTypeOK, LauncherTypeOK, LocalTypeOK, SeenTypeOK, TaskPlaces
  <2>5. Counters' /\ Separates'
    BY <1>0, <1>15, CalmStep, Zenon DEF RecordError, RunnersTypeOK, LauncherTypeOK
  <2>6. MainError'
    BY <1>0, <1>15 DEF RecordError, RunnersTypeOK, MainError, Positions
  <2> QED
    BY <2>1, <2>2, <2>3, <2>4, <2>5, <2>6 DEF IInv
<1>16. ASSUME NEW i \in Ids, FlagError(i) PROVE IInv'
  <2>1. TypeOK'
    <3>1. PoolTypeOK'
      BY <1>0, <1>16 DEF FlagError, AfterTask, PoolTypeOK
    <3>2. LauncherTypeOK'
      BY <1>0, <1>16 DEF FlagError, AfterTask, LauncherTypeOK
    <3>3. RunnersTypeOK'
      BY <1>0, <1>16, Zenon DEF FlagError, AfterTask, RunnersTypeOK, Stages
    <3> QED
      BY <1>0, <1>16, <3>1, <3>2, <3>3 DEF FlagError, AfterTask, TypeOK, LocalTypeOK, SeenTypeOK
  <2>2. PendingIsOutstanding'
    BY <1>0, <1>16 DEF FlagError, AfterTask, SeenTypeOK, LauncherTypeOK, PendingIsOutstanding
  <2>3. Positions'
    BY <1>0, <1>16, Zenon DEF FlagError, AfterTask, PoolTypeOK, RunnersTypeOK, LauncherTypeOK, LocalTypeOK, Positions
  <2>4. TaskPlaces'
    BY <1>0, <1>16, Zenon DEF FlagError, AfterTask, PoolTypeOK, RunnersTypeOK, LauncherTypeOK, LocalTypeOK, SeenTypeOK, TaskPlaces
  <2>5. Counters' /\ Separates'
    <3>1. /\ \A j \in Ids : (run'[j] = "barrier") <=> (run[j] = "barrier")
          /\ Launching' => Launching
      BY <1>0, <1>16, Zenon DEF FlagError, AfterTask, RunnersTypeOK, Positions
    <3> QED
      BY <1>0, <1>16, <3>1, CalmStep DEF FlagError, LauncherTypeOK
  <2>6. MainError'
    <3>1. IsMain(i) => i = 0 /\ main = "task0"
      BY <1>0, <1>16 DEF FlagError, Positions
    <3>2. has_error_' /\ UNCHANGED <<failed, result, max_concurrency>>
      BY <1>16 DEF FlagError
    <3>3. CASE IsMain(i)
      BY <1>0, <1>16, <3>1, <3>2, <3>3 DEF FlagError, AfterTask, MainError
    <3>4. CASE ~IsMain(i)
      <4>1. exclude_worker0_ => run'[0] = run[0]
        BY <1>0, <1>16, <3>4 DEF FlagError, AfterTask, RunnersTypeOK
      <4>2. main' = main
        BY <1>16, <3>4 DEF FlagError, AfterTask
      <4> QED
        BY <1>0, <3>2, <4>1, <4>2 DEF MainError
    <3> QED
      BY <3>3, <3>4
  <2> QED
    BY <2>1, <2>2, <2>3, <2>4, <2>5, <2>6 DEF IInv
<1>17. ASSUME NEW used \in WorkerCounts, NEW c \in Concurrency, Configure(used, c) PROVE IInv'
  <2>1. TypeOK'
    <3>1. PoolTypeOK'
      BY <1>0, <1>17 DEF Configure, PoolTypeOK
    <3>2. SeenTypeOK'
      BY <1>0, <1>17 DEF Configure, SeenTypeOK
    <3> QED
      BY <1>0, <1>17, <3>1, <3>2, Zenon DEF Configure, TypeOK, LocalTypeOK, LauncherTypeOK, RunnersTypeOK
  <2>2. PendingIsOutstanding'
    BY <1>0, <1>17 DEF Configure, SeenTypeOK, LauncherTypeOK, PendingIsOutstanding
  <2>3. Positions'
    BY <1>0, <1>17 DEF Configure, HasWorkers, Positions
  <2>4. TaskPlaces'
    BY <1>0, <1>17, Zenon DEF Configure, PoolTypeOK, RunnersTypeOK, LauncherTypeOK, LocalTypeOK, SeenTypeOK, TaskPlaces
  <2>5. Counters' /\ Separates'
    BY <1>0, <1>17, CalmStep DEF Configure, RunnersTypeOK, LauncherTypeOK
  <2>6. MainError'
    BY <1>0, <1>17 DEF Configure, RunnersTypeOK, MainError, Positions
  <2> QED
    BY <2>1, <2>2, <2>3, <2>4, <2>5, <2>6 DEF IInv
<1>18. ASSUME NEW close \in BOOLEAN, StartKill(close) PROVE IInv'
  <2>1. TypeOK'
    <3>1. PoolTypeOK'
      BY <1>0, <1>18 DEF StartKill, PoolTypeOK
    <3>2. LocalTypeOK'
      BY <1>0, <1>18 DEF StartKill, LocalTypeOK
    <3> QED
      BY <1>0, <1>18, <3>1, <3>2, Zenon DEF StartKill, TypeOK, LauncherTypeOK, RunnersTypeOK, SeenTypeOK
  <2>2. PendingIsOutstanding'
    BY <1>0, <1>18 DEF StartKill, SeenTypeOK, LauncherTypeOK, PendingIsOutstanding
  <2>3. Positions'
    BY <1>0, <1>18 DEF StartKill, PoolTypeOK, RunnersTypeOK, LauncherTypeOK, LocalTypeOK, Positions
  <2>4. TaskPlaces'
    BY <1>0, <1>18, Zenon DEF StartKill, PoolTypeOK, RunnersTypeOK, LauncherTypeOK, LocalTypeOK, SeenTypeOK, TaskPlaces
  <2>5. Counters' /\ Separates'
    BY <1>0, <1>18, CalmStep DEF StartKill, RunnersTypeOK, LauncherTypeOK
  <2>6. MainError'
    BY <1>0, <1>18 DEF StartKill, RunnersTypeOK, MainError, Positions
  <2> QED
    BY <2>1, <2>2, <2>3, <2>4, <2>5, <2>6 DEF IInv
<1>19. ASSUME KillQueue PROVE IInv'
  <2>1. TypeOK'
    <3>1. PoolTypeOK'
      BY <1>0, <1>19, Zenon DEF KillQueue, PoolTypeOK
    <3>2. LocalTypeOK'
      BY <1>0, <1>19 DEF KillQueue, LocalTypeOK
    <3> QED
      BY <1>0, <1>19, <3>1, <3>2, Zenon DEF KillQueue, TypeOK, LauncherTypeOK, RunnersTypeOK, SeenTypeOK
  <2>2. PendingIsOutstanding'
    BY <1>0, <1>19 DEF KillQueue, SeenTypeOK, LauncherTypeOK, PendingIsOutstanding
  <2>3. Positions'
    BY <1>0, <1>19, Zenon DEF KillQueue, PoolTypeOK, RunnersTypeOK, LauncherTypeOK, LocalTypeOK, Positions
  <2>4. TaskPlaces'
    BY <1>0, <1>19, Zenon DEF KillQueue, PoolTypeOK, RunnersTypeOK, LauncherTypeOK, LocalTypeOK, SeenTypeOK, TaskPlaces
  <2>5. Counters' /\ Separates'
    BY <1>0, <1>19, CalmStep, Zenon DEF KillQueue, RunnersTypeOK, LauncherTypeOK
  <2>6. MainError'
    BY <1>0, <1>19 DEF KillQueue, RunnersTypeOK, MainError, Positions
  <2> QED
    BY <2>1, <2>2, <2>3, <2>4, <2>5, <2>6 DEF IInv
<1>20. ASSUME JoinAndInit PROVE IInv'
  <2>1. TypeOK'
    <3>1. PoolTypeOK'
      BY <1>0, <1>20 DEF JoinAndInit, PoolTypeOK
    <3>2. RunnersTypeOK'
      BY <1>0, <1>20, Zenon DEF JoinAndInit, RunnersTypeOK, Stages
    <3> QED
      BY <1>0, <1>20, <3>1, <3>2 DEF JoinAndInit, TypeOK, LocalTypeOK, LauncherTypeOK, SeenTypeOK
  <2>2. PendingIsOutstanding'
    BY <1>0, <1>20 DEF JoinAndInit, SeenTypeOK, LauncherTypeOK, PendingIsOutstanding
  <2>3. Positions'
    <3>1. \A i \in Ids : run'[i] = Idle(i) /\ exit_now_'[i] = FALSE
      BY <1>20 DEF JoinAndInit
    <3>2. main' = "idle" /\ num_workers_used_' >= 1 /\ outstanding' = {}
      BY <1>0, <1>20 DEF JoinAndInit, Positions
    <3> QED
      BY <3>1, <3>2 DEF Positions
  <2>4. TaskPlaces'
    BY <1>0, <1>20 DEF JoinAndInit, PoolTypeOK, RunnersTypeOK, LauncherTypeOK, LocalTypeOK, SeenTypeOK, TaskPlaces
  <2>5. Counters' /\ Separates'
    BY <1>0, <1>20, CalmStep, Zenon DEF JoinAndInit, RunnersTypeOK, LauncherTypeOK
  <2>6. MainError'
    BY <1>0, <1>20 DEF JoinAndInit, RunnersTypeOK, MainError, Positions
  <2> QED
    BY <2>1, <2>2, <2>3, <2>4, <2>5, <2>6 DEF IInv
<1>21. ASSUME JoinAndDestroy PROVE IInv'
  <2>1. TypeOK'
    <3>1. PoolTypeOK'
      BY <1>0, <1>21 DEF JoinAndDestroy, PoolTypeOK
    <3> QED
      BY <1>0, <1>21, <3>1, Zenon DEF JoinAndDestroy, TypeOK, LocalTypeOK, LauncherTypeOK, RunnersTypeOK, SeenTypeOK
  <2>2. PendingIsOutstanding'
    BY <1>0, <1>21 DEF JoinAndDestroy, SeenTypeOK, LauncherTypeOK, PendingIsOutstanding
  <2>3. Positions'
    BY <1>0, <1>21 DEF JoinAndDestroy, PoolTypeOK, RunnersTypeOK, LauncherTypeOK, LocalTypeOK, Positions
  <2>4. TaskPlaces'
    BY <1>0, <1>21, Zenon DEF JoinAndDestroy, PoolTypeOK, RunnersTypeOK, LauncherTypeOK, LocalTypeOK, SeenTypeOK, TaskPlaces
  <2>5. Counters' /\ Separates'
    BY <1>0, <1>21, CalmStep DEF JoinAndDestroy, RunnersTypeOK, LauncherTypeOK
  <2>6. MainError'
    BY <1>0, <1>21 DEF JoinAndDestroy, RunnersTypeOK, MainError, Positions
  <2> QED
    BY <2>1, <2>2, <2>3, <2>4, <2>5, <2>6 DEF IInv
<1>22. ASSUME UNCHANGED vars PROVE IInv'
  <2>1. TypeOK'
    BY <1>0, <1>22, Zenon DEF vars, TypeOK, PoolTypeOK, LocalTypeOK, LauncherTypeOK, RunnersTypeOK, SeenTypeOK
  <2>2. PendingIsOutstanding' /\ Positions' /\ TaskPlaces' /\ MainError'
    BY <1>0, <1>22 DEF vars, PendingIsOutstanding, Positions, TaskPlaces, MainError
  <2>3. Counters' /\ Separates'
    BY <1>0, <1>22, CalmStep DEF vars, LauncherTypeOK
  <2> QED
    BY <2>1, <2>2, <2>3 DEF IInv
<1> QED
  BY <1>1, <1>2, <1>3, <1>4, <1>5, <1>6, <1>7, <1>8, <1>9, <1>10, <1>11, <1>12, <1>13, <1>14, <1>15, <1>16, <1>17, <1>18, <1>19, <1>20, <1>21, <1>22
  DEF Next, Caller, MainStep, WorkerStep, TaskStep, Spin, Destroyed

=============================================================================
