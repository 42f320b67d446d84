--------------------------- MODULE ThreadPoolProof ---------------------------
(***************************************************************************)
(* The safety theorems of ThreadPool, from the inductive invariant of      *)
(* ThreadPoolInduction, for any number of workers, any launches and any    *)
(* configuration that leaves at least one worker in use.                   *)
(***************************************************************************)
EXTENDS ThreadPoolInduction, FiniteSetTheorems

USE PoolAssumption DEF Ids

\* Finite sets of tasks: what num_pending_ counts.
LEMMA CountTasks ==
    ASSUME NEW S \in SUBSET Ids
    PROVE  /\ IsFiniteSet(S)
           /\ Cardinality(S) \in 0 .. num_workers_
           /\ Cardinality(S) = 0 => S = {}
           /\ \A i \in S : Cardinality(S \ {i}) = Cardinality(S) - 1
<1>1. IsFiniteSet(Ids) /\ Cardinality(Ids) = num_workers_
  BY FS_Interval
<1>2. IsFiniteSet(S) /\ Cardinality(S) <= num_workers_
  <2>1. IsFiniteSet(S) /\ Cardinality(S) <= Cardinality(Ids)
    BY <1>1, FS_Subset, Zenon
  <2> QED
    BY <1>1, <2>1
<1>3. Cardinality(S) \in Nat
  BY <1>2, FS_CardinalityType
<1>4. Cardinality(S) = 0 => S = {}
  BY <1>2, FS_EmptySet
<1>5. \A i \in S : Cardinality(S \ {i}) = Cardinality(S) - 1
  BY <1>2, FS_RemoveElement
<1> QED
  BY <1>2, <1>3, <1>4, <1>5

\* A launch of n tasks has n of them outstanding.
LEMMA CountAll ==
    ASSUME NEW n \in Nat
    PROVE  Cardinality(0 .. n - 1) = n
  BY FS_Interval

LEMMA CountingHolds == Counting
  BY CountTasks, CountAll, FS_EmptySet DEF Counting

-----------------------------------------------------------------------------
(* Theorems *)

LEMMA Invariance ==
    ASSUME HasWorkers
    PROVE  Spec => []IInv
<1>1. Init => IInv
  BY InitIInv, CountingHolds
<1>2. IInv /\ [Next]_vars => IInv'
  BY NextIInv, CountingHolds
<1> QED
  BY <1>1, <1>2, PTL DEF Spec

\* Every variable keeps its type; in particular num_pending_ is never negative
\* and no queue ever holds more than one task.
THEOREM PoolTypeCorrect ==
    ASSUME HasWorkers
    PROVE  Spec => []TypeOK
<1>1. IInv => TypeOK
  BY DEF IInv
<1> QED
  BY <1>1, Invariance, PTL

\* num_pending_ counts exactly the tasks of the launch that have not signalled.
THEOREM PendingCountsTasks ==
    ASSUME HasWorkers
    PROVE  Spec => []PendingIsOutstanding
<1>1. IInv => PendingIsOutstanding
  BY DEF IInv
<1> QED
  BY <1>1, Invariance, PTL

\* When Launch has returned no thread is in its lambda or about to enter it.
THEOREM LaunchIsSynchronous ==
    ASSUME HasWorkers
    PROVE  Spec => []NothingRunsAfterReturn
<1>1. IInv => NothingRunsAfterReturn
  BY Zenon DEF IInv, Positions, TaskPlaces, NothingRunsAfterReturn
<1> QED
  BY <1>1, Invariance, PTL

\* A queue that Launch is about to push to is empty: Push never spins.
THEOREM PushFindsRoom ==
    ASSUME HasWorkers
    PROVE  Spec => []QueueHasRoom
<1>1. IInv => QueueHasRoom
  BY Zenon DEF IInv, TaskPlaces, QueueHasRoom
<1> QED
  BY <1>1, Invariance, PTL

\* On a counter page that covers the tasks, a task that has passed its k-th
\* barrier finds every task at its k-th barrier or beyond.
THEOREM BarrierIsBSP ==
    ASSUME HasWorkers
    PROVE  Spec => [](PageCoversTasks => BarrierSeparates)
<1>1. IInv => (PageCoversTasks => BarrierSeparates)
  BY DEF IInv, Separates, Covered, PageCoversTasks, BarrierSeparates
<1> QED
  BY <1>1, Invariance, PTL

-----------------------------------------------------------------------------
(* When the page covers the tasks *)

\* The sizes a launch can have, and that none of them follows another: it is a
\* launch of one task more than the page has counters that Init does not
\* reshape for, since par_errors_ is one longer than the page.
Sizes == (TaskCounts \ {0}) \cup (IF 0 \in TaskCounts THEN WorkerCounts \cup {big_workers} ELSE {})
SizesApart == \A m, n \in Sizes : n # m + 1

\* The arrays of the launcher have been shaped together, for a size of a launch.
Shaped ==
    /\ num_workers_used_ \in WorkerCounts \cup {big_workers}
    /\ \/ page = 0 /\ Len(par_errors_) = 0
       \/ page \in Sizes /\ Len(par_errors_) = page + 1
    /\ num_task <= page

\* Storing an error and clearing the errors keep the length of the vector.
LEMMA ErrorsLength ==
    ASSUME NEW s \in Seq(Ids \cup {NoError})
    PROVE  /\ \A k \in Int, e \in Ids : Len([s EXCEPT ![k] = e]) = Len(s)
           /\ Len([k \in DOMAIN s |-> NoError]) = Len(s)
           /\ \A n \in Nat : Len(s \o [k \in 1 .. n |-> NoError]) = Len(s) + n
<1>1. Len(s) \in Nat /\ DOMAIN s = 1 .. Len(s)
  OBVIOUS
<1>2. ASSUME NEW k \in Int, NEW e \in Ids
      PROVE  Len([s EXCEPT ![k] = e]) = Len(s)
  <2>1. DOMAIN [s EXCEPT ![k] = e] = 1 .. Len(s)
    BY <1>1
  <2>2. [s EXCEPT ![k] = e] \in Seq(Ids \cup {NoError})
    BY ErrorsTyped
  <2> QED
    BY <1>1, <2>1, <2>2
<1>3. Len([k \in DOMAIN s |-> NoError]) = Len(s)
  <2>1. [k \in DOMAIN s |-> NoError] \in Seq(Ids \cup {NoError})
    BY ErrorsTyped
  <2> QED
    BY <1>1, <2>1
<1>4. ASSUME NEW n \in Nat
      PROVE  Len(s \o [k \in 1 .. n |-> NoError]) = Len(s) + n
  <2> DEFINE t == [k \in 1 .. n |-> NoError]
  <2>1. t \in [1 .. n -> Ids \cup {NoError}]
    OBVIOUS
  <2>2. t \in Seq(Ids \cup {NoError}) /\ Len(t) = n
    BY <2>1
  <2> HIDE DEF t
  <2> QED
    BY <1>1, <2>2
<1> QED
  BY <1>2, <1>3, <1>4

LEMMA InitShaped == Init => Shaped
  BY DEF Init, Shaped

LEMMA NextShaped == HasWorkers /\ SizesApart /\ IInv /\ Shaped /\ [Next]_vars => Shaped'
<1> SUFFICES ASSUME HasWorkers, SizesApart, IInv, Shaped, [Next]_vars PROVE Shaped'
  OBVIOUS
<1>0. /\ par_errors_ \in Seq(Ids \cup {NoError}) /\ Len(par_errors_) \in Nat
      /\ page \in Nat /\ num_workers_used_ \in Nat \ {0}
  BY DEF IInv, TypeOK, LauncherTypeOK, PoolTypeOK, Positions
<1>1. ASSUME NEW n \in TaskCounts, NEW b \in 0 .. MaxBarrier, Launch(n, b) PROVE Shaped'
  <2> DEFINE N == Requested(n)
  <2>1. N \in Sizes /\ N \in Nat \ {0}
    BY <1>0, <1>1 DEF Requested, Sizes, Shaped
  <2>2. LauncherInit(N) /\ num_workers_used_' = num_workers_used_
    BY <1>1, Zenon DEF Launch, pool
  <2> HIDE DEF N
  <2>3. CASE N > Len(par_errors_)
    <3>1. N + 1 - Len(par_errors_) \in Nat
      BY <1>0, <2>1, <2>3
    <3>2. par_errors_' = par_errors_ \o [k \in 1 .. N + 1 - Len(par_errors_) |-> NoError]
      BY <2>2, <2>3, Zenon DEF LauncherInit
    <3>3. Len(par_errors_') = Len(par_errors_) + (N + 1 - Len(par_errors_))
      BY <1>0, <3>1, <3>2, ErrorsLength, Zenon
    <3>4. Len(par_errors_') = N + 1
      BY <1>0, <2>1, <3>3
    <3> QED
      BY <2>1, <2>2, <2>3, <3>4 DEF LauncherInit, Shaped
  <2>4. CASE ~(N > Len(par_errors_))
    <3>1. page \in Sizes /\ Len(par_errors_) = page + 1
      BY <1>0, <2>1, <2>4 DEF Shaped
    <3>2. N # page + 1
      BY <2>1, <3>1 DEF SizesApart
    <3>3. N <= page
      BY <1>0, <2>1, <2>4, <3>1, <3>2
    <3> QED
      BY <2>2, <2>4, <3>1, <3>3 DEF LauncherInit, Shaped
  <2> QED
    BY <2>3, <2>4
<1>2. ASSUME NEW used \in WorkerCounts, NEW c \in Concurrency, Configure(used, c) PROVE Shaped'
  BY <1>2 DEF Configure, Shaped, launcher
<1>3. ASSUME JoinAndInit PROVE Shaped'
  BY <1>3 DEF JoinAndInit, Shaped, launcher
<1>4. ASSUME ReturnError PROVE Shaped'
  <2>1. Len(par_errors_') = Len(par_errors_)
    BY <1>0, <1>4, ErrorsLength DEF ReturnError
  <2> QED
    BY <1>4, <2>1 DEF ReturnError, Return, Shaped, pool
<1>5. ASSUME NEW i \in Ids, RecordError(i) PROVE Shaped'
  <2>1. PICK slot \in ErrorSlots(i) : par_errors_' = [par_errors_ EXCEPT ![slot + 1] = i]
    BY <1>5, Zenon DEF RecordError
  <2>2. slot \in Int
    BY <1>0, <2>1 DEF ErrorSlots, IInv, TypeOK, LocalTypeOK, NoId
  <2>3. Len(par_errors_') = Len(par_errors_)
    BY <1>0, <2>1, <2>2, ErrorsLength
  <2> QED
    BY <1>5, <2>3 DEF RecordError, Shaped, pool
<1>6. ASSUME UNCHANGED <<num_workers_used_, page, par_errors_, num_task>> PROVE Shaped'
  BY <1>6 DEF Shaped
<1>7. ASSUME PushTask \/ PushDone \/ WaitForJobs \/ ReturnOk \/ InlineLaunch \/ KillQueue
             \/ JoinAndDestroy \/ UNCHANGED vars \/ \E close \in BOOLEAN : StartKill(close)
      PROVE  Shaped'
  BY <1>6, <1>7, Zenon
  DEF PushTask, PushDone, WaitForJobs, ReturnOk, Return, InlineLaunch, KillQueue, JoinAndDestroy,
      StartKill, vars, pool, launcher
<1>8. ASSUME NEW i \in Ids,
             RunWorker(i) \/ WorkerExit(i) \/ BarrierArrive(i) \/ BarrierScan(i) \/ BarrierLeave(i)
             \/ SignalJobFinish(i) \/ SignalJobError(i) \/ FlagError(i)
      PROVE  Shaped'
  BY <1>6, <1>8, Zenon
  DEF RunWorker, WorkerExit, BarrierArrive, BarrierScan, BarrierLeave, SignalJobFinish,
      SignalJobError, FlagError, pool, launcher
<1> QED
  BY <1>1, <1>2, <1>3, <1>4, <1>5, <1>7, <1>8
  DEF Next, Caller, MainStep, WorkerStep, TaskStep, Spin, Destroyed, Workers

\* If no launch can have one task more than another, a launch always finds a
\* counter for each of its tasks.
THEOREM PageIsLargeEnough ==
    ASSUME HasWorkers, SizesApart
    PROVE  Spec => []PageCoversTasks
<1>1. IInv /\ Shaped /\ [Next]_vars => Shaped'
  BY NextShaped
<1>2. Shaped => PageCoversTasks
  BY DEF Shaped, PageCoversTasks
<1> QED
  BY <1>1, <1>2, InitShaped, Invariance, PTL DEF Spec

\* If no launch can have one task more than another, the barrier is always one.
THEOREM BarrierIsBSPForSizesApart ==
    ASSUME HasWorkers, SizesApart
    PROVE  Spec => []BarrierSeparates
  BY BarrierIsBSP, PageIsLargeEnough, PTL

-----------------------------------------------------------------------------
(* Errors *)

\* The error of the task that the main thread runs is reported by its launch.
THEOREM MainErrorIsReported ==
    ASSUME HasWorkers
    PROVE  Spec => []MainErrorReported
<1>1. IInv => MainErrorReported
  BY DEF IInv, MainError, MainErrorReported, Launching
<1> QED
  BY <1>1, Invariance, PTL

=============================================================================
