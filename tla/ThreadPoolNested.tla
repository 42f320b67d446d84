-------------------------- MODULE ThreadPoolNested --------------------------
(***************************************************************************)
(* ThreadPool whose task 0, run by the main thread, may itself launch.     *)
(* The is_worker flag that Launch tests is only set in the threads of the  *)
(* pool, so the call is let through, and the nested launch runs on the     *)
(* same thread-local ParallelLauncher as the outer one.                    *)
(***************************************************************************)
EXTENDS ThreadPool

VARIABLE frame      \* the suspended Launch: its tsk.task_id, or NoFrame

NoFrame == [last_id |-> NoId, outer |-> FALSE]

NestedInit == Init /\ frame = NoFrame

NestedLaunch(n) ==
    /\ main = "task0"
    /\ run[0] = "body"
    /\ ~frame.outer
    /\ max_concurrency # 1
    /\ Requested(n) <= num_workers_used_
    /\ LauncherInit(Requested(n))
    /\ next_' = FirstPushed
    /\ last_id' = NoId
    /\ main' = "push"
    /\ run' = [run EXCEPT ![0] = "off"]
    /\ outstanding' = 0 .. Requested(n) - 1
    /\ frame' = [last_id |-> last_id, outer |-> TRUE]
    /\ UNCHANGED <<pool, bars, bar, barriers, failed, result>>

\* The nested launch has returned into the lambda of task 0.
NestedReturn ==
    /\ frame.outer
    /\ main = "idle"
    /\ main' = "task0"
    /\ run' = [run EXCEPT ![0] = "body"]
    /\ last_id' = frame.last_id
    /\ frame' = NoFrame
    /\ UNCHANGED <<pool, launcher, next_, bars, bar, seen>>

NestedNext ==
    \/ ~(frame.outer /\ main = "idle") /\ Next /\ UNCHANGED frame
    \/ \E n \in TaskCounts : NestedLaunch(n)
    \/ NestedReturn

allVars == <<vars, frame>>

FairNestedSpec ==
    /\ NestedInit
    /\ [][NestedNext]_allVars
    /\ WF_allVars((MainStep /\ UNCHANGED frame) \/ NestedReturn)
    /\ \A w \in Workers : WF_allVars(WorkerStep(w) /\ UNCHANGED frame)
    /\ \A i \in Ids : WF_allVars(TaskStep(i) /\ UNCHANGED frame)

\* A launch made by task 0 is refused or returns, and so does the launch it is
\* made in: is_worker is "used to prevent recursive launch" (thread_pool.cc:133).
NestedLaunchReturns == Launching ~> (main = "idle" /\ ~frame.outer)
=============================================================================
