------------------------------ MODULE TaskQueue ------------------------------
(***************************************************************************)
(* What one worker's task queue promises to the thread pool: a FIFO of at  *)
(* most Capacity tasks with one producer and one consumer, which can be    *)
(* told once to let its consumer go.  SpscTaskQueue is shown to implement  *)
(* it, and ThreadPool is written against it.                               *)
(***************************************************************************)
EXTENDS Naturals, Sequences

CONSTANTS
    Tasks,      \* the tasks that may be pushed
    NoTask,     \* no task
    Capacity    \* "the queue can host size_ - 1 items at most"

VARIABLES
    queue,      \* the tasks pushed and not yet popped, oldest first
    popped,     \* the task that the last Pop put out
    killed,     \* SignalForKill has been called
    exited      \* Pop has returned false: the consumer left

vars == <<queue, popped, killed, exited>>

Init ==
    /\ queue = << >>
    /\ popped = NoTask
    /\ killed = FALSE
    /\ exited = FALSE

Push(t) ==
    /\ ~killed
    /\ Len(queue) < Capacity
    /\ queue' = Append(queue, t)
    /\ UNCHANGED <<popped, killed, exited>>

\* The consumer may have passed its exit test before the kill, so a task may
\* still be popped after it.
Pop ==
    /\ ~exited
    /\ queue # << >>
    /\ queue' = Tail(queue)
    /\ popped' = Head(queue)
    /\ UNCHANGED <<killed, exited>>

SignalForKill ==
    /\ killed' = TRUE
    /\ UNCHANGED <<queue, popped, exited>>

PopExit ==
    /\ killed
    /\ ~exited
    /\ exited' = TRUE
    /\ UNCHANGED <<queue, popped, killed>>

Next ==
    \/ \E t \in Tasks : Push(t)
    \/ Pop
    \/ SignalForKill
    \/ PopExit

Spec == Init /\ [][Next]_vars

\* The consumer keeps calling Pop until it is let go.
FairSpec == Spec /\ WF_vars(Pop \/ PopExit)
==============================================================================
