---------------------------- MODULE SpscTaskQueue ----------------------------
(***************************************************************************)
(* class SpscTaskQueue of src/runtime/thread_pool.cc: the single-producer  *)
(* single-consumer ring that hands tasks to one worker, with the counter   *)
(* pending_ that decides who sleeps and who notifies, and the kill signal. *)
(*                                                                         *)
(* One action per atomic access, per lock acquisition and per access to    *)
(* the ring.  The producer is the thread that owns the pool, so Push and   *)
(* SignalForKill are calls of one thread and never overlap.                *)
(***************************************************************************)
EXTENDS Integers, Sequences

CONSTANTS
    Tasks,      \* the tasks the producer may push
    NoTask,     \* content of a ring slot that was never written
    kRingSize   \* size of the ring; 2 in the code

\* pending_ is an int8_t and counts at most kRingSize - 1 tasks.
ASSUME RingAssumption == kRingSize \in 2..128
ASSUME NoTaskAssumption == NoTask \notin Tasks

VARIABLES
    buffer_, head_, tail_,  \* the ring
    pending_,               \* tasks pushed and not claimed; -1: consumer waits
    exit_now_,
    mutex_,                 \* holder of mutex_: "none", "producer", "consumer"
    prod,                   \* where the producer is
    input,                  \* the task it is pushing
    cons,                   \* where the consumer is
    output                  \* the task the consumer copied out last

vars == <<buffer_, head_, tail_, pending_, exit_now_, mutex_, prod, input, cons, output>>
ring == <<buffer_, head_, tail_>>

Slots == 0 .. kRingSize - 1
NextSlot_NoWrap(s) == s + 1
NextSlot(s) == (s + 1) % kRingSize

\* Arithmetic of std::atomic<int8_t>.
Int8(n) == ((n + 128) % 256) - 128

Init ==
    /\ buffer_ = [s \in Slots |-> NoTask]
    /\ head_ = 0
    /\ tail_ = 0
    /\ pending_ = 0
    /\ exit_now_ = FALSE
    /\ mutex_ = "none"
    /\ prod = "idle"
    /\ input = NoTask
    /\ cons = "claim"
    /\ output = NoTask

-----------------------------------------------------------------------------
(* The producer: Push and SignalForKill *)

PushCall(t) ==
    /\ prod = "idle"
    /\ prod' = "enqueue"
    /\ input' = t
    /\ UNCHANGED <<ring, pending_, exit_now_, mutex_, cons, output>>

Enqueue_NoFullTest ==
    /\ prod = "enqueue"
    /\ ~exit_now_
    /\ prod' = "write"
    /\ UNCHANGED <<ring, pending_, exit_now_, mutex_, input, cons, output>>

\* Enqueue, up to its test: a full ring or a killed queue makes Push spin.
Enqueue ==
    /\ prod = "enqueue"
    /\ ~exit_now_
    /\ NextSlot(tail_) # head_
    /\ prod' = "write"
    /\ UNCHANGED <<ring, pending_, exit_now_, mutex_, input, cons, output>>

EnqueueWrite ==
    /\ prod = "write"
    /\ buffer_' = [buffer_ EXCEPT ![tail_] = input]
    /\ prod' = "publish"
    /\ UNCHANGED <<head_, tail_, pending_, exit_now_, mutex_, input, cons, output>>

EnqueuePublish ==
    /\ prod = "publish"
    /\ tail_' = NextSlot(tail_)
    /\ prod' = "count"
    /\ UNCHANGED <<buffer_, head_, pending_, exit_now_, mutex_, input, cons, output>>

PushCount_Store ==
    /\ prod = "count"
    /\ pending_' = 1
    /\ prod' = IF pending_ = -1 THEN "lock" ELSE "idle"
    /\ UNCHANGED <<ring, exit_now_, mutex_, input, cons, output>>

\* pending_.fetch_add(1) == -1 tells that the consumer waits, or is about to.
PushCount ==
    /\ prod = "count"
    /\ pending_' = Int8(pending_ + 1)
    /\ prod' = IF pending_ = -1 THEN "lock" ELSE "idle"
    /\ UNCHANGED <<ring, exit_now_, mutex_, input, cons, output>>

PushLock_NoMutex ==
    /\ prod = "lock"
    /\ prod' = "notify"
    /\ UNCHANGED <<ring, pending_, exit_now_, mutex_, input, cons, output>>

PushLock ==
    /\ prod = "lock"
    /\ mutex_ = "none"
    /\ mutex_' = "producer"
    /\ prod' = "notify"
    /\ UNCHANGED <<ring, pending_, exit_now_, input, cons, output>>

\* cv_.notify_one() or notify_all(): there is one waiter at most.
Notified == IF cons = "asleep" THEN "woken" ELSE cons

PushNotify ==
    /\ prod = "notify"
    /\ cons' = Notified
    /\ mutex_' = "none"
    /\ prod' = "idle"
    /\ UNCHANGED <<ring, pending_, exit_now_, input, output>>

\* SignalForKill waits for mutex_ like any other thread.
KillCall ==
    /\ prod = "idle"
    /\ prod' = "killlock"
    /\ UNCHANGED <<ring, pending_, exit_now_, mutex_, input, cons, output>>

KillLock ==
    /\ prod = "killlock"
    /\ mutex_ = "none"
    /\ mutex_' = "producer"
    /\ prod' = "kill"
    /\ UNCHANGED <<ring, pending_, exit_now_, input, cons, output>>

KillStore ==
    /\ prod = "kill"
    /\ exit_now_' = TRUE
    /\ prod' = "killnotify"
    /\ UNCHANGED <<ring, pending_, mutex_, input, cons, output>>

\* The owner joins the worker and destroys the queue after this.
KillNotify ==
    /\ prod = "killnotify"
    /\ cons' = Notified
    /\ mutex_' = "none"
    /\ prod' = "done"
    /\ UNCHANGED <<ring, pending_, exit_now_, input, output>>

-----------------------------------------------------------------------------
(* The consumer: Pop, called again each time it returns true.  The busy     *)
(* wait before the fetch_sub gives up after spin_count rounds and changes   *)
(* nothing, so it is the wait in front of PopClaim.                         *)

PopClaim ==
    /\ cons = "claim"
    /\ pending_' = Int8(pending_ - 1)
    /\ cons' = IF pending_ = 0 THEN "lock" ELSE "check"
    /\ UNCHANGED <<ring, exit_now_, mutex_, prod, input, output>>

PopLock_NoPredicate ==
    /\ cons \in {"lock", "woken"}
    /\ mutex_ = "none"
    /\ IF cons = "woken"
       THEN cons' = "check" /\ UNCHANGED mutex_
       ELSE cons' = "test" /\ mutex_' = "consumer"
    /\ UNCHANGED <<ring, pending_, exit_now_, prod, input, output>>

PopLock ==
    /\ cons \in {"lock", "woken"}
    /\ mutex_ = "none"
    /\ mutex_' = "consumer"
    /\ cons' = "test"
    /\ UNCHANGED <<ring, pending_, exit_now_, prod, input, output>>

\* The predicate of cv_.wait, evaluated with mutex_ held.
PopTest ==
    /\ cons = "test"
    /\ IF pending_ >= 0 \/ exit_now_
       THEN cons' = "check" /\ mutex_' = "none"
       ELSE cons' = "sleep" /\ UNCHANGED mutex_
    /\ UNCHANGED <<ring, pending_, exit_now_, prod, input, output>>

\* cv_.wait releases mutex_ and starts to wait in one step.
PopSleep ==
    /\ cons = "sleep"
    /\ cons' = "asleep"
    /\ mutex_' = "none"
    /\ UNCHANGED <<ring, pending_, exit_now_, prod, input, output>>

\* A condition variable may wake without a notification.
SpuriousWakeup ==
    /\ cons = "asleep"
    /\ cons' = "woken"
    /\ UNCHANGED <<ring, pending_, exit_now_, mutex_, prod, input, output>>

\* Pop returns false when it is told to exit; else the ICHECK of a non-empty
\* ring, whose failure ends the worker.
PopCheck ==
    /\ cons = "check"
    /\ cons' = IF exit_now_ THEN "exited" ELSE IF tail_ # head_ THEN "read" ELSE "failed"
    /\ UNCHANGED <<ring, pending_, exit_now_, mutex_, prod, input, output>>

PopRead_Tail ==
    /\ cons = "read"
    /\ output' = buffer_[tail_]
    /\ cons' = "advance"
    /\ UNCHANGED <<ring, pending_, exit_now_, mutex_, prod, input>>

PopRead ==
    /\ cons = "read"
    /\ output' = buffer_[head_]
    /\ cons' = "advance"
    /\ UNCHANGED <<ring, pending_, exit_now_, mutex_, prod, input>>

PopAdvance ==
    /\ cons = "advance"
    /\ head_' = NextSlot(head_)
    /\ cons' = "claim"
    /\ UNCHANGED <<buffer_, tail_, pending_, exit_now_, mutex_, prod, input, output>>

-----------------------------------------------------------------------------

\* The worker is joined and the queue destroyed.
Terminated ==
    /\ prod = "done"
    /\ cons = "exited"
    /\ UNCHANGED vars

Producer ==
    \/ Enqueue \/ EnqueueWrite \/ EnqueuePublish \/ PushCount \/ PushLock \/ PushNotify
    \/ KillLock \/ KillStore \/ KillNotify

Consumer ==
    PopClaim \/ PopLock \/ PopTest \/ PopSleep \/ PopCheck \/ PopRead \/ PopAdvance

Next ==
    \/ \E t \in Tasks : PushCall(t)
    \/ KillCall
    \/ Producer
    \/ Consumer
    \/ SpuriousWakeup
    \/ Terminated

Spec == Init /\ [][Next]_vars

\* Both threads are scheduled; nobody is obliged to push or to kill, and no
\* spurious wakeup is promised.  Strong fairness of the producer's two locks: a
\* sleeper that wakes again and again for no reason does not keep the mutex from
\* a thread that waits for it.
FairSpec ==
    Spec /\ WF_vars(Producer) /\ WF_vars(Consumer) /\ SF_vars(PushLock \/ KillLock)

-----------------------------------------------------------------------------
(* Properties *)

\* Type invariant.  pending_ never leaves -1 .. kRingSize - 1, so the int8_t
\* of line 249 does not wrap whatever the interleaving.
TypeOK ==
    /\ buffer_ \in [Slots -> Tasks \cup {NoTask}]
    /\ head_ \in Slots
    /\ tail_ \in Slots
    /\ pending_ \in -1 .. kRingSize - 1
    /\ exit_now_ \in BOOLEAN
    /\ mutex_ \in {"none", "producer", "consumer"}
    /\ prod \in {"idle", "enqueue", "write", "publish", "count", "lock", "notify",
                 "killlock", "kill", "killnotify", "done"}
    /\ input \in Tasks \cup {NoTask}
    /\ cons \in {"claim", "lock", "test", "sleep", "asleep", "woken", "check", "read",
                 "advance", "exited", "failed"}
    /\ output \in Tasks \cup {NoTask}

\* The number of tasks in the ring.
Items == IF tail_ >= head_ THEN tail_ - head_ ELSE tail_ - head_ + kRingSize

One(b) == IF b THEN 1 ELSE 0

\* pending_ and the two ring indices are updated by separate atomic accesses,
\* yet they always agree: pending_ is the number of tasks in the ring, less the
\* one not counted yet by Push and the one claimed already by Pop.
PendingAccounts ==
    pending_ = Items - One(prod = "count") - One(cons # "claim")

\* The ICHECK of Pop ("sanity check if the queue is empty", line 195) never
\* fails, whatever wakes the consumer.
SanityCheck == cons # "failed"

\* Push never writes the ring slot that Pop is copying from: the plain reads
\* and writes of buffer_ (lines 197 and 223) do not race.
NoSlotRace == ~(prod = "write" /\ cons \in {"read", "advance"} /\ tail_ = head_)

\* No wakeup is lost: a consumer that sleeps with a task to run, or after the
\* kill signal, has a producer on its way to notify it (lines 168 to 171 and
\* 205 to 209).
SleeperIsNotified ==
    cons = "asleep" =>
        /\ pending_ >= 0 => prod \in {"lock", "notify"}
        /\ exit_now_ => prod = "killnotify"

\* The tasks in the ring, oldest first.
Contents == [i \in 1 .. Items |-> buffer_[(head_ + i - 1) % kRingSize]]

\* The task copied to output has left the queue, although head_ is yet to move.
NotTaken == IF cons = "advance" THEN Tail(Contents) ELSE Contents

Queue == INSTANCE TaskQueue WITH
            Capacity <- kRingSize - 1, queue <- NotTaken, popped <- output,
            killed <- exit_now_, exited <- (cons = "exited")

\* The queue is a bounded FIFO: tasks leave in the order Push published them,
\* none lost, duplicated or overwritten, and what Pop copies to its output is
\* the oldest one (lines 165 to 200).
ImplementsQueue == Queue!Spec

\* A task that stays in the queue is popped and a killed consumer leaves: the
\* consumer never sleeps through either.
ImplementsFairQueue == Queue!FairSpec

\* Push and SignalForKill return: Push spins only while the ring is full, and
\* neither waits for mutex_ for ever (lines 164 to 172, 205 to 209).
CallsReturn == prod # "idle" ~> prod \in {"idle", "done"}
==============================================================================
