------------------------- MODULE SpscTaskQueueProof -------------------------
(***************************************************************************)
(* Proofs about SpscTaskQueue for every ring size and every set of tasks:  *)
(* the type invariant and the safety properties, through the inductive     *)
(* invariant IInv.                                                         *)
(***************************************************************************)
EXTENDS SpscTaskQueue, SequenceTheorems, TLAPS

\* Push checked that the ring has room, so tail_ may advance.
RoomToPublish == prod \in {"write", "publish"} => NextSlot(tail_) # head_

\* A task published and not counted is still in the ring.
CountedIsThere == prod = "count" => Items >= 1

\* Past its wait, Pop holds a claim on a task, or is told to exit.
ClaimIsBacked ==
    /\ cons = "check" => pending_ >= 0 \/ exit_now_
    /\ cons \in {"read", "advance"} => pending_ >= 0

MutexHeld ==
    /\ mutex_ = "producer" <=> prod \in {"notify", "kill", "killnotify"}
    /\ mutex_ = "consumer" <=> cons \in {"test", "sleep"}

\* SleeperIsNotified, from the moment the predicate of cv_.wait was false.
WaiterIsNotified ==
    cons \in {"sleep", "asleep"} =>
        /\ pending_ >= 0 => prod \in {"lock", "notify"}
        /\ exit_now_ => prod = "killnotify"

\* The slot about to be published holds the task that was passed to Push.
WrittenIsInput ==
    /\ prod \in {"enqueue", "write", "publish"} => input \in Tasks
    /\ prod = "publish" => buffer_[tail_] = input

\* The owner pushes nothing after it killed the queue.
KillIsLast == exit_now_ => prod \in {"killnotify", "done"}

IInv ==
    /\ TypeOK
    /\ PendingAccounts
    /\ SanityCheck
    /\ RoomToPublish
    /\ CountedIsThere
    /\ ClaimIsBacked
    /\ MutexHeld
    /\ WaiterIsNotified
    /\ WrittenIsInput
    /\ KillIsLast

-----------------------------------------------------------------------------

\* (s + 1) % kRingSize steps through the slots and wraps from the last to 0.
LEMMA NextSlotWraps ==
    ASSUME NEW s \in Slots
    PROVE  /\ NextSlot(s) = IF s + 1 = kRingSize THEN 0 ELSE s + 1
           /\ NextSlot(s) \in Slots
<1>1. s + 1 < kRingSize => (s + 1) % kRingSize = s + 1
  BY RingAssumption DEF Slots
<1>2. kRingSize % kRingSize = 0
  BY RingAssumption
<1> QED
  BY <1>1, <1>2, RingAssumption DEF Slots, NextSlot

\* In the range an int8_t holds, its arithmetic is that of the integers.
LEMMA Int8InRange ==
    ASSUME NEW n \in -128 .. 127
    PROVE  Int8(n) = n
BY DEF Int8

\* The number of tasks in the ring is between 0 and kRingSize - 1.
LEMMA ItemsRange ==
    ASSUME head_ \in Slots, tail_ \in Slots
    PROVE  /\ Items \in 0 .. kRingSize - 1
           /\ Items = 0 <=> tail_ = head_
           /\ NextSlot(tail_) # head_ => Items < kRingSize - 1
BY RingAssumption, NextSlotWraps DEF Slots, Items

\* Publishing a task and taking one change the number of tasks by one.
LEMMA ItemsPublish ==
    ASSUME head_ \in Slots, tail_ \in Slots, NextSlot(tail_) # head_,
           tail_' = NextSlot(tail_), head_' = head_
    PROVE  Items' = Items + 1
BY RingAssumption, NextSlotWraps DEF Slots, Items

LEMMA ItemsTake ==
    ASSUME head_ \in Slots, tail_ \in Slots, tail_ # head_,
           head_' = NextSlot(head_), tail_' = tail_
    PROVE  Items' = Items - 1
BY RingAssumption, NextSlotWraps DEF Slots, Items

-----------------------------------------------------------------------------

LEMMA InitIInv == Init => IInv
<1> SUFFICES ASSUME Init PROVE IInv
  OBVIOUS
<1>1. TypeOK
  <2>1. exit_now_ \in BOOLEAN
    BY DEF Init
  <2>2. head_ \in Slots /\ tail_ \in Slots /\ pending_ \in -1 .. kRingSize - 1
    BY RingAssumption DEF Init, Slots
  <2> QED
    BY <2>1, <2>2 DEF Init, TypeOK
<1>2. PendingAccounts
  BY RingAssumption DEF Init, PendingAccounts, Items, One
<1> QED
  BY <1>1, <1>2
     DEF Init, IInv, SanityCheck, RoomToPublish, CountedIsThere, ClaimIsBacked, MutexHeld,
         WaiterIsNotified, WrittenIsInput, KillIsLast

LEMMA NextIInv == IInv /\ [Next]_vars => IInv'
<1> SUFFICES ASSUME IInv, [Next]_vars PROVE IInv'
  OBVIOUS
<1> USE RingAssumption
<1>0. /\ Items \in 0 .. kRingSize - 1
      /\ Items = 0 <=> tail_ = head_
      /\ NextSlot(tail_) # head_ => Items < kRingSize - 1
  BY ItemsRange DEF IInv, TypeOK
<1>1. ASSUME NEW t \in Tasks, PushCall(t) PROVE IInv'
  BY <1>0, <1>1
     DEF PushCall, ring, IInv, TypeOK, PendingAccounts, SanityCheck, RoomToPublish,
         CountedIsThere, ClaimIsBacked, MutexHeld, WaiterIsNotified, WrittenIsInput, KillIsLast, Items, One
<1>2. CASE Enqueue
  BY <1>0, <1>2
     DEF Enqueue, ring, IInv, TypeOK, PendingAccounts, SanityCheck, RoomToPublish,
         CountedIsThere, ClaimIsBacked, MutexHeld, WaiterIsNotified, WrittenIsInput, KillIsLast, Items, One
<1>3. CASE EnqueueWrite
  BY <1>0, <1>3
     DEF EnqueueWrite, IInv, TypeOK, PendingAccounts, SanityCheck, RoomToPublish,
         CountedIsThere, ClaimIsBacked, MutexHeld, WaiterIsNotified, WrittenIsInput, KillIsLast, Items, One
<1>4. CASE EnqueuePublish
  <2>1. Items' = Items + 1
    BY <1>4, ItemsPublish DEF EnqueuePublish, IInv, TypeOK, RoomToPublish
  <2>2. TypeOK'
    BY <1>4, NextSlotWraps DEF EnqueuePublish, IInv, TypeOK
  <2> QED
    BY <1>0, <1>4, <2>1, <2>2
       DEF EnqueuePublish, IInv, TypeOK, PendingAccounts, SanityCheck, RoomToPublish,
           CountedIsThere, ClaimIsBacked, MutexHeld, WaiterIsNotified, WrittenIsInput, KillIsLast, One
<1>5. CASE PushCount
  <2>1. pending_ + 1 \in -1 .. kRingSize - 1
    BY <1>0, <1>5 DEF PushCount, IInv, TypeOK, PendingAccounts, One
  <2>2. pending_' = pending_ + 1
    BY <1>5, <2>1, Int8InRange DEF PushCount
  <2>3. Items' = Items
    BY <1>5 DEF PushCount, ring, Items
  <2> QED
    BY <1>0, <1>5, <2>1, <2>2, <2>3
       DEF PushCount, ring, IInv, TypeOK, PendingAccounts, SanityCheck, RoomToPublish,
           CountedIsThere, ClaimIsBacked, MutexHeld, WaiterIsNotified, WrittenIsInput, KillIsLast, One
<1>6. CASE PushLock
  BY <1>0, <1>6
     DEF PushLock, ring, IInv, TypeOK, PendingAccounts, SanityCheck, RoomToPublish,
         CountedIsThere, ClaimIsBacked, MutexHeld, WaiterIsNotified, WrittenIsInput, KillIsLast, Items, One
<1>7. CASE PushNotify
  BY <1>0, <1>7
     DEF PushNotify, Notified, ring, IInv, TypeOK, PendingAccounts, SanityCheck,
         RoomToPublish, CountedIsThere, ClaimIsBacked, MutexHeld, WaiterIsNotified, WrittenIsInput, KillIsLast, Items, One
<1>8. CASE KillLock
  BY <1>0, <1>8
     DEF KillLock, ring, IInv, TypeOK, PendingAccounts, SanityCheck, RoomToPublish,
         CountedIsThere, ClaimIsBacked, MutexHeld, WaiterIsNotified, WrittenIsInput, KillIsLast, Items, One
<1>9. CASE KillStore
  BY <1>0, <1>9
     DEF KillStore, ring, IInv, TypeOK, PendingAccounts, SanityCheck, RoomToPublish,
         CountedIsThere, ClaimIsBacked, MutexHeld, WaiterIsNotified, WrittenIsInput, KillIsLast, Items, One
<1>10. CASE KillNotify
  BY <1>0, <1>10
     DEF KillNotify, Notified, ring, IInv, TypeOK, PendingAccounts, SanityCheck,
         RoomToPublish, CountedIsThere, ClaimIsBacked, MutexHeld, WaiterIsNotified, WrittenIsInput, KillIsLast, Items, One
<1>11. CASE PopClaim
  <2>1. pending_' = pending_ - 1
    BY <1>11, Int8InRange DEF PopClaim, IInv, TypeOK
  <2>2. Items' = Items
    BY <1>11 DEF PopClaim, ring, Items
  <2>3. pending_ >= 0
    BY <1>0, <1>11 DEF PopClaim, IInv, PendingAccounts, CountedIsThere, One
  <2> QED
    BY <1>0, <1>11, <2>1, <2>2, <2>3
       DEF PopClaim, ring, IInv, TypeOK, PendingAccounts, SanityCheck, RoomToPublish,
           CountedIsThere, ClaimIsBacked, MutexHeld, WaiterIsNotified, WrittenIsInput, KillIsLast, One
<1>12. CASE PopLock
  BY <1>0, <1>12
     DEF PopLock, ring, IInv, TypeOK, PendingAccounts, SanityCheck, RoomToPublish,
         CountedIsThere, ClaimIsBacked, MutexHeld, WaiterIsNotified, WrittenIsInput, KillIsLast, Items, One
<1>13. CASE PopTest
  BY <1>0, <1>13
     DEF PopTest, ring, IInv, TypeOK, PendingAccounts, SanityCheck, RoomToPublish,
         CountedIsThere, ClaimIsBacked, MutexHeld, WaiterIsNotified, WrittenIsInput, KillIsLast, Items, One
<1>14. CASE PopSleep
  BY <1>0, <1>14
     DEF PopSleep, ring, IInv, TypeOK, PendingAccounts, SanityCheck, RoomToPublish,
         CountedIsThere, ClaimIsBacked, MutexHeld, WaiterIsNotified, WrittenIsInput, KillIsLast, Items, One
<1>15. CASE PopCheck
  BY <1>0, <1>15
     DEF PopCheck, ring, IInv, TypeOK, PendingAccounts, SanityCheck, RoomToPublish,
         CountedIsThere, ClaimIsBacked, MutexHeld, WaiterIsNotified, WrittenIsInput, KillIsLast, Items, One
<1>16. CASE PopRead
  BY <1>0, <1>16
     DEF PopRead, ring, IInv, TypeOK, PendingAccounts, SanityCheck, RoomToPublish,
         CountedIsThere, ClaimIsBacked, MutexHeld, WaiterIsNotified, WrittenIsInput, KillIsLast, Items, One
<1>17. CASE PopAdvance
  <2>1. Items >= 1 + One(prod = "count") /\ tail_ # head_
    BY <1>0, <1>17 DEF PopAdvance, IInv, TypeOK, PendingAccounts, ClaimIsBacked, One
  <2>2. Items' = Items - 1
    BY <1>17, <2>1, ItemsTake DEF PopAdvance, IInv, TypeOK
  <2>3. TypeOK'
    BY <1>17, NextSlotWraps DEF PopAdvance, IInv, TypeOK
  <2>4. RoomToPublish'
    BY <1>0, <1>17, <2>1, NextSlotWraps
       DEF PopAdvance, IInv, TypeOK, RoomToPublish, Items, Slots, NextSlot
  <2> QED
    BY <1>0, <1>17, <2>1, <2>2, <2>3, <2>4
       DEF PopAdvance, IInv, TypeOK, PendingAccounts, SanityCheck,
           CountedIsThere, ClaimIsBacked, MutexHeld, WaiterIsNotified, WrittenIsInput, KillIsLast, One
<1>18. CASE SpuriousWakeup
  BY <1>0, <1>18
     DEF SpuriousWakeup, ring, IInv, TypeOK, PendingAccounts, SanityCheck, RoomToPublish,
         CountedIsThere, ClaimIsBacked, MutexHeld, WaiterIsNotified, WrittenIsInput, KillIsLast, Items, One
<1>19. CASE UNCHANGED vars
  BY <1>0, <1>19
     DEF vars, IInv, TypeOK, PendingAccounts, SanityCheck, RoomToPublish,
         CountedIsThere, ClaimIsBacked, MutexHeld, WaiterIsNotified, WrittenIsInput, KillIsLast, Items, One
<1>20. CASE KillCall
  BY <1>0, <1>20
     DEF KillCall, ring, IInv, TypeOK, PendingAccounts, SanityCheck, RoomToPublish,
         CountedIsThere, ClaimIsBacked, MutexHeld, WaiterIsNotified, WrittenIsInput, KillIsLast, Items, One
<1> QED
  BY <1>1, <1>2, <1>3, <1>4, <1>5, <1>6, <1>7, <1>8, <1>9, <1>10, <1>11, <1>12, <1>13,
     <1>14, <1>15, <1>16, <1>17, <1>18, <1>19, <1>20
     DEF Next, Producer, Consumer, Terminated

\* The type invariant of SpscTaskQueue holds for every ring size: in
\* particular the int8_t pending_ (line 249) never wraps.
THEOREM TypeCorrect == Spec => []TypeOK
<1>1. IInv => TypeOK
  BY DEF IInv
<1> QED
  BY <1>1, InitIInv, NextIInv, PTL DEF Spec

\* pending_ agrees with the ring indices whatever the interleaving of Push and
\* Pop (lines 164 to 200).
THEOREM PendingIsExact == Spec => []PendingAccounts
<1>1. IInv => PendingAccounts
  BY DEF IInv
<1> QED
  BY <1>1, InitIInv, NextIInv, PTL DEF Spec

\* Pop's sanity check of a non-empty ring (line 196) cannot fail.
THEOREM PopNeverFindsEmpty == Spec => []SanityCheck
<1>1. IInv => SanityCheck
  BY DEF IInv
<1> QED
  BY <1>1, InitIInv, NextIInv, PTL DEF Spec

\* Push (line 223) never writes the slot that Pop (line 197) reads.
THEOREM SlotsNeverRace == Spec => []NoSlotRace
<1>1. IInv => NoSlotRace
  <2> SUFFICES ASSUME IInv, prod = "write", cons \in {"read", "advance"} PROVE tail_ # head_
    BY DEF NoSlotRace
  <2>1. Items = 0 <=> tail_ = head_
    BY ItemsRange DEF IInv, TypeOK
  <2> QED
    BY <2>1 DEF IInv, TypeOK, PendingAccounts, ClaimIsBacked, One
<1> QED
  BY <1>1, InitIInv, NextIInv, PTL DEF Spec

\* No notification of the condition variable is lost (lines 168 to 171, 188 to
\* 189, 205 to 208).
THEOREM NoLostWakeup == Spec => []SleeperIsNotified
<1>1. IInv => SleeperIsNotified
  BY DEF IInv, WaiterIsNotified, SleeperIsNotified
<1> QED
  BY <1>1, InitIInv, NextIInv, PTL DEF Spec

-----------------------------------------------------------------------------
(* SpscTaskQueue implements TaskQueue: Push takes effect when tail_ is      *)
(* stored, Pop when the task is copied to output.                           *)

\* Less than two rounds of the ring wrap once at most.
LEMMA WrapOnce ==
    ASSUME NEW n \in 0 .. 2 * kRingSize - 1
    PROVE  n % kRingSize = IF n < kRingSize THEN n ELSE n - kRingSize
BY RingAssumption

\* Where the i-th task of the ring is.
LEMMA SlotOfItem ==
    ASSUME head_ \in Slots, tail_ \in Slots, NEW i \in 1 .. Items
    PROVE  /\ (head_ + i - 1) % kRingSize \in Slots
           /\ (head_ + i - 1) % kRingSize =
                 IF head_ + i - 1 < kRingSize THEN head_ + i - 1 ELSE head_ + i - 1 - kRingSize
           /\ (head_ + i - 1) % kRingSize # tail_
<1>1. head_ + i - 1 \in 0 .. 2 * kRingSize - 1
  BY RingAssumption, ItemsRange DEF Slots
<1> QED
  BY <1>1, WrapOnce, RingAssumption DEF Slots, Items

\* A task may be added behind before the first one is taken away.
LEMMA TailOfAppend ==
    ASSUME NEW S, NEW s \in Seq(S), s # << >>, NEW e \in S
    PROVE  Tail(Append(s, e)) = Append(Tail(s), e)
OBVIOUS

\* What the ring holds when Pop is past its check.
LEMMA ContentsAreTasks ==
    ASSUME IInv
    PROVE  /\ Contents \in Seq(Tasks \cup {NoTask})
           /\ Len(Contents) = Items
           /\ cons \in {"read", "advance"} => Contents # << >>
<1>1. Items \in 0 .. kRingSize - 1
  BY ItemsRange DEF IInv, TypeOK
<1>2. Contents \in Seq(Tasks \cup {NoTask}) /\ Len(Contents) = Items
  BY <1>1, SlotOfItem, RingAssumption DEF Contents, IInv, TypeOK
<1>3. cons \in {"read", "advance"} => Items >= 1
  BY <1>1 DEF IInv, TypeOK, PendingAccounts, ClaimIsBacked, One
<1> QED
  BY <1>2, <1>3

LEMMA NextRefines == IInv /\ [Next]_vars => [Queue!Next]_(Queue!vars)
<1> SUFFICES ASSUME IInv, [Next]_vars PROVE [Queue!Next]_(Queue!vars)
  OBVIOUS
<1> USE RingAssumption
<1>0. /\ Items \in 0 .. kRingSize - 1
      /\ Items = 0 <=> tail_ = head_
      /\ NextSlot(tail_) # head_ => Items < kRingSize - 1
      /\ head_ \in Slots
      /\ tail_ \in Slots
  BY ItemsRange DEF IInv, TypeOK
<1>1. CASE EnqueueWrite
  <2>1. Items' = Items
    BY <1>1 DEF EnqueueWrite, Items
  <2>2. Contents' = Contents
    BY <1>0, <1>1, <2>1, SlotOfItem DEF EnqueueWrite, Contents, IInv, TypeOK
  <2> QED
    BY <1>1, <2>2 DEF EnqueueWrite, NotTaken, Queue!vars
<1>2. CASE EnqueuePublish
  <2>1. Items' = Items + 1 /\ Items < kRingSize - 1
    BY <1>0, <1>2, ItemsPublish DEF EnqueuePublish, IInv, TypeOK, RoomToPublish
  <2>2. (head_ + Items) % kRingSize = tail_
    BY <1>0 DEF Items, Slots
  <2>3. Contents' = Append(Contents, buffer_[tail_])
    BY <1>0, <1>2, <2>1, <2>2 DEF EnqueuePublish, Contents
  <2>4. buffer_[tail_] \in Tasks
    BY <1>2 DEF EnqueuePublish, IInv, WrittenIsInput
  <2>5. NotTaken' = Append(NotTaken, buffer_[tail_])
    <3>1. cons = "advance" =>
            Tail(Append(Contents, buffer_[tail_])) = Append(Tail(Contents), buffer_[tail_])
      BY <2>4, ContentsAreTasks, TailOfAppend
    <3> QED
      BY <1>2, <2>3, <3>1 DEF EnqueuePublish, NotTaken
  <2>6. Len(NotTaken) < kRingSize - 1
    <3>1. cons = "advance" => Len(Tail(Contents)) = Items - 1
      BY ContentsAreTasks, HeadTailProperties
    <3> QED
      BY <1>0, <2>1, <3>1, ContentsAreTasks DEF NotTaken
  <2> QED
    BY <1>2, <2>4, <2>5, <2>6
       DEF EnqueuePublish, IInv, KillIsLast, Queue!Next, Queue!Push
<1>3. CASE PopAdvance
  <2>1. Items >= 1 /\ tail_ # head_
    BY <1>0, <1>3 DEF PopAdvance, IInv, TypeOK, PendingAccounts, ClaimIsBacked, One
  <2>2. Items' = Items - 1
    BY <1>3, <2>1, ItemsTake DEF PopAdvance, IInv, TypeOK
  <2>3. ASSUME NEW i \in 1 .. Items - 1
        PROVE  (NextSlot(head_) + i - 1) % kRingSize = (head_ + (i + 1) - 1) % kRingSize
    <3>1. /\ NextSlot(head_) + i - 1 \in 0 .. 2 * kRingSize - 1
          /\ head_ + (i + 1) - 1 \in 0 .. 2 * kRingSize - 1
      BY <1>0, NextSlotWraps DEF Slots
    <3>2. \A n \in 0 .. 2 * kRingSize - 1 :
            n % kRingSize = IF n < kRingSize THEN n ELSE n - kRingSize
      BY WrapOnce
    <3>3. CASE head_ + 1 = kRingSize
      <4>1. NextSlot(head_) = 0
        BY <1>0, <3>3, NextSlotWraps
      <4>2. NextSlot(head_) + i - 1 = i - 1
        BY <4>1
      <4>3. (i - 1) % kRingSize = i - 1
        BY <1>0, <3>1, <3>2, <4>2
      <4>4. (head_ + (i + 1) - 1) % kRingSize = head_ + (i + 1) - 1 - kRingSize
        <5>1. i + 1 \in 1 .. Items /\ ~(head_ + (i + 1) - 1 < kRingSize)
          BY <1>0, <3>3 DEF Slots
        <5> QED
          BY <1>0, <5>1, SlotOfItem
      <4>5. head_ + (i + 1) - 1 - kRingSize = i - 1
        BY <1>0, <3>3 DEF Slots
      <4> QED
        BY <4>2, <4>3, <4>4, <4>5
    <3>4. CASE head_ + 1 # kRingSize
      <4>1. NextSlot(head_) = head_ + 1
        BY <1>0, <3>4, NextSlotWraps
      <4>2. NextSlot(head_) + i - 1 = head_ + (i + 1) - 1
        BY <1>0, <4>1 DEF Slots
      <4> QED
        BY <4>2
    <3> QED
      BY <3>3, <3>4
  <2>4. /\ Contents # << >>
        /\ Contents' = Tail(Contents)
    <3>1. Contents' = [i \in 1 .. Items - 1 |-> buffer_[(NextSlot(head_) + i - 1) % kRingSize]]
      BY <1>3, <2>2 DEF PopAdvance, Contents
    <3>2. Contents \in Seq(Tasks \cup {NoTask}) /\ Len(Contents) = Items
      BY <1>0, SlotOfItem DEF Contents, IInv, TypeOK
    <3>3. ASSUME NEW i \in 1 .. Items - 1 PROVE Contents'[i] = Contents[i + 1]
      <4>1. Contents'[i] = buffer_[(NextSlot(head_) + i - 1) % kRingSize]
        BY <3>1
      <4>2. Contents[i + 1] = buffer_[(head_ + (i + 1) - 1) % kRingSize]
        BY <1>0 DEF Contents
      <4> QED
        BY <2>3, <4>1, <4>2
    <3>4. Contents # << >>
      BY <2>1, <3>2
    <3>5. /\ Tail(Contents) \in Seq(Tasks \cup {NoTask})
          /\ Len(Tail(Contents)) = Items - 1
          /\ \A i \in 1 .. Items - 1 : Tail(Contents)[i] = Contents[i + 1]
      BY <3>2, <3>4, HeadTailProperties
    <3>6. Contents' \in Seq(Tasks \cup {NoTask}) /\ Len(Contents') = Items - 1
      BY <1>0, <2>1, <3>1, <3>2, <3>3
    <3> QED
      BY <1>0, <2>1, <3>3, <3>4, <3>5, <3>6, SeqEqual
  <2> QED
    BY <1>3, <2>4 DEF PopAdvance, NotTaken, Queue!vars
<1>4. ASSUME UNCHANGED ring PROVE Contents' = Contents
  BY <1>4 DEF ring, Contents, Items
<1>5. CASE KillStore
  BY <1>4, <1>5 DEF KillStore, NotTaken, Queue!Next, Queue!SignalForKill
<1>6. CASE PopCheck
  BY <1>4, <1>6 DEF PopCheck, NotTaken, Queue!Next, Queue!PopExit, Queue!vars
<1>7. ASSUME UNCHANGED <<ring, output, exit_now_>>, (cons' = "exited") = (cons = "exited"),
             (cons' = "advance") = (cons = "advance")
      PROVE  UNCHANGED Queue!vars
  BY <1>4, <1>7 DEF NotTaken, Queue!vars
<1>8. CASE \E t \in Tasks : PushCall(t)
  BY <1>7, <1>8 DEF PushCall
<1>9. CASE KillCall \/ KillLock \/ KillNotify
  BY <1>7, <1>9 DEF KillCall, KillLock, KillNotify, Notified
<1>10. CASE Enqueue \/ PushCount \/ PushLock \/ PushNotify
  BY <1>7, <1>10 DEF Enqueue, PushCount, PushLock, PushNotify, Notified
<1>11. CASE PopClaim \/ PopLock \/ PopTest \/ PopSleep \/ SpuriousWakeup
  BY <1>7, <1>11 DEF PopClaim, PopLock, PopTest, PopSleep, SpuriousWakeup
<1>12. CASE UNCHANGED vars
  BY <1>7, <1>12 DEF vars, ring
<1>13. CASE PopRead
  <2>1. Contents' = Contents
    BY <1>4, <1>13 DEF PopRead
  <2>2. Contents # << >> /\ Items >= 1
    BY <1>13, ContentsAreTasks DEF PopRead
  <2>3. head_ % kRingSize = head_
    BY <1>0 DEF Slots
  <2>4. Head(Contents) = buffer_[head_]
    BY <1>0, <2>2, <2>3 DEF Contents, Slots
  <2> QED
    BY <1>13, <2>1, <2>2, <2>4 DEF PopRead, NotTaken, Queue!Next, Queue!Pop
<1> QED
  BY <1>1, <1>2, <1>3, <1>5, <1>6, <1>8, <1>9, <1>10, <1>11, <1>12, <1>13
     DEF Next, Producer, Consumer, Terminated

\* The lock-free ring is a bounded FIFO queue (lines 148 to 259): the tasks
\* come out in the order they were pushed, each of them once, and Pop puts out
\* the one that was the oldest.
THEOREM RingImplementsQueue == Spec => ImplementsQueue
<1>1. Init => Queue!Init
  BY RingAssumption DEF Init, Queue!Init, NotTaken, Contents, Items
<1> QED
  BY <1>1, InitIInv, NextIInv, NextRefines, PTL DEF Spec, ImplementsQueue, Queue!Spec
=============================================================================
