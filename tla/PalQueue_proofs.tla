--------------------------- MODULE PalQueue_proofs ---------------------------
(***************************************************************************)
(* Proofs about PalQueue, for any number of threads, any items and any     *)
(* length N >= 1.                                                          *)
(***************************************************************************)
EXTENDS PalQueue, SequenceTheorems, TLAPS

(* How far an index moves round the ring, without a remainder operator:    *)
(* what `( index + 1 ) % numberOfQueueItems` amounts to.                   *)
LEMMA WrapAround ==
    ASSUME NEW i \in Slots, NEW k \in 0 .. N
    PROVE  (i + k) % N = IF i + k < N THEN i + k ELSE i + k - N
<1>1. CASE i + k < N
  BY <1>1, LengthAssumption DEF Slots
<1>2. CASE ~(i + k < N)
  BY <1>2, LengthAssumption DEF Slots
<1>. QED  BY <1>1, <1>2

(* The slot after the last is the first.                                   *)
LEMMA AfterWraps ==
    ASSUME NEW i \in Slots
    PROVE  /\ After(i) = IF i + 1 = N THEN 0 ELSE i + 1
           /\ After(i) \in Slots
BY LengthAssumption DEF After, Slots

LEMMA TypeInit == Init => TypeOK
BY LengthAssumption DEF Init, TypeOK, Slots, PCs

(* Every step keeps the types: in particular the count never leaves 0 .. N *)
(* and the indices never leave the buffer.                                 *)
LEMMA TypeStep ==
    ASSUME TypeOK, StepsOrdered, [Next]_vars
    PROVE  TypeOK'
<1>. USE LengthAssumption DEF TypeOK, PCs, shared, Goto
<1>0. CASE UNCHANGED vars
  BY <1>0 DEF vars
<1>1. ASSUME NEW t \in Threads, NEW v \in Items, SendCall(t, v)
      PROVE  TypeOK'
  BY <1>1 DEF SendCall
<1>2. ASSUME NEW t \in Threads, ReceiveCall(t)
      PROVE  TypeOK'
  BY <1>2 DEF ReceiveCall
<1>3. ASSUME NEW t \in Threads, Lock(t)
      PROVE  TypeOK'
  BY <1>3 DEF Lock
<1>4. ASSUME NEW t \in Threads, Timeout(t)
      PROVE  TypeOK'
  BY <1>4 DEF Timeout
<1>5. ASSUME NEW t \in Threads, SpuriousWakeup(t)
      PROVE  TypeOK'
  BY <1>5 DEF SpuriousWakeup
<1>6. ASSUME NEW t \in Threads, Relock(t)
      PROVE  TypeOK'
  BY <1>6 DEF Relock
<1>7. ASSUME NEW t \in Threads, SendWait(t)
      PROVE  TypeOK'
  BY <1>7 DEF SendWait
<1>8. ASSUME NEW t \in Threads, SendReserve(t)
      PROVE  TypeOK'
  <2>1. enqueueIndex' \in Slots
    BY <1>8, AfterWraps DEF SendReserve
  <2>2. itemsInQueue' \in 0 .. N
    BY <1>8 DEF SendReserve, Full
  <2>. QED  BY <1>8, <2>1, <2>2 DEF SendReserve
<1>9. ASSUME NEW t \in Threads, SendCopy(t)
      PROVE  TypeOK'
  BY <1>9 DEF SendCopy
<1>10. ASSUME NEW t \in Threads, ReceiveWait(t)
       PROVE  TypeOK'
  BY <1>10 DEF ReceiveWait
<1>11. ASSUME NEW t \in Threads, ReceiveCopy(t)
       PROVE  TypeOK'
  BY <1>11 DEF ReceiveCopy
<1>12. ASSUME NEW t \in Threads, ReceiveAdvance(t)
       PROVE  TypeOK'
  <2>1. dequeueIndex' \in Slots
    BY <1>12, AfterWraps DEF ReceiveAdvance
  <2>2. itemsInQueue' \in 0 .. N
    BY <1>12 DEF ReceiveAdvance, StepsOrdered, Empty
  <2>. QED  BY <1>12, <2>1, <2>2 DEF ReceiveAdvance
<1>13. ASSUME NEW t \in Threads, Unlock(t)
       PROVE  TypeOK'
  BY <1>13 DEF Unlock
<1>14. ASSUME NEW t \in Threads, Notify(t)
       PROVE  TypeOK'
  BY <1>14 DEF Notify
<1>. QED
  BY <1>0, <1>1, <1>2, <1>3, <1>4, <1>5, <1>6, <1>7, <1>8, <1>9, <1>10, <1>11,
     <1>12, <1>13, <1>14
  DEF Next, Run, Send, Receive

(* No step lets a second thread into a critical section.                   *)
LEMMA MutexStep ==
    ASSUME TypeOK, MutualExclusion, [Next]_vars
    PROVE  MutualExclusion'
<1>. USE OwnerAssumption DEF TypeOK, MutualExclusion, Critical, shared, Goto, PCs
<1>0. CASE UNCHANGED vars
  BY <1>0 DEF vars
<1>1. ASSUME NEW t \in Threads, NEW v \in Items, SendCall(t, v)
      PROVE  MutualExclusion'
  BY <1>1 DEF SendCall
<1>2. ASSUME NEW t \in Threads, ReceiveCall(t)
      PROVE  MutualExclusion'
  BY <1>2 DEF ReceiveCall
<1>3. ASSUME NEW t \in Threads, Lock(t)
      PROVE  MutualExclusion'
  BY <1>3 DEF Lock
<1>4. ASSUME NEW t \in Threads, Timeout(t)
      PROVE  MutualExclusion'
  BY <1>4 DEF Timeout
<1>5. ASSUME NEW t \in Threads, SpuriousWakeup(t)
      PROVE  MutualExclusion'
  BY <1>5 DEF SpuriousWakeup
<1>6. ASSUME NEW t \in Threads, Relock(t)
      PROVE  MutualExclusion'
  BY <1>6 DEF Relock
<1>7. ASSUME NEW t \in Threads, SendWait(t)
      PROVE  MutualExclusion'
  BY <1>7 DEF SendWait
<1>8. ASSUME NEW t \in Threads, SendReserve(t)
      PROVE  MutualExclusion'
  BY <1>8 DEF SendReserve
<1>9. ASSUME NEW t \in Threads, SendCopy(t)
      PROVE  MutualExclusion'
  BY <1>9 DEF SendCopy
<1>10. ASSUME NEW t \in Threads, ReceiveWait(t)
       PROVE  MutualExclusion'
  BY <1>10 DEF ReceiveWait
<1>11. ASSUME NEW t \in Threads, ReceiveCopy(t)
       PROVE  MutualExclusion'
  BY <1>11 DEF ReceiveCopy
<1>12. ASSUME NEW t \in Threads, ReceiveAdvance(t)
       PROVE  MutualExclusion'
  BY <1>12 DEF ReceiveAdvance
<1>13. ASSUME NEW t \in Threads, Unlock(t)
       PROVE  MutualExclusion'
  BY <1>13 DEF Unlock
<1>14. ASSUME NEW t \in Threads, Notify(t)
       PROVE  MutualExclusion'
  BY <1>14 DEF Notify, Waiters
<1>. QED
  BY <1>0, <1>1, <1>2, <1>3, <1>4, <1>5, <1>6, <1>7, <1>8, <1>9, <1>10, <1>11,
     <1>12, <1>13, <1>14
  DEF Next, Run, Send, Receive

(* Each step leaves a thread where the next one expects it, and a thread   *)
(* that is not the owner of the mutex cannot disturb one that is.          *)
LEMMA OrderStep ==
    ASSUME TypeOK, MutualExclusion, RingConsistent, StepsOrdered, [Next]_vars
    PROVE  StepsOrdered'
<1>. USE OwnerAssumption, LengthAssumption DEF TypeOK, MutualExclusion, StepsOrdered, Critical, shared, Goto, PCs, Empty
<1>0. CASE UNCHANGED vars
  BY <1>0 DEF vars
<1>1. ASSUME NEW t \in Threads, NEW v \in Items, SendCall(t, v)
      PROVE  StepsOrdered'
  BY <1>1 DEF SendCall
<1>2. ASSUME NEW t \in Threads, ReceiveCall(t)
      PROVE  StepsOrdered'
  BY <1>2 DEF ReceiveCall
<1>3. ASSUME NEW t \in Threads, Lock(t)
      PROVE  StepsOrdered'
  BY <1>3 DEF Lock
<1>4. ASSUME NEW t \in Threads, Timeout(t)
      PROVE  StepsOrdered'
  BY <1>4 DEF Timeout
<1>5. ASSUME NEW t \in Threads, SpuriousWakeup(t)
      PROVE  StepsOrdered'
  BY <1>5 DEF SpuriousWakeup
<1>6. ASSUME NEW t \in Threads, Relock(t)
      PROVE  StepsOrdered'
  BY <1>6 DEF Relock
<1>7. ASSUME NEW t \in Threads, SendWait(t)
      PROVE  StepsOrdered'
  BY <1>7 DEF SendWait
<1>8. ASSUME NEW t \in Threads, SendReserve(t)
      PROVE  StepsOrdered'
  <2>1. \A u \in Threads : u # t => pc[u] \notin Critical
    BY <1>8 DEF SendReserve
  <2>2. itemsInQueue' - 1 = itemsInQueue /\ itemsInQueue' # 0
    BY <1>8 DEF SendReserve
  <2>3. queueIndex'[t] = (dequeueIndex' + (itemsInQueue' - 1)) % N
    BY <1>8, <2>2 DEF SendReserve, RingConsistent
  <2>. QED  BY <1>8, <2>1, <2>2, <2>3 DEF SendReserve
<1>9. ASSUME NEW t \in Threads, SendCopy(t)
      PROVE  StepsOrdered'
  BY <1>9 DEF SendCopy
<1>10. ASSUME NEW t \in Threads, ReceiveWait(t)
       PROVE  StepsOrdered'
  BY <1>10 DEF ReceiveWait
<1>11. ASSUME NEW t \in Threads, ReceiveCopy(t)
       PROVE  StepsOrdered'
  BY <1>11 DEF ReceiveCopy
<1>12. ASSUME NEW t \in Threads, ReceiveAdvance(t)
       PROVE  StepsOrdered'
  <2>1. \A u \in Threads : u # t => pc[u] \notin Critical
    BY <1>12 DEF ReceiveAdvance
  <2>2. \A u \in Threads : pc'[u] # "copy" /\ pc'[u] # "advance"
    BY <1>12, <2>1 DEF ReceiveAdvance
  <2>. QED  BY <1>12, <2>2 DEF ReceiveAdvance
<1>13. ASSUME NEW t \in Threads, Unlock(t)
       PROVE  StepsOrdered'
  BY <1>13 DEF Unlock
<1>14. ASSUME NEW t \in Threads, Notify(t)
       PROVE  StepsOrdered'
  BY <1>14 DEF Notify, Waiters
<1>. QED
  BY <1>0, <1>1, <1>2, <1>3, <1>4, <1>5, <1>6, <1>7, <1>8, <1>9, <1>10, <1>11,
     <1>12, <1>13, <1>14
  DEF Next, Run, Send, Receive

(* A thread starts to wait only when the queue lacks what it needs, and     *)
(* every step that provides it leaves a broadcast to come.                 *)
LEMMA WakeupStep ==
    ASSUME TypeOK, MutualExclusion, StepsOrdered, NoLostWakeup, [Next]_vars
    PROVE  NoLostWakeup'
<1>. USE OwnerAssumption, LengthAssumption DEF TypeOK, MutualExclusion, StepsOrdered, NoLostWakeup, Waiters, Pending, Critical, shared, Goto, PCs, Empty, Full
<1>0. CASE UNCHANGED vars
  BY <1>0 DEF vars
<1>1. ASSUME NEW t \in Threads, NEW v \in Items, SendCall(t, v)
      PROVE  NoLostWakeup'
  BY <1>1 DEF SendCall
<1>2. ASSUME NEW t \in Threads, ReceiveCall(t)
      PROVE  NoLostWakeup'
  BY <1>2 DEF ReceiveCall
<1>3. ASSUME NEW t \in Threads, Lock(t)
      PROVE  NoLostWakeup'
  BY <1>3 DEF Lock
<1>4. ASSUME NEW t \in Threads, Timeout(t)
      PROVE  NoLostWakeup'
  BY <1>4 DEF Timeout
<1>5. ASSUME NEW t \in Threads, SpuriousWakeup(t)
      PROVE  NoLostWakeup'
  BY <1>5 DEF SpuriousWakeup
<1>6. ASSUME NEW t \in Threads, Relock(t)
      PROVE  NoLostWakeup'
  BY <1>6 DEF Relock
<1>7. ASSUME NEW t \in Threads, SendWait(t)
      PROVE  NoLostWakeup'
  BY <1>7 DEF SendWait
<1>8. ASSUME NEW t \in Threads, SendReserve(t)
      PROVE  NoLostWakeup'
  BY <1>8 DEF SendReserve
<1>9. ASSUME NEW t \in Threads, SendCopy(t)
      PROVE  NoLostWakeup'
  BY <1>9 DEF SendCopy
<1>10. ASSUME NEW t \in Threads, ReceiveWait(t)
       PROVE  NoLostWakeup'
  BY <1>10 DEF ReceiveWait
<1>11. ASSUME NEW t \in Threads, ReceiveCopy(t)
       PROVE  NoLostWakeup'
  BY <1>11 DEF ReceiveCopy
<1>12. ASSUME NEW t \in Threads, ReceiveAdvance(t)
       PROVE  NoLostWakeup'
  BY <1>12 DEF ReceiveAdvance
<1>13. ASSUME NEW t \in Threads, Unlock(t)
       PROVE  NoLostWakeup'
  BY <1>13 DEF Unlock
<1>14. ASSUME NEW t \in Threads, Notify(t)
       PROVE  NoLostWakeup'
  BY <1>14 DEF Notify, Other
<1>. QED
  BY <1>0, <1>1, <1>2, <1>3, <1>4, <1>5, <1>6, <1>7, <1>8, <1>9, <1>10, <1>11,
     <1>12, <1>13, <1>14
  DEF Next, Run, Send, Receive

(* The ring stays consistent.                                              *)
LEMMA RingStep ==
    ASSUME TypeOK, StepsOrdered, RingConsistent, [Next]_vars
    PROVE  RingConsistent'
<1>. USE LengthAssumption DEF TypeOK, RingConsistent, shared
<1>0. CASE UNCHANGED vars
  BY <1>0 DEF vars
<1>1. ASSUME NEW t \in Threads, NEW v \in Items, SendCall(t, v)
      PROVE  RingConsistent'
  BY <1>1 DEF SendCall
<1>2. ASSUME NEW t \in Threads, ReceiveCall(t)
      PROVE  RingConsistent'
  BY <1>2 DEF ReceiveCall
<1>3. ASSUME NEW t \in Threads, Lock(t)
      PROVE  RingConsistent'
  BY <1>3 DEF Lock
<1>4. ASSUME NEW t \in Threads, Timeout(t)
      PROVE  RingConsistent'
  BY <1>4 DEF Timeout
<1>5. ASSUME NEW t \in Threads, SpuriousWakeup(t)
      PROVE  RingConsistent'
  BY <1>5 DEF SpuriousWakeup
<1>6. ASSUME NEW t \in Threads, Relock(t)
      PROVE  RingConsistent'
  BY <1>6 DEF Relock
<1>7. ASSUME NEW t \in Threads, SendWait(t)
      PROVE  RingConsistent'
  BY <1>7 DEF SendWait
<1>8. ASSUME NEW t \in Threads, SendReserve(t)
      PROVE  RingConsistent'
  <2>1. itemsInQueue' = itemsInQueue + 1 /\ itemsInQueue + 1 \in 0 .. N
    BY <1>8 DEF SendReserve, Full
  <2>2. enqueueIndex' = After(enqueueIndex) /\ dequeueIndex' = dequeueIndex
    BY <1>8 DEF SendReserve
  <2>3. enqueueIndex = IF dequeueIndex + itemsInQueue < N
                       THEN dequeueIndex + itemsInQueue
                       ELSE dequeueIndex + itemsInQueue - N
    BY WrapAround
  <2>4. (dequeueIndex + (itemsInQueue + 1)) % N =
            IF dequeueIndex + (itemsInQueue + 1) < N
            THEN dequeueIndex + (itemsInQueue + 1)
            ELSE dequeueIndex + (itemsInQueue + 1) - N
    BY <2>1, WrapAround
  <2>5. After(enqueueIndex) = IF enqueueIndex + 1 = N THEN 0 ELSE enqueueIndex + 1
    BY AfterWraps
  <2>6. After(enqueueIndex) = (dequeueIndex + (itemsInQueue + 1)) % N
    BY <2>1, <2>3, <2>4, <2>5 DEF Slots
  <2>. QED  BY <2>1, <2>2, <2>6
<1>9. ASSUME NEW t \in Threads, SendCopy(t)
      PROVE  RingConsistent'
  BY <1>9 DEF SendCopy
<1>10. ASSUME NEW t \in Threads, ReceiveWait(t)
       PROVE  RingConsistent'
  BY <1>10 DEF ReceiveWait
<1>11. ASSUME NEW t \in Threads, ReceiveCopy(t)
       PROVE  RingConsistent'
  BY <1>11 DEF ReceiveCopy
<1>12. ASSUME NEW t \in Threads, ReceiveAdvance(t)
       PROVE  RingConsistent'
  <2>1. itemsInQueue' = itemsInQueue - 1 /\ itemsInQueue - 1 \in 0 .. N
    BY <1>12 DEF ReceiveAdvance, StepsOrdered, Empty
  <2>2. dequeueIndex' = After(dequeueIndex) /\ enqueueIndex' = enqueueIndex
    BY <1>12 DEF ReceiveAdvance
  <2>3. enqueueIndex = IF dequeueIndex + itemsInQueue < N
                       THEN dequeueIndex + itemsInQueue
                       ELSE dequeueIndex + itemsInQueue - N
    BY WrapAround
  <2>4. (After(dequeueIndex) + (itemsInQueue - 1)) % N =
            IF After(dequeueIndex) + (itemsInQueue - 1) < N
            THEN After(dequeueIndex) + (itemsInQueue - 1)
            ELSE After(dequeueIndex) + (itemsInQueue - 1) - N
    BY <2>1, AfterWraps, WrapAround
  <2>5. After(dequeueIndex) = IF dequeueIndex + 1 = N THEN 0 ELSE dequeueIndex + 1
    BY AfterWraps
  <2>6. enqueueIndex = (After(dequeueIndex) + (itemsInQueue - 1)) % N
    BY <2>1, <2>3, <2>4, <2>5 DEF Slots
  <2>. QED  BY <2>1, <2>2, <2>6
<1>13. ASSUME NEW t \in Threads, Unlock(t)
       PROVE  RingConsistent'
  BY <1>13 DEF Unlock
<1>14. ASSUME NEW t \in Threads, Notify(t)
       PROVE  RingConsistent'
  BY <1>14 DEF Notify
<1>. QED
  BY <1>0, <1>1, <1>2, <1>3, <1>4, <1>5, <1>6, <1>7, <1>8, <1>9, <1>10, <1>11,
     <1>12, <1>13, <1>14
  DEF Next, Run, Send, Receive

LEMMA IndInit == Init => IndInv
<1>. SUFFICES ASSUME Init PROVE IndInv
  OBVIOUS
<1>1. TypeOK
  BY TypeInit
<1>2. MutualExclusion
  BY OwnerAssumption DEF Init, MutualExclusion, Critical
<1>3. RingConsistent
  BY LengthAssumption DEF Init, RingConsistent
<1>4. StepsOrdered
  BY DEF Init, StepsOrdered
<1>5. NoLostWakeup
  BY DEF Init, NoLostWakeup, Waiters
<1>. QED  BY <1>1, <1>2, <1>3, <1>4, <1>5 DEF IndInv

LEMMA IndStep == IndInv /\ [Next]_vars => IndInv'
BY TypeStep, MutexStep, OrderStep, WakeupStep, RingStep DEF IndInv

(* The inductive invariant holds in every reachable state.                 *)
THEOREM Invariance == Spec => []IndInv
BY IndInit, IndStep, PTL DEF Spec

(* Whatever the threads and their interleaving, the count stays in 0 .. N  *)
(* and both indices inside the buffer (pal_queue.c:86-117, 143-174).       *)
THEOREM TypeCorrect == Spec => []TypeOK
BY Invariance, PTL DEF IndInv

(* One thread at a time is between the lock and the unlock of the queue.   *)
THEOREM Exclusive == Spec => []MutualExclusion
BY Invariance, PTL DEF IndInv

(* The indices and the count always describe one ring.                     *)
THEOREM RingAlwaysConsistent == Spec => []RingConsistent
BY Invariance, PTL DEF IndInv

(* No wake-up is lost although the broadcast follows the unlock            *)
(* (pal_queue.c:120-125, 176-181).                                         *)
THEOREM WakeupsNotLost == Spec => []NoLostWakeup
BY Invariance, PTL DEF IndInv

-----------------------------------------------------------------------------
(* The ring buffer implements the FIFO of BoundedQueue: each step of the   *)
(* code is a step of the FIFO or leaves it unchanged.                      *)

(* The slot the i-th oldest item of a ring that starts at o lies in.       *)
At(o, i) == (o + i - 1) % N

LEMMA AtWraps ==
    ASSUME NEW o \in Slots, NEW i \in 1 .. N
    PROVE  /\ At(o, i) = IF o + i - 1 < N THEN o + i - 1 ELSE o + i - 1 - N
           /\ At(o, i) \in Slots
<1>1. i - 1 \in 0 .. N /\ o + i - 1 = o + (i - 1)
  BY LengthAssumption DEF Slots
<1>2. (o + (i - 1)) % N = IF o + (i - 1) < N THEN o + (i - 1) ELSE o + (i - 1) - N
  BY <1>1, WrapAround
<1>. QED  BY <1>1, <1>2, LengthAssumption DEF At, Slots

(* Two items of the ring never share a slot.                               *)
LEMMA AtInjective ==
    ASSUME NEW o \in Slots, NEW i \in 1 .. N, NEW j \in 1 .. N, i # j
    PROVE  At(o, i) # At(o, j)
<1>1. At(o, i) = IF o + i - 1 < N THEN o + i - 1 ELSE o + i - 1 - N
  BY AtWraps
<1>2. At(o, j) = IF o + j - 1 < N THEN o + j - 1 ELSE o + j - 1 - N
  BY AtWraps
<1>. QED  BY <1>1, <1>2, LengthAssumption DEF Slots

(* Dropping the oldest item renumbers the others.                          *)
LEMMA AtAfter ==
    ASSUME NEW o \in Slots, NEW i \in 1 .. N - 1
    PROVE  At(After(o), i) = At(o, i + 1)
<1>1. i \in 1 .. N /\ i + 1 \in 1 .. N
  BY LengthAssumption
<1>2. After(o) \in Slots /\ After(o) = IF o + 1 = N THEN 0 ELSE o + 1
  BY AfterWraps
<1>3. At(After(o), i) = IF After(o) + i - 1 < N THEN After(o) + i - 1
                                                ELSE After(o) + i - 1 - N
  BY <1>1, <1>2, AtWraps
<1>4. At(o, i + 1) = IF o + (i + 1) - 1 < N THEN o + (i + 1) - 1
                                            ELSE o + (i + 1) - 1 - N
  BY <1>1, AtWraps
<1>. QED  BY <1>2, <1>3, <1>4, LengthAssumption DEF Slots

(* Which thread is between a memcpy and the update beside it: at most one, *)
(* the owner of the mutex.                                                 *)
LEMMA OneInside ==
    ASSUME IndInv, NEW t \in Threads, pc[t] \in Critical
    PROVE  /\ \A u \in Threads : u # t => pc[u] \notin Critical
           /\ Copying <=> pc[t] = "copy"
           /\ Advancing <=> pc[t] = "advance"
<1>1. \A u \in Threads : u # t => pc[u] \notin Critical
  BY DEF IndInv, MutualExclusion
<1>. QED  BY <1>1 DEF Critical, Copying, Advancing

(* The abstract queue is a sequence of at most N items.                    *)
ContentsFacts ==
    /\ Length \in 0 .. N
    /\ Oldest \in Slots
    /\ Contents \in Seq(Items)
    /\ Len(Contents) = Length
    /\ \A i \in 1 .. Length : Contents[i] = buffer[At(Oldest, i)]

LEMMA ContentsType == IndInv => ContentsFacts
<1>. SUFFICES ASSUME IndInv PROVE ContentsFacts
  OBVIOUS
<1>. USE LengthAssumption
<1>1. TypeOK /\ StepsOrdered
  BY DEF IndInv
<1>2. Length \in 0 .. N
  BY <1>1 DEF TypeOK, StepsOrdered, Length, Copying, Advancing, Empty
<1>3. Oldest \in Slots
  BY <1>1, AfterWraps DEF TypeOK, Oldest
<1>4. \A i \in 1 .. Length : buffer[At(Oldest, i)] \in Items
  BY <1>1, <1>2, <1>3, AtWraps DEF TypeOK
<1>5. Contents = [i \in 1 .. Length |-> buffer[At(Oldest, i)]]
  BY DEF Contents, At
<1>6. Contents \in Seq(Items)
  <2>1. Length \in Nat
    BY <1>2
  <2>. QED  BY <1>4, <1>5, <2>1, IsASeq
<1>7. Len(Contents) = Length
  BY <1>2, <1>5, <1>6, LenProperties
<1>. QED  BY <1>2, <1>3, <1>5, <1>6, <1>7 DEF ContentsFacts

AbstractDone == [t \in Threads |-> retStatus[t] \/ pc[t] = "advance"]

(* Steps that leave the buffer, the length and the oldest slot alone leave *)
(* the abstract queue alone.                                               *)
LEMMA ContentsUnchanged ==
    ASSUME UNCHANGED buffer, UNCHANGED Length, UNCHANGED Oldest
    PROVE  UNCHANGED Contents
BY DEF Contents

(* The memcpy of a send puts its item at the end of the abstract queue.    *)
LEMMA CopyAppends ==
    ASSUME IndInv, IndInv', NEW t \in Threads, SendCopy(t)
    PROVE  /\ Len(Contents) < N
           /\ Contents' = Append(Contents, item[t])
<1>. USE LengthAssumption
<1>1. TypeOK /\ TypeOK' /\ StepsOrdered
  BY DEF IndInv
<1>2. /\ pc[t] = "copy" /\ pc'[t] = "unlock" /\ \A u \in Threads : u # t => pc'[u] = pc[u]
      /\ buffer' = [buffer EXCEPT ![queueIndex[t]] = item[t]]
      /\ itemsInQueue' = itemsInQueue /\ dequeueIndex' = dequeueIndex
  BY <1>1 DEF SendCopy, Goto, TypeOK
<1>3. Copying /\ ~Advancing
  BY <1>2, OneInside DEF Critical
<1>4. ~Copying' /\ ~Advancing'
  BY <1>2, OneInside DEF Copying, Advancing, Critical
<1>5. /\ Length = itemsInQueue - 1 /\ Length' = itemsInQueue
      /\ Oldest = dequeueIndex /\ Oldest' = dequeueIndex
      /\ itemsInQueue \in 1 .. N
  BY <1>1, <1>2, <1>3, <1>4 DEF Length, Oldest, TypeOK, StepsOrdered, Empty
<1>6. queueIndex[t] = At(dequeueIndex, itemsInQueue)
  <2>1. queueIndex[t] = (dequeueIndex + (itemsInQueue - 1)) % N
    BY <1>1, <1>2 DEF StepsOrdered
  <2>2. dequeueIndex + (itemsInQueue - 1) = dequeueIndex + itemsInQueue - 1
    BY <1>1, <1>5 DEF TypeOK, Slots
  <2>. QED  BY <2>1, <2>2 DEF At
<1>7. /\ Contents \in Seq(Items) /\ Len(Contents) = itemsInQueue - 1
      /\ \A i \in 1 .. itemsInQueue - 1 : Contents[i] = buffer[At(dequeueIndex, i)]
  BY <1>5, ContentsType DEF ContentsFacts
<1>8. /\ Contents' \in Seq(Items) /\ Len(Contents') = itemsInQueue
      /\ \A i \in 1 .. itemsInQueue : Contents'[i] = buffer'[At(dequeueIndex, i)]
  <2>1. ContentsFacts'
    BY ContentsType, PTL
  <2>. QED  BY <1>5, <2>1 DEF ContentsFacts, At
<1>9. /\ item[t] \in Items
      /\ Append(Contents, item[t]) \in Seq(Items)
      /\ Len(Append(Contents, item[t])) = itemsInQueue
  BY <1>1, <1>5, <1>7 DEF TypeOK
<1>10. ASSUME NEW i \in 1 .. itemsInQueue
       PROVE  Contents'[i] = Append(Contents, item[t])[i]
  <2>1. dequeueIndex \in Slots /\ buffer \in [Slots -> Items]
    BY <1>1 DEF TypeOK
  <2>2. CASE i = itemsInQueue
    BY <1>1, <1>2, <1>5, <1>6, <1>7, <1>8, <2>1, <2>2 DEF TypeOK
  <2>3. CASE i # itemsInQueue
    <3>1. i \in 1 .. itemsInQueue - 1 /\ i \in 1 .. N /\ itemsInQueue \in 1 .. N
      BY <1>5, <2>3
    <3>2. At(dequeueIndex, i) # queueIndex[t]
      BY <1>6, <2>1, <2>3, <3>1, AtInjective
    <3>3. Contents'[i] = buffer[At(dequeueIndex, i)]
      BY <1>2, <1>8, <2>1, <3>1, <3>2, AtWraps
    <3>. QED  BY <1>7, <1>9, <3>1, <3>3
  <2>. QED  BY <2>2, <2>3
<1>. QED
  <2>1. Contents' = Append(Contents, item[t])
    BY <1>8, <1>9, <1>10, SeqEqual
  <2>. QED  BY <1>5, <1>7, <2>1

(* The memcpy of a receive takes the oldest item.                          *)
LEMMA CopyTakesHead ==
    ASSUME IndInv, IndInv', NEW t \in Threads, ReceiveCopy(t)
    PROVE  /\ Contents # <<>>
           /\ item' = [item EXCEPT ![t] = Head(Contents)]
           /\ Contents' = Tail(Contents)
<1>. USE LengthAssumption
<1>1. TypeOK /\ TypeOK' /\ StepsOrdered
  BY DEF IndInv
<1>2. /\ pc[t] = "check" /\ pc'[t] = "advance" /\ itemsInQueue # 0
      /\ item' = [item EXCEPT ![t] = buffer[dequeueIndex]]
      /\ buffer' = buffer /\ itemsInQueue' = itemsInQueue
      /\ dequeueIndex' = dequeueIndex
  BY <1>1 DEF ReceiveCopy, Goto, TypeOK, shared, Empty
<1>3. ~Copying /\ ~Advancing
  BY <1>2, OneInside DEF Critical
<1>4. Advancing'
  BY <1>2 DEF Advancing
<1>5. /\ Length = itemsInQueue /\ Length' = itemsInQueue - 1
      /\ Oldest = dequeueIndex /\ Oldest' = After(dequeueIndex)
      /\ itemsInQueue \in 1 .. N
  BY <1>1, <1>2, <1>3, <1>4 DEF Length, Oldest, TypeOK, After
<1>6. /\ Contents \in Seq(Items) /\ Len(Contents) = itemsInQueue
      /\ \A i \in 1 .. itemsInQueue : Contents[i] = buffer[At(dequeueIndex, i)]
  BY <1>5, ContentsType DEF ContentsFacts
<1>7. /\ Contents' \in Seq(Items) /\ Len(Contents') = itemsInQueue - 1
      /\ \A i \in 1 .. itemsInQueue - 1 :
            Contents'[i] = buffer[At(After(dequeueIndex), i)]
  <2>1. ContentsFacts'
    BY ContentsType, PTL
  <2>. QED  BY <1>2, <1>5, <2>1 DEF ContentsFacts, At
<1>8. Contents # <<>>
  BY <1>5, <1>6
<1>9. Head(Contents) = buffer[dequeueIndex]
  <2>1. dequeueIndex \in Slots /\ 1 \in 1 .. N /\ 1 \in 1 .. itemsInQueue
    BY <1>1, <1>5 DEF TypeOK
  <2>2. At(dequeueIndex, 1) = dequeueIndex
    BY <2>1, AtWraps DEF Slots
  <2>. QED  BY <1>6, <1>8, <2>1, <2>2
<1>10. /\ Tail(Contents) \in Seq(Items)
       /\ Len(Tail(Contents)) = itemsInQueue - 1
       /\ \A i \in 1 .. itemsInQueue - 1 : Tail(Contents)[i] = Contents[i + 1]
  BY <1>5, <1>6, <1>8, HeadTailProperties
<1>11. ASSUME NEW i \in 1 .. itemsInQueue - 1
       PROVE  Contents'[i] = Tail(Contents)[i]
  <2>1. i \in 1 .. N - 1 /\ i + 1 \in 1 .. itemsInQueue /\ dequeueIndex \in Slots
    BY <1>1, <1>5 DEF TypeOK
  <2>2. At(After(dequeueIndex), i) = At(dequeueIndex, i + 1)
    BY <2>1, AtAfter
  <2>. QED  BY <1>6, <1>7, <1>10, <2>1, <2>2
<1>12. Contents' = Tail(Contents)
  BY <1>7, <1>10, <1>11, SeqEqual
<1>. QED  BY <1>2, <1>8, <1>9, <1>12

LEMMA FifoInit == Init => Abstract!Init
<1>. SUFFICES ASSUME Init PROVE Abstract!Init
  OBVIOUS
<1>1. Contents = <<>>
  <2>1. IndInv /\ ~Copying /\ ~Advancing
    BY IndInit DEF Init, Copying, Advancing
  <2>2. Length = 0
    BY <2>1 DEF Length, Init
  <2>. QED  BY <2>1, <2>2, ContentsType, EmptySeq DEF ContentsFacts
<1>2. AbstractDone = [t \in Threads |-> FALSE]
  BY DEF Init, AbstractDone
<1>. QED  BY <1>1, <1>2 DEF Abstract!Init, AbstractDone, Init

(* Each step is a step of the FIFO, or the FIFO does not see it.           *)
LEMMA FifoStep ==
    ASSUME IndInv, IndInv', [Next]_vars
    PROVE  [Abstract!Next]_(Abstract!vars)
<1>. USE LengthAssumption
<1>1. TypeOK /\ TypeOK' /\ StepsOrdered /\ StepsOrdered'
  BY DEF IndInv
<1>. USE <1>1 DEF TypeOK, Goto, shared
<1>. DEFINE Hidden == UNCHANGED <<Contents, call, AbstractDone, item>>
<1>2. Hidden => UNCHANGED Abstract!vars
  BY DEF Abstract!vars, AbstractDone
<1>0. CASE UNCHANGED vars
  <2>. Hidden
    BY <1>0 DEF vars, Contents, Oldest, Length, Copying, Advancing, AbstractDone
  <2>. QED  BY <1>2
<1>10. ASSUME NEW t \in Threads, NEW v \in Items, SendCall(t, v)
       PROVE  [Abstract!Next]_(Abstract!vars)
  <2>1. UNCHANGED Contents
    BY <1>10 DEF SendCall, Contents, Oldest, Length, Copying, Advancing
  <2>2. AbstractDone' = [AbstractDone EXCEPT ![t] = FALSE]
    BY <1>10 DEF SendCall, AbstractDone
  <2>3. Abstract!SendCall(t, v)
    BY <1>10, <2>1, <2>2 DEF SendCall, Abstract!SendCall, AbstractDone, StepsOrdered
  <2>. QED  BY <2>3 DEF Abstract!Next
<1>11. ASSUME NEW t \in Threads, ReceiveCall(t)
       PROVE  [Abstract!Next]_(Abstract!vars)
  <2>1. UNCHANGED Contents
    BY <1>11 DEF ReceiveCall, Contents, Oldest, Length, Copying, Advancing
  <2>2. AbstractDone' = [AbstractDone EXCEPT ![t] = FALSE]
    BY <1>11 DEF ReceiveCall, AbstractDone
  <2>3. Abstract!ReceiveCall(t)
    BY <1>11, <2>1, <2>2 DEF ReceiveCall, Abstract!ReceiveCall, AbstractDone, StepsOrdered
  <2>. QED  BY <2>3 DEF Abstract!Next
<1>12. ASSUME NEW t \in Threads, Lock(t)
       PROVE  [Abstract!Next]_(Abstract!vars)
  <2>. Hidden
    BY <1>12 DEF Lock, Contents, Oldest, Length, Copying, Advancing, AbstractDone
  <2>. QED  BY <1>2
<1>13. ASSUME NEW t \in Threads, Timeout(t)
       PROVE  [Abstract!Next]_(Abstract!vars)
  <2>. Hidden
    BY <1>13 DEF Timeout, Contents, Oldest, Length, Copying, Advancing, AbstractDone
  <2>. QED  BY <1>2
<1>14. ASSUME NEW t \in Threads, SpuriousWakeup(t)
       PROVE  [Abstract!Next]_(Abstract!vars)
  <2>. Hidden
    BY <1>14 DEF SpuriousWakeup, Contents, Oldest, Length, Copying, Advancing, AbstractDone
  <2>. QED  BY <1>2
<1>15. ASSUME NEW t \in Threads, Relock(t)
       PROVE  [Abstract!Next]_(Abstract!vars)
  <2>. Hidden
    BY <1>15 DEF Relock, Contents, Oldest, Length, Copying, Advancing, AbstractDone
  <2>. QED  BY <1>2
<1>16. ASSUME NEW t \in Threads, SendWait(t)
       PROVE  [Abstract!Next]_(Abstract!vars)
  <2>. Hidden
    BY <1>16 DEF SendWait, Contents, Oldest, Length, Copying, Advancing, AbstractDone
  <2>. QED  BY <1>2
<1>17. ASSUME NEW t \in Threads, ReceiveWait(t)
       PROVE  [Abstract!Next]_(Abstract!vars)
  <2>. Hidden
    BY <1>17 DEF ReceiveWait, Contents, Oldest, Length, Copying, Advancing, AbstractDone
  <2>. QED  BY <1>2
<1>18. ASSUME NEW t \in Threads, SendReserve(t)
       PROVE  [Abstract!Next]_(Abstract!vars)
  <2>1. ~Copying /\ ~Advancing /\ Copying' /\ ~Advancing'
    BY <1>18, OneInside DEF SendReserve, Critical, Copying, Advancing
  <2>2. UNCHANGED Length /\ UNCHANGED Oldest
    BY <1>18, <2>1 DEF SendReserve, Length, Oldest
  <2>. Hidden
    BY <1>18, <2>2, ContentsUnchanged DEF SendReserve, AbstractDone
  <2>. QED  BY <1>2
<1>19. ASSUME NEW t \in Threads, SendCopy(t)
       PROVE  [Abstract!Next]_(Abstract!vars)
  <2>1. Len(Contents) < N /\ Contents' = Append(Contents, item[t])
    BY <1>19, CopyAppends
  <2>2. AbstractDone' = [AbstractDone EXCEPT ![t] = TRUE]
    BY <1>19 DEF SendCopy, AbstractDone
  <2>3. call[t] = "send" /\ ~AbstractDone[t]
    BY <1>19 DEF SendCopy, AbstractDone, StepsOrdered
  <2>4. Abstract!Put(t)
    BY <1>19, <2>1, <2>2, <2>3 DEF SendCopy, Abstract!Put, AbstractDone
  <2>. QED  BY <2>4 DEF Abstract!Next
<1>20. ASSUME NEW t \in Threads, ReceiveCopy(t)
       PROVE  [Abstract!Next]_(Abstract!vars)
  <2>1. /\ Contents # <<>>
        /\ item' = [item EXCEPT ![t] = Head(Contents)]
        /\ Contents' = Tail(Contents)
    BY <1>20, CopyTakesHead
  <2>2. AbstractDone' = [AbstractDone EXCEPT ![t] = TRUE]
    BY <1>20 DEF ReceiveCopy, AbstractDone
  <2>3. call[t] = "receive" /\ ~AbstractDone[t]
    BY <1>20 DEF ReceiveCopy, AbstractDone, StepsOrdered
  <2>4. Abstract!Get(t)
    BY <1>20, <2>1, <2>2, <2>3 DEF ReceiveCopy, Abstract!Get, AbstractDone
  <2>. QED  BY <2>4 DEF Abstract!Next
<1>21. ASSUME NEW t \in Threads, ReceiveAdvance(t)
       PROVE  [Abstract!Next]_(Abstract!vars)
  <2>1. ~Copying /\ Advancing
    BY <1>21, OneInside DEF ReceiveAdvance, Critical
  <2>2. ~Copying' /\ ~Advancing'
    <3>1. \A u \in Threads : u # t => pc[u] \notin Critical
      BY <1>21, OneInside DEF ReceiveAdvance, Critical
    <3>. QED  BY <1>21, <3>1 DEF ReceiveAdvance, Critical, Copying, Advancing
  <2>3. UNCHANGED Length /\ UNCHANGED Oldest
    BY <1>21, <2>1, <2>2 DEF ReceiveAdvance, Length, Oldest
  <2>. Hidden
    BY <1>21, <2>3, ContentsUnchanged DEF ReceiveAdvance, AbstractDone
  <2>. QED  BY <1>2
<1>22. ASSUME NEW t \in Threads, Unlock(t)
       PROVE  [Abstract!Next]_(Abstract!vars)
  <2>1. UNCHANGED <<Contents, AbstractDone>>
    BY <1>22 DEF Unlock, Contents, Oldest, Length, Copying, Advancing, AbstractDone
  <2>2. CASE retStatus[t]
    <3>. Hidden
      BY <1>22, <2>1, <2>2 DEF Unlock
    <3>. QED  BY <1>2
  <2>3. CASE ~retStatus[t]
    <3>1. Abstract!Return(t)
      BY <1>22, <2>1, <2>3 DEF Unlock, Abstract!Return, AbstractDone, StepsOrdered
    <3>. QED  BY <3>1 DEF Abstract!Next
  <2>. QED  BY <2>2, <2>3
<1>23. ASSUME NEW t \in Threads, Notify(t)
       PROVE  [Abstract!Next]_(Abstract!vars)
  <2>1. UNCHANGED <<Contents, AbstractDone>>
    BY <1>23 DEF Notify, Waiters, Contents, Oldest, Length, Copying, Advancing, AbstractDone
  <2>2. Abstract!Return(t)
    BY <1>23, <2>1 DEF Notify, Abstract!Return, AbstractDone, StepsOrdered
  <2>. QED  BY <2>2 DEF Abstract!Next
<1>. QED
  BY <1>0, <1>10, <1>11, <1>12, <1>13, <1>14, <1>15, <1>16, <1>17, <1>18, <1>19,
     <1>20, <1>21, <1>22, <1>23
  DEF Next, Run, Send, Receive

(* The ring buffer is a FIFO of at most N items under any interleaving of  *)
(* any number of threads (pal_queue.c:71-184).                             *)
THEOREM QueueIsFifo == Spec => ImplementsFifo
<1>1. IndInv /\ IndInv' /\ [Next]_vars => [Abstract!Next]_(Abstract!vars)
  BY FifoStep
<1>. QED  BY <1>1, FifoInit, Invariance, PTL DEF Spec, ImplementsFifo, Abstract!Spec
==============================================================================
