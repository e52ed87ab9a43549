--------------------------- MODULE PalEvent_proofs ---------------------------
(***************************************************************************)
(* Proofs about PalEvent, for any threads, any of them waiting or setting, *)
(* and any block time.                                                     *)
(***************************************************************************)
EXTENDS PalEvent, TLAPS

(* Every step keeps the types: a deadline is never overrun.                *)
LEMMA TypeStep ==
    ASSUME TypeOK, [Next]_vars
    PROVE  TypeOK'
<1>. USE TimeAssumption DEF TypeOK, PCs, Goto
<1>0. CASE UNCHANGED vars
  BY <1>0 DEF vars
<1>1. ASSUME NEW t \in Threads, NEW kind \in {"wait", "set"}, Call(t, kind)
      PROVE  TypeOK'
  BY <1>1 DEF Call
<1>2. CASE Tick
  BY <1>2 DEF Tick, Waiting, Expired
<1>3. ASSUME NEW t \in Threads, Lock(t)
      PROVE  TypeOK'
  BY <1>3 DEF Lock
<1>4. ASSUME NEW t \in Threads, Block(t)
      PROVE  TypeOK'
  BY <1>4 DEF Block
<1>5. ASSUME NEW t \in Threads, Timeout(t)
      PROVE  TypeOK'
  BY <1>5 DEF Timeout
<1>6. ASSUME NEW t \in Threads, SpuriousWakeup(t)
      PROVE  TypeOK'
  BY <1>6 DEF SpuriousWakeup
<1>7. ASSUME NEW t \in Threads, Relock(t)
      PROVE  TypeOK'
  BY <1>7 DEF Relock
<1>8. ASSUME NEW t \in Threads, Consume(t)
      PROVE  TypeOK'
  BY <1>8 DEF Consume
<1>9. ASSUME NEW t \in Threads, Set(t)
      PROVE  TypeOK'
  BY <1>9 DEF Set
<1>10. ASSUME NEW t \in Threads, Unlock(t)
       PROVE  TypeOK'
  BY <1>10 DEF Unlock
<1>11. ASSUME NEW t \in Threads, Broadcast(t)
       PROVE  TypeOK'
  BY <1>11 DEF Broadcast, Waiting
<1>. QED
  BY <1>0, <1>1, <1>2, <1>3, <1>4, <1>5, <1>6, <1>7, <1>8, <1>9, <1>10, <1>11,
     ThreadAssumption DEF Next, Run

(* No step lets a second thread into a critical section.                   *)
LEMMA MutexStep ==
    ASSUME TypeOK, MutualExclusion, [Next]_vars
    PROVE  MutualExclusion'
<1>. USE ThreadAssumption DEF TypeOK, MutualExclusion, Critical, Goto, PCs
<1>0. CASE UNCHANGED vars
  BY <1>0 DEF vars
<1>1. ASSUME NEW t \in Threads, NEW kind \in {"wait", "set"}, Call(t, kind)
      PROVE  MutualExclusion'
  BY <1>1 DEF Call
<1>2. CASE Tick
  BY <1>2 DEF Tick, Waiting
<1>3. ASSUME NEW t \in Threads, Lock(t)
      PROVE  MutualExclusion'
  BY <1>3 DEF Lock
<1>4. ASSUME NEW t \in Threads, Block(t)
      PROVE  MutualExclusion'
  BY <1>4 DEF Block
<1>5. ASSUME NEW t \in Threads, Timeout(t)
      PROVE  MutualExclusion'
  BY <1>5 DEF Timeout
<1>6. ASSUME NEW t \in Threads, SpuriousWakeup(t)
      PROVE  MutualExclusion'
  BY <1>6 DEF SpuriousWakeup
<1>7. ASSUME NEW t \in Threads, Relock(t)
      PROVE  MutualExclusion'
  BY <1>7 DEF Relock
<1>8. ASSUME NEW t \in Threads, Consume(t)
      PROVE  MutualExclusion'
  BY <1>8 DEF Consume
<1>9. ASSUME NEW t \in Threads, Set(t)
      PROVE  MutualExclusion'
  BY <1>9 DEF Set
<1>10. ASSUME NEW t \in Threads, Unlock(t)
       PROVE  MutualExclusion'
  BY <1>10 DEF Unlock
<1>11. ASSUME NEW t \in Threads, Broadcast(t)
       PROVE  MutualExclusion'
  BY <1>11 DEF Broadcast, Waiting
<1>. QED
  BY <1>0, <1>1, <1>2, <1>3, <1>4, <1>5, <1>6, <1>7, <1>8, <1>9, <1>10, <1>11,
     ThreadAssumption DEF Next, Run

(* Each step leaves a thread where the next one expects it.                *)
LEMMA OrderStep ==
    ASSUME TypeOK, StepsOrdered, [Next]_vars
    PROVE  StepsOrdered'
<1>. USE DEF TypeOK, StepsOrdered, Goto, PCs
<1>0. CASE UNCHANGED vars
  BY <1>0 DEF vars
<1>1. ASSUME NEW t \in Threads, NEW kind \in {"wait", "set"}, Call(t, kind)
      PROVE  StepsOrdered'
  BY <1>1 DEF Call
<1>2. CASE Tick
  BY <1>2 DEF Tick, Waiting
<1>3. ASSUME NEW t \in Threads, Lock(t)
      PROVE  StepsOrdered'
  BY <1>3 DEF Lock
<1>4. ASSUME NEW t \in Threads, Block(t)
      PROVE  StepsOrdered'
  BY <1>4 DEF Block
<1>5. ASSUME NEW t \in Threads, Timeout(t)
      PROVE  StepsOrdered'
  BY <1>5 DEF Timeout
<1>6. ASSUME NEW t \in Threads, SpuriousWakeup(t)
      PROVE  StepsOrdered'
  BY <1>6 DEF SpuriousWakeup
<1>7. ASSUME NEW t \in Threads, Relock(t)
      PROVE  StepsOrdered'
  BY <1>7 DEF Relock
<1>8. ASSUME NEW t \in Threads, Consume(t)
      PROVE  StepsOrdered'
  BY <1>8 DEF Consume
<1>9. ASSUME NEW t \in Threads, Set(t)
      PROVE  StepsOrdered'
  BY <1>9 DEF Set
<1>10. ASSUME NEW t \in Threads, Unlock(t)
       PROVE  StepsOrdered'
  BY <1>10 DEF Unlock
<1>11. ASSUME NEW t \in Threads, Broadcast(t)
       PROVE  StepsOrdered'
  BY <1>11 DEF Broadcast, Waiting
<1>. QED
  BY <1>0, <1>1, <1>2, <1>3, <1>4, <1>5, <1>6, <1>7, <1>8, <1>9, <1>10, <1>11,
     ThreadAssumption DEF Next, Run

(* A thread starts to wait only while the event is not set, and a thread   *)
(* that sets it broadcasts afterwards.                                     *)
LEMMA WakeupStep ==
    ASSUME TypeOK, MutualExclusion, StepsOrdered, NoLostWakeup, [Next]_vars
    PROVE  NoLostWakeup'
<1>. USE DEF TypeOK, MutualExclusion, StepsOrdered, NoLostWakeup, Waiting, Pending, Critical, Goto, PCs
<1>0. CASE UNCHANGED vars
  BY <1>0 DEF vars
<1>1. ASSUME NEW t \in Threads, NEW kind \in {"wait", "set"}, Call(t, kind)
      PROVE  NoLostWakeup'
  BY <1>1 DEF Call
<1>2. CASE Tick
  BY <1>2 DEF Tick, Waiting
<1>3. ASSUME NEW t \in Threads, Lock(t)
      PROVE  NoLostWakeup'
  BY <1>3 DEF Lock
<1>4. ASSUME NEW t \in Threads, Block(t)
      PROVE  NoLostWakeup'
  BY <1>4 DEF Block
<1>5. ASSUME NEW t \in Threads, Timeout(t)
      PROVE  NoLostWakeup'
  BY <1>5 DEF Timeout
<1>6. ASSUME NEW t \in Threads, SpuriousWakeup(t)
      PROVE  NoLostWakeup'
  BY <1>6 DEF SpuriousWakeup
<1>7. ASSUME NEW t \in Threads, Relock(t)
      PROVE  NoLostWakeup'
  BY <1>7 DEF Relock
<1>8. ASSUME NEW t \in Threads, Consume(t)
      PROVE  NoLostWakeup'
  BY <1>8 DEF Consume
<1>9. ASSUME NEW t \in Threads, Set(t)
      PROVE  NoLostWakeup'
  BY <1>9 DEF Set
<1>10. ASSUME NEW t \in Threads, Unlock(t)
       PROVE  NoLostWakeup'
  BY <1>10 DEF Unlock
<1>11. ASSUME NEW t \in Threads, Broadcast(t)
       PROVE  NoLostWakeup'
  BY <1>11 DEF Broadcast, Waiting
<1>. QED
  BY <1>0, <1>1, <1>2, <1>3, <1>4, <1>5, <1>6, <1>7, <1>8, <1>9, <1>10, <1>11,
     ThreadAssumption DEF Next, Run

LEMMA IndInit == Init => IndInv
<1>. SUFFICES ASSUME Init PROVE IndInv
  OBVIOUS
<1>1. TypeOK
  <2>1. 0 \in 0 .. BlockTime
    BY TimeAssumption
  <2>. QED  BY <2>1 DEF Init, TypeOK, PCs
<1>2. MutualExclusion
  BY ThreadAssumption DEF Init, MutualExclusion, Critical
<1>3. StepsOrdered
  BY DEF Init, StepsOrdered
<1>4. NoLostWakeup
  BY DEF Init, NoLostWakeup
<1>. QED  BY <1>1, <1>2, <1>3, <1>4 DEF IndInv

LEMMA IndStep == IndInv /\ [Next]_vars => IndInv'
BY TypeStep, MutexStep, OrderStep, WakeupStep DEF IndInv

(* The inductive invariant holds in every reachable state.                 *)
THEOREM Invariance == Spec => []IndInv
BY IndInit, IndStep, PTL DEF Spec

(* Every reachable state is well typed (pal_event.c:41-87).                *)
THEOREM TypeCorrect == Spec => []TypeOK
BY Invariance, PTL DEF IndInv

(* No set is missed by a thread that waits, although the broadcast follows *)
(* the unlock (pal_event.c:82-86).                                         *)
THEOREM WakeupsNotLost == Spec => []NoLostWakeup
BY Invariance, PTL DEF IndInv

LEMMA EventInit == Init => Abstract!Init
BY DEF Init, Abstract!Init

(* Each step is a step of the event, or the event does not see it.         *)
LEMMA EventStep ==
    ASSUME IndInv, IndInv', [Next]_vars
    PROVE  [Abstract!Next]_(Abstract!vars)
<1>. USE DEF IndInv, TypeOK, StepsOrdered, Goto
<1>0. CASE UNCHANGED vars
  BY <1>0 DEF vars, Abstract!vars
<1>1. ASSUME NEW t \in Threads, NEW kind \in {"wait", "set"}, Call(t, kind)
      PROVE  [Abstract!Next]_(Abstract!vars)
  BY <1>1 DEF Call, Abstract!Call, Abstract!Next
<1>2. CASE Tick
  BY <1>2 DEF Tick, Abstract!vars
<1>3. ASSUME NEW t \in Threads, Lock(t)
      PROVE  [Abstract!Next]_(Abstract!vars)
  BY <1>3 DEF Lock, Abstract!vars
<1>4. ASSUME NEW t \in Threads, Block(t)
      PROVE  [Abstract!Next]_(Abstract!vars)
  BY <1>4 DEF Block, Abstract!vars
<1>5. ASSUME NEW t \in Threads, Timeout(t)
      PROVE  [Abstract!Next]_(Abstract!vars)
  BY <1>5 DEF Timeout, Abstract!vars
<1>6. ASSUME NEW t \in Threads, SpuriousWakeup(t)
      PROVE  [Abstract!Next]_(Abstract!vars)
  BY <1>6 DEF SpuriousWakeup, Abstract!vars
<1>7. ASSUME NEW t \in Threads, Relock(t)
      PROVE  [Abstract!Next]_(Abstract!vars)
  BY <1>7 DEF Relock, Abstract!vars
<1>8. ASSUME NEW t \in Threads, Consume(t)
      PROVE  [Abstract!Next]_(Abstract!vars)
  BY <1>8 DEF Consume, Abstract!Take, Abstract!Next
<1>9. ASSUME NEW t \in Threads, Set(t)
      PROVE  [Abstract!Next]_(Abstract!vars)
  BY <1>9 DEF Set, Abstract!Raise, Abstract!Next
<1>10. ASSUME NEW t \in Threads, Unlock(t)
       PROVE  [Abstract!Next]_(Abstract!vars)
  BY <1>10 DEF Unlock, Abstract!Return, Abstract!Next, Abstract!vars
<1>11. ASSUME NEW t \in Threads, Broadcast(t)
       PROVE  [Abstract!Next]_(Abstract!vars)
  BY <1>11 DEF Broadcast, Waiting, Abstract!Return, Abstract!Next
<1>. QED
  BY <1>0, <1>1, <1>2, <1>3, <1>4, <1>5, <1>6, <1>7, <1>8, <1>9, <1>10, <1>11,
     ThreadAssumption DEF Next, Run

(* Under any interleaving each set is taken by at most one wait, and a wait *)
(* that fails takes none (pal_event.c:41-87).                              *)
THEOREM EventIsBinary == Spec => ImplementsEvent
<1>1. IndInv /\ IndInv' /\ [Next]_vars => [Abstract!Next]_(Abstract!vars)
  BY EventStep
<1>. QED  BY <1>1, EventInit, Invariance, PTL DEF Spec, ImplementsEvent, Abstract!Spec
==============================================================================
