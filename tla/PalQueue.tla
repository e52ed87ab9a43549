------------------------------ MODULE PalQueue ------------------------------
(***************************************************************************)
(* The POSIX queue of src/platform/posix/pal_queue/pal_queue.c: a ring     *)
(* buffer behind one mutex and two condition variables, used by any number *)
(* of threads.  Every statement that another thread can observe or delay   *)
(* is a step of its own, so the critical sections are protected by the     *)
(* mutex and not by the model.                                             *)
(*                                                                         *)
(* A thread waits on condDequeue exactly when it is at "wait" in a send    *)
(* call and on condEnqueue when it is at "wait" in a receive call.  The    *)
(* length of blockTimeMs is abstracted: a timed wait may end at any time.  *)
(***************************************************************************)
EXTENDS Naturals, Sequences

CONSTANTS
    Threads,    \* the threads that call the queue
    Items,      \* the values an item may take
    N,          \* numberOfQueueItems
    NoThread,   \* owner of a free mutex
    Spurious    \* whether a wait may end with neither a broadcast nor a timeout

\* iotshdPal_syncQueueCreate returns NULL for a length of zero: a queue that
\* can be used has at least one slot.
ASSUME LengthAssumption == N \in Nat \ {0}
ASSUME OwnerAssumption == NoThread \notin Threads
ASSUME SpuriousAssumption == Spurious \in BOOLEAN

VARIABLES
    buffer,         \* pBuffer, one cell per item
    itemsInQueue,
    enqueueIndex,
    dequeueIndex,
    owner,          \* the thread that holds the mutex
    pc,             \* the next step of each thread
    call,           \* the call each thread is in
    timedOut,       \* ret # 0: the thread's timed wait returned ETIMEDOUT
    retStatus,      \* what the call returns
    queueIndex,     \* the slot a send reserved
    item            \* pQueueItemToSend or pvBuffer of the caller

shared == <<buffer, itemsInQueue, enqueueIndex, dequeueIndex>>
vars == <<shared, owner, pc, call, timedOut, retStatus, queueIndex, item>>

Slots == 0 .. N - 1

PCs == {"idle", "lock", "check", "copy", "advance", "wait", "relock",
        "unlock", "notify"}

TypeOK ==
    /\ buffer \in [Slots -> Items]
    /\ itemsInQueue \in 0 .. N
    /\ enqueueIndex \in Slots
    /\ dequeueIndex \in Slots
    /\ owner \in Threads \cup {NoThread}
    /\ pc \in [Threads -> PCs]
    /\ call \in [Threads -> {"none", "send", "receive"}]
    /\ timedOut \in [Threads -> BOOLEAN]
    /\ retStatus \in [Threads -> BOOLEAN]
    /\ queueIndex \in [Threads -> Slots]
    /\ item \in [Threads -> Items]

\* The buffer comes from malloc: its cells hold anything.
Init ==
    /\ buffer \in [Slots -> Items]
    /\ itemsInQueue = 0
    /\ enqueueIndex = 0
    /\ dequeueIndex = 0
    /\ owner = NoThread
    /\ pc = [t \in Threads |-> "idle"]
    /\ call = [t \in Threads |-> "none"]
    /\ timedOut = [t \in Threads |-> FALSE]
    /\ retStatus = [t \in Threads |-> FALSE]
    /\ queueIndex = [t \in Threads |-> 0]
    /\ item \in [Threads -> Items]

Full == itemsInQueue = N
Empty == itemsInQueue = 0
AfterUnwrapped(index) == index + 1
After(index) == (index + 1) % N

Goto(t, label) == pc' = [pc EXCEPT ![t] = label]

SendCall(t, v) ==
    /\ pc[t] = "idle"
    /\ Goto(t, "lock")
    /\ call' = [call EXCEPT ![t] = "send"]
    /\ item' = [item EXCEPT ![t] = v]
    /\ timedOut' = [timedOut EXCEPT ![t] = FALSE]
    /\ retStatus' = [retStatus EXCEPT ![t] = FALSE]
    /\ UNCHANGED <<shared, owner, queueIndex>>

ReceiveCall(t) ==
    /\ pc[t] = "idle"
    /\ Goto(t, "lock")
    /\ call' = [call EXCEPT ![t] = "receive"]
    /\ timedOut' = [timedOut EXCEPT ![t] = FALSE]
    /\ retStatus' = [retStatus EXCEPT ![t] = FALSE]
    /\ UNCHANGED <<shared, owner, queueIndex, item>>

Lock(t) ==
    /\ pc[t] = "lock"
    /\ owner = NoThread
    /\ owner' = t
    /\ Goto(t, "check")
    /\ UNCHANGED <<shared, call, timedOut, retStatus, queueIndex, item>>

\* The loop condition holds: pthread_cond_timedwait releases the mutex and
\* waits, in one step.
SendWait(t) ==
    /\ pc[t] = "check" /\ call[t] = "send"
    /\ Full
    /\ owner' = NoThread
    /\ Goto(t, "wait")
    /\ UNCHANGED <<shared, call, timedOut, retStatus, queueIndex, item>>

ReceiveWait(t) ==
    /\ pc[t] = "check" /\ call[t] = "receive"
    /\ Empty
    /\ owner' = NoThread
    /\ Goto(t, "wait")
    /\ UNCHANGED <<shared, call, timedOut, retStatus, queueIndex, item>>

\* The deadline passes: ret = ETIMEDOUT.
Timeout(t) ==
    /\ pc[t] = "wait"
    /\ Goto(t, "relock")
    /\ timedOut' = [timedOut EXCEPT ![t] = TRUE]
    /\ UNCHANGED <<shared, owner, call, retStatus, queueIndex, item>>

\* POSIX lets a wait return zero although nobody signalled the condition.
SpuriousWakeup(t) ==
    /\ Spurious
    /\ pc[t] = "wait"
    /\ Goto(t, "relock")
    /\ UNCHANGED <<shared, owner, call, timedOut, retStatus, queueIndex, item>>

\* The timed wait returns with the mutex held; a timeout ends the loop.
Relock(t) ==
    /\ pc[t] = "relock"
    /\ owner = NoThread
    /\ owner' = t
    /\ Goto(t, IF timedOut[t] THEN "unlock" ELSE "check")
    /\ UNCHANGED <<shared, call, timedOut, retStatus, queueIndex, item>>

SendReserveNext(t) ==
    /\ pc[t] = "check" /\ call[t] = "send" /\ ~Full
    /\ itemsInQueue' = itemsInQueue + 1
    /\ enqueueIndex' = After(enqueueIndex)
    /\ queueIndex' = [queueIndex EXCEPT ![t] = After(enqueueIndex)]
    /\ Goto(t, "copy")
    /\ UNCHANGED <<buffer, dequeueIndex, owner, call, timedOut, retStatus, item>>

SendReserve(t) ==
    /\ pc[t] = "check" /\ call[t] = "send"
    /\ ~Full
    /\ itemsInQueue' = itemsInQueue + 1
    /\ queueIndex' = [queueIndex EXCEPT ![t] = enqueueIndex]
    /\ enqueueIndex' = After(enqueueIndex)
    /\ Goto(t, "copy")
    /\ UNCHANGED <<buffer, dequeueIndex, owner, call, timedOut, retStatus, item>>

SendCopy(t) ==
    /\ pc[t] = "copy"
    /\ buffer' = [buffer EXCEPT ![queueIndex[t]] = item[t]]
    /\ retStatus' = [retStatus EXCEPT ![t] = TRUE]
    /\ Goto(t, "unlock")
    /\ UNCHANGED <<itemsInQueue, enqueueIndex, dequeueIndex, owner, call,
                   timedOut, queueIndex, item>>

ReceiveCopy(t) ==
    /\ pc[t] = "check" /\ call[t] = "receive"
    /\ ~Empty
    /\ item' = [item EXCEPT ![t] = buffer[dequeueIndex]]
    /\ Goto(t, "advance")
    /\ UNCHANGED <<shared, owner, call, timedOut, retStatus, queueIndex>>

ReceiveAdvance(t) ==
    /\ pc[t] = "advance"
    /\ itemsInQueue' = itemsInQueue - 1
    /\ dequeueIndex' = After(dequeueIndex)
    /\ retStatus' = [retStatus EXCEPT ![t] = TRUE]
    /\ Goto(t, "unlock")
    /\ UNCHANGED <<buffer, enqueueIndex, owner, call, timedOut, queueIndex, item>>

\* The broadcast comes after the unlock, and only for a call that succeeded;
\* a call that failed returns here.
Unlock(t) ==
    /\ pc[t] = "unlock"
    /\ owner' = NoThread
    /\ Goto(t, IF retStatus[t] THEN "notify" ELSE "idle")
    /\ call' = IF retStatus[t] THEN call ELSE [call EXCEPT ![t] = "none"]
    /\ UNCHANGED <<shared, timedOut, retStatus, queueIndex, item>>

\* The threads a broadcast by a call of this kind reaches: a send signals
\* condEnqueue, where receivers wait, a receive condDequeue.
Waiters(kind) == {u \in Threads : pc[u] = "wait" /\ call[u] = kind}
OtherSame(kind) == kind
Other(kind) == IF kind = "send" THEN "receive" ELSE "send"

Notify(t) ==
    /\ pc[t] = "notify"
    /\ pc' = [u \in Threads |->
                IF u = t THEN "idle"
                ELSE IF u \in Waiters(Other(call[t])) THEN "relock"
                ELSE pc[u]]
    /\ call' = [call EXCEPT ![t] = "none"]
    /\ UNCHANGED <<shared, owner, timedOut, retStatus, queueIndex, item>>

Send(t) == SendWait(t) \/ SendReserve(t) \/ SendCopy(t)
Receive(t) == ReceiveWait(t) \/ ReceiveCopy(t) \/ ReceiveAdvance(t)
\* The statements a thread runs without waiting for anything but the mutex.
Run(t) == Send(t) \/ Receive(t) \/ Unlock(t) \/ Notify(t)

Next ==
    \E t \in Threads :
        \/ \E v \in Items : SendCall(t, v)
        \/ ReceiveCall(t)
        \/ Lock(t) \/ Timeout(t) \/ SpuriousWakeup(t) \/ Relock(t)
        \/ Run(t)

Spec == Init /\ [][Next]_vars

\* The scheduler runs every runnable thread, and a thread that keeps asking for
\* the mutex gets it; no deadline need ever pass, so that only a broadcast is
\* sure to end a wait.
PatientFairness ==
    \A t \in Threads :
        WF_vars(Run(t)) /\ SF_vars(Lock(t)) /\ SF_vars(Relock(t))

PatientSpec == Spec /\ PatientFairness

-----------------------------------------------------------------------------
(* Safety. *)

\* The statements between the return of pthread_mutex_lock (or of the timed
\* wait) and pthread_mutex_unlock.
Critical == {"check", "copy", "advance", "unlock"}

\* Only the owner of the mutex is inside a critical section, although a timed
\* wait releases and takes the mutex in the middle of one.
MutualExclusion ==
    \A t \in Threads : pc[t] \in Critical <=> owner = t

\* The two indices and the count, each advanced on its own, always describe
\* the same ring: enqueueIndex is itemsInQueue slots after dequeueIndex.
RingConsistent == enqueueIndex = (dequeueIndex + itemsInQueue) % N

\* A call of this kind has changed the queue and not yet broadcast.
Pending(kind) ==
    \E t \in Threads :
        /\ call[t] = kind
        /\ \/ pc[t] \in {"copy", "notify"}
           \/ pc[t] = "unlock" /\ retStatus[t]

\* No lost wake-up, although the broadcast is sent after the mutex is
\* released and another thread can run in between: whenever a thread waits
\* for what the queue now has, a broadcast that will reach it is on its way.
NoLostWakeup ==
    /\ Waiters("send") # {} => Full \/ Pending("receive")
    /\ Waiters("receive") # {} => Empty \/ Pending("send")

\* What a thread inside a call may rely on at each step: the slot a send has
\* reserved is the newest of the ring, a receive copies from the oldest, and
\* only a call past its update of the queue returns TRUE.
StepsOrdered ==
    \A t \in Threads :
        /\ pc[t] = "idle" <=> call[t] = "none"
        /\ pc[t] = "copy" =>
              /\ call[t] = "send" /\ ~Empty
              /\ queueIndex[t] = (dequeueIndex + (itemsInQueue - 1)) % N
        /\ pc[t] = "advance" =>
              /\ call[t] = "receive" /\ ~Empty
              /\ item[t] = buffer[dequeueIndex]
        /\ retStatus[t] => pc[t] \in {"idle", "unlock", "notify"}
        /\ pc[t] = "notify" => retStatus[t]

\* The inductive invariant: each part needs the others to be preserved.
IndInv ==
    TypeOK /\ MutualExclusion /\ RingConsistent /\ StepsOrdered /\ NoLostWakeup

-----------------------------------------------------------------------------
(* The queue implements the FIFO of BoundedQueue.  A send takes effect at   *)
(* its memcpy and so does a receive: between the memcpy and the update of  *)
(* the count beside it the ring is one item off.                           *)

Copying == \E t \in Threads : pc[t] = "copy"
Advancing == \E t \in Threads : pc[t] = "advance"

Oldest == IF Advancing THEN After(dequeueIndex) ELSE dequeueIndex
Length == IF Copying \/ Advancing THEN itemsInQueue - 1 ELSE itemsInQueue

Contents == [i \in 1 .. Length |-> buffer[(Oldest + i - 1) % N]]

Abstract ==
    INSTANCE BoundedQueue WITH
        q <- Contents,
        done <- [t \in Threads |-> retStatus[t] \/ pc[t] = "advance"]

\* Every behaviour of the ring buffer, the mutex and the conditions is one of
\* the FIFO: items leave in the order they entered, none is lost, duplicated
\* or read before it was written, and a call that returns false changed
\* nothing.
ImplementsFifo == Abstract!Spec

-----------------------------------------------------------------------------
(* Liveness. *)

\* A thread that waits although the queue has what it needs is woken, or
\* another thread takes what it needs, even when no deadline ever passes.
WaitersAreWoken ==
    \A t \in Threads :
        /\ pc[t] = "wait" /\ call[t] = "send" /\ ~Full
              ~> pc[t] # "wait" \/ Full
        /\ pc[t] = "wait" /\ call[t] = "receive" /\ ~Empty
              ~> pc[t] # "wait" \/ Empty
=============================================================================
