------------------------------ MODULE PalEvent ------------------------------
(***************************************************************************)
(* The POSIX event of src/platform/posix/pal_event/pal_event.c: a flag     *)
(* behind a mutex and a condition variable.                                *)
(*                                                                         *)
(* Time passes only while threads wait: a tick is the unit of blockTimeMs, *)
(* and a timed wait that has used its ticks ends before the next one.      *)
(***************************************************************************)
EXTENDS Naturals

CONSTANTS
    Threads,    \* the threads that call the event
    Waiters,    \* those that call iotshdPal_syncEventWait
    Setters,    \* those that call iotshdPal_syncEventSet
    NoThread,   \* owner of a free mutex
    BlockTime,  \* blockTimeMs of every wait, in ticks
    Spurious    \* whether a wait may end with neither a broadcast nor a timeout

ASSUME ThreadAssumption ==
    /\ Waiters \subseteq Threads /\ Setters \subseteq Threads
    /\ NoThread \notin Threads
ASSUME TimeAssumption == BlockTime \in Nat
ASSUME SpuriousAssumption == Spurious \in BOOLEAN

VARIABLES
    eventStatus,
    owner,      \* the thread that holds the mutex
    pc,         \* the next step of each thread
    call,       \* the call each thread is in
    timedOut,   \* ret # 0
    retStatus,  \* what a wait returns; for a set, that the flag is raised
    left        \* ticks until the deadline of the thread's timed wait

vars == <<eventStatus, owner, pc, call, timedOut, retStatus, left>>

PCs == {"idle", "lock", "check", "wait", "relock", "unlock", "broadcast"}

TypeOK ==
    /\ eventStatus \in BOOLEAN
    /\ owner \in Threads \cup {NoThread}
    /\ pc \in [Threads -> PCs]
    /\ call \in [Threads -> {"none", "wait", "set"}]
    /\ timedOut \in [Threads -> BOOLEAN]
    /\ retStatus \in [Threads -> BOOLEAN]
    /\ left \in [Threads -> 0 .. BlockTime]

\* iotshdPal_syncEventCreate zeroes the structure: the event is not set.
Init ==
    /\ eventStatus = FALSE
    /\ owner = NoThread
    /\ pc = [t \in Threads |-> "idle"]
    /\ call = [t \in Threads |-> "none"]
    /\ timedOut = [t \in Threads |-> FALSE]
    /\ retStatus = [t \in Threads |-> FALSE]
    /\ left = [t \in Threads |-> 0]

Goto(t, label) == pc' = [pc EXCEPT ![t] = label]

Call(t, kind) ==
    /\ pc[t] = "idle"
    /\ Goto(t, "lock")
    /\ call' = [call EXCEPT ![t] = kind]
    /\ timedOut' = [timedOut EXCEPT ![t] = FALSE]
    /\ retStatus' = [retStatus EXCEPT ![t] = FALSE]
    /\ UNCHANGED <<eventStatus, owner, left>>

Lock(t) ==
    /\ pc[t] = "lock"
    /\ owner = NoThread
    /\ owner' = t
    /\ Goto(t, "check")
    /\ UNCHANGED <<eventStatus, call, timedOut, retStatus, left>>

\* The loop body: the deadline is computed anew from the current time each
\* time round, then the mutex is released and the thread waits.
Block(t) ==
    /\ pc[t] = "check" /\ call[t] = "wait"
    /\ ~eventStatus
    /\ left' = [left EXCEPT ![t] = BlockTime]
    /\ owner' = NoThread
    /\ Goto(t, "wait")
    /\ UNCHANGED <<eventStatus, call, timedOut, retStatus>>

Waiting == {t \in Threads : pc[t] = "wait"}

ExpiredLate(t) == left[t] + 1 = 0
Expired(t) == left[t] = 0

\* pthread_cond_timedwait: a tick of the clock for every thread in a wait.
Tick ==
    /\ Waiting # {}
    /\ \A t \in Waiting : ~Expired(t)
    /\ left' = [t \in Threads |-> IF t \in Waiting THEN left[t] - 1 ELSE left[t]]
    /\ UNCHANGED <<eventStatus, owner, pc, call, timedOut, retStatus>>

Timeout(t) ==
    /\ pc[t] = "wait"
    /\ Expired(t)
    /\ timedOut' = [timedOut EXCEPT ![t] = TRUE]
    /\ Goto(t, "relock")
    /\ UNCHANGED <<eventStatus, owner, call, retStatus, left>>

SpuriousWakeup(t) ==
    /\ Spurious
    /\ pc[t] = "wait"
    /\ Goto(t, "relock")
    /\ UNCHANGED <<eventStatus, owner, call, timedOut, retStatus, left>>

\* The timed wait returns with the mutex held; a timeout ends the loop, even
\* if the event has been set meanwhile.
Relock(t) ==
    /\ pc[t] = "relock"
    /\ owner = NoThread
    /\ owner' = t
    /\ Goto(t, IF timedOut[t] THEN "unlock" ELSE "check")
    /\ UNCHANGED <<eventStatus, call, timedOut, retStatus, left>>

ConsumeNothing(t) ==
    /\ pc[t] = "check" /\ call[t] = "wait" /\ eventStatus
    /\ retStatus' = [retStatus EXCEPT ![t] = TRUE]
    /\ Goto(t, "unlock")
    /\ UNCHANGED <<eventStatus, owner, call, timedOut, left>>

Consume(t) ==
    /\ pc[t] = "check" /\ call[t] = "wait"
    /\ eventStatus
    /\ eventStatus' = FALSE
    /\ retStatus' = [retStatus EXCEPT ![t] = TRUE]
    /\ Goto(t, "unlock")
    /\ UNCHANGED <<owner, call, timedOut, left>>

Set(t) ==
    /\ pc[t] = "check" /\ call[t] = "set"
    /\ eventStatus' = TRUE
    /\ retStatus' = [retStatus EXCEPT ![t] = TRUE]
    /\ Goto(t, "unlock")
    /\ UNCHANGED <<owner, call, timedOut, left>>

UnlockSilent(t) ==
    /\ pc[t] = "unlock"
    /\ owner' = NoThread
    /\ Goto(t, "idle")
    /\ call' = [call EXCEPT ![t] = "none"]
    /\ UNCHANGED <<eventStatus, timedOut, retStatus, left>>

\* A wait returns here; a set broadcasts after the unlock.
Unlock(t) ==
    /\ pc[t] = "unlock"
    /\ owner' = NoThread
    /\ Goto(t, IF call[t] = "set" THEN "broadcast" ELSE "idle")
    /\ call' = IF call[t] = "set" THEN call ELSE [call EXCEPT ![t] = "none"]
    /\ UNCHANGED <<eventStatus, timedOut, retStatus, left>>

Broadcast(t) ==
    /\ pc[t] = "broadcast"
    /\ pc' = [u \in Threads |-> IF u = t THEN "idle"
                                ELSE IF u \in Waiting THEN "relock" ELSE pc[u]]
    /\ call' = [call EXCEPT ![t] = "none"]
    /\ UNCHANGED <<eventStatus, owner, timedOut, retStatus, left>>

\* The statements a thread runs without waiting for anything but the mutex.
Run(t) == Block(t) \/ Consume(t) \/ Set(t) \/ Unlock(t) \/ Broadcast(t)

Next ==
    \/ \E t \in Waiters : Call(t, "wait")
    \/ \E t \in Setters : Call(t, "set")
    \/ \E t \in Threads :
          Lock(t) \/ Timeout(t) \/ SpuriousWakeup(t) \/ Relock(t) \/ Run(t)
    \/ Tick

Spec == Init /\ [][Next]_vars

\* Runnable threads run and get the mutex; nothing makes time pass, so no wait
\* is sure to end by its deadline.
Fairness ==
    \A t \in Threads : WF_vars(Run(t)) /\ SF_vars(Lock(t)) /\ SF_vars(Relock(t))

FairSpec == Spec /\ Fairness

-----------------------------------------------------------------------------
(* Safety. *)

Critical == {"check", "unlock"}

\* Only the owner of the mutex is inside a critical section.
MutualExclusion ==
    \A t \in Threads : pc[t] \in Critical <=> owner = t

\* A thread that raised the flag has still to broadcast.
Pending ==
    \E t \in Threads :
        call[t] = "set" /\ (pc[t] = "broadcast" \/ pc[t] = "unlock")

\* No lost wake-up: while a thread waits and the event is set, a broadcast
\* that will reach it is on its way, although the flag is raised under the
\* mutex and the broadcast sent after its release.
NoLostWakeup == eventStatus /\ Waiting # {} => Pending

\* What a thread inside a call may rely on at each step.
StepsOrdered ==
    \A t \in Threads :
        /\ pc[t] = "idle" <=> call[t] = "none"
        /\ pc[t] \in {"wait", "relock"} => call[t] = "wait"
        /\ pc[t] = "broadcast" => call[t] = "set"
        /\ call[t] = "set" =>
              (retStatus[t] <=> pc[t] \in {"unlock", "broadcast"})
        /\ call[t] = "wait" => (retStatus[t] => pc[t] = "unlock")

\* The inductive invariant.
IndInv == TypeOK /\ MutualExclusion /\ StepsOrdered /\ NoLostWakeup

-----------------------------------------------------------------------------
(* The event is the flag of BinaryEvent. *)

Abstract ==
    INSTANCE BinaryEvent WITH flag <- eventStatus, done <- retStatus

\* Each set is taken by at most one wait, a wait returns true only if it took
\* one, and a wait that times out leaves a set that raced with it for the next
\* call.
ImplementsEvent == Abstract!Spec

-----------------------------------------------------------------------------
(* Liveness. *)

\* A thread that waits on a set event is woken, or another wait takes the
\* event, even if no deadline ever passes.
SetWakesWaiters ==
    \A t \in Threads :
        pc[t] = "wait" /\ eventStatus ~> pc[t] # "wait" \/ ~eventStatus
=============================================================================
