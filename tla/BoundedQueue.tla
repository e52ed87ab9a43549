---------------------------- MODULE BoundedQueue ----------------------------
(***************************************************************************)
(* What pal_queue promises to the threads that use it: a FIFO of at most N *)
(* items.  A call either takes effect once, at one instant between its     *)
(* start and its return, or has no effect at all; its return value tells   *)
(* which (pal_queue.h: iotshdPal_syncQueueSend, ...Receive).               *)
(***************************************************************************)
EXTENDS Naturals, Sequences

CONSTANTS
    Threads,    \* the threads that call the queue
    Items,      \* the values an item may take
    N           \* numberOfQueueItems given to iotshdPal_syncQueueCreate

VARIABLES
    q,          \* the items in the queue, oldest first
    call,       \* the call each thread is in
    done,       \* whether the thread's last call has taken effect
    item        \* the caller's item: to send, or received

vars == <<q, call, done, item>>

Init ==
    /\ q = <<>>
    /\ call = [t \in Threads |-> "none"]
    /\ done = [t \in Threads |-> FALSE]
    /\ item \in [Threads -> Items]

SendCall(t, v) ==
    /\ call[t] = "none"
    /\ call' = [call EXCEPT ![t] = "send"]
    /\ done' = [done EXCEPT ![t] = FALSE]
    /\ item' = [item EXCEPT ![t] = v]
    /\ UNCHANGED q

ReceiveCall(t) ==
    /\ call[t] = "none"
    /\ call' = [call EXCEPT ![t] = "receive"]
    /\ done' = [done EXCEPT ![t] = FALSE]
    /\ UNCHANGED <<q, item>>

Put(t) ==
    /\ call[t] = "send" /\ ~done[t]
    /\ Len(q) < N
    /\ q' = Append(q, item[t])
    /\ done' = [done EXCEPT ![t] = TRUE]
    /\ UNCHANGED <<call, item>>

Get(t) ==
    /\ call[t] = "receive" /\ ~done[t]
    /\ q # <<>>
    /\ item' = [item EXCEPT ![t] = Head(q)]
    /\ q' = Tail(q)
    /\ done' = [done EXCEPT ![t] = TRUE]
    /\ UNCHANGED call

Return(t) ==
    /\ call[t] # "none"
    /\ call' = [call EXCEPT ![t] = "none"]
    /\ UNCHANGED <<q, done, item>>

Next ==
    \E t \in Threads :
        \/ \E v \in Items : SendCall(t, v)
        \/ ReceiveCall(t) \/ Put(t) \/ Get(t) \/ Return(t)

Spec == Init /\ [][Next]_vars
=============================================================================
