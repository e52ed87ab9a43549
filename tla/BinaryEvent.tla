----------------------------- MODULE BinaryEvent -----------------------------
(***************************************************************************)
(* What pal_event promises: a flag that iotshdPal_syncEventSet raises and  *)
(* that one call of iotshdPal_syncEventWait takes down.  A wait returns    *)
(* true exactly when it took the flag; sets that nobody took are merged.   *)
(***************************************************************************)
CONSTANT Threads

VARIABLES
    flag,       \* the event is set
    call,       \* the call each thread is in
    done        \* whether the thread's last call has taken effect

vars == <<flag, call, done>>

Init ==
    /\ flag = FALSE
    /\ call = [t \in Threads |-> "none"]
    /\ done = [t \in Threads |-> FALSE]

Call(t, kind) ==
    /\ call[t] = "none"
    /\ call' = [call EXCEPT ![t] = kind]
    /\ done' = [done EXCEPT ![t] = FALSE]
    /\ UNCHANGED flag

Raise(t) ==
    /\ call[t] = "set" /\ ~done[t]
    /\ flag' = TRUE
    /\ done' = [done EXCEPT ![t] = TRUE]
    /\ UNCHANGED call

Take(t) ==
    /\ call[t] = "wait" /\ ~done[t]
    /\ flag
    /\ flag' = FALSE
    /\ done' = [done EXCEPT ![t] = TRUE]
    /\ UNCHANGED call

\* A set returns after it has taken effect, a wait also without.
Return(t) ==
    /\ call[t] = "wait" \/ (call[t] = "set" /\ done[t])
    /\ call' = [call EXCEPT ![t] = "none"]
    /\ UNCHANGED <<flag, done>>

Next ==
    \E t \in Threads :
        \/ \E kind \in {"wait", "set"} : Call(t, kind)
        \/ Raise(t) \/ Take(t) \/ Return(t)

Spec == Init /\ [][Next]_vars
=============================================================================
