------------------------- MODULE SubscriptionManager -------------------------
(***************************************************************************)
(* subscription_manager.c as the agent drives it: any sequence of calls on *)
(* the one global list.  All calls come from the agent's thread, so each   *)
(* is one step.                                                            *)
(***************************************************************************)
EXTENDS SubscriptionList

CONSTANT Topics

VARIABLES
    list,       \* xGlobalSubscriptionList
    result,     \* what the last call returned
    calls       \* the elements whose callbacks the last publish called

vars == <<list, result, calls>>

TypeOK ==
    /\ list \in Lists
    /\ result \in BOOLEAN
    /\ calls \in SUBSET Indices

Init == list = EmptyList /\ result = FALSE /\ calls = {}

Add(e) ==
    /\ list' = addSubscription(list, e)
    /\ result' = Accepts(list, e)
    /\ calls' = {}

\* The parameter checks: NULL pointers and a filter of length zero.
RefuseCall == result' = FALSE /\ calls' = {} /\ UNCHANGED list

Remove(f) ==
    /\ list' = removeSubscription(list, f)
    /\ result' = FALSE
    /\ calls' = {}

Handle(topic) ==
    /\ calls' = Matching(list, topic)
    /\ result' = (Matching(list, topic) # {})
    /\ UNCHANGED list

Next ==
    \/ \E e \in Subscription : Add(e)
    \/ RefuseCall
    \/ \E f \in Filters : Remove(f)
    \/ \E topic \in Topics : Handle(topic)

Spec == Init /\ [][Next]_vars

-----------------------------------------------------------------------------
\* Whatever elements adds and removes have left free in the middle of the
\* array, no subscription is ever in it twice: the duplicate check looks past
\* the free elements, and a receiver gets one call per filter and publish.
NoDuplicates ==
    \A i, j \in Indices : list[i] = list[j] /\ list[i] # Free => i = j

Entries == {list[i] : i \in Indices \ FreeSlots(list)}

Abstract ==
    INSTANCE SubscriptionSet WITH
        entries <- Entries,
        called <- {list[i] : i \in calls \ FreeSlots(list)},
        Capacity <- MaxSubscriptions

\* The array behaves as a bounded set: an add fails only when the list really
\* is full, a remove leaves no subscription with the filter, and a publish
\* reaches exactly the subscriptions that match.
ImplementsSet == Abstract!Spec
=============================================================================
