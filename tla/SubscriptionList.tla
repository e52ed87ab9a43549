-------------------------- MODULE SubscriptionList --------------------------
(***************************************************************************)
(* The functions of subscription_manager.c on its array of elements.  A    *)
(* callback and its context, which the code always compares together, are  *)
(* one receiver.  An element whose filter length is zero is Free.          *)
(***************************************************************************)
EXTENDS Integers, FiniteSets

CONSTANTS
    Filters,            \* topic filters of non-zero length
    Receivers,          \* callback and context of a subscription
    Matches,            \* MQTT_MatchTopic: the <<topic, filter>> that match
    MaxSubscriptions,   \* SUBSCRIPTION_MANAGER_MAX_SUBSCRIPTIONS
    Free                \* an element zeroed by memset

ASSUME SizeAssumption == MaxSubscriptions \in Nat \ {0}

Subscription == [filter : Filters, receiver : Receivers]

ASSUME FreeAssumption == Free \notin Subscription

Indices == 0 .. MaxSubscriptions - 1
Lists == [Indices -> Subscription \cup {Free}]

\* The global array is zero by default.
EmptyList == [i \in Indices |-> Free]

FreeSlots(list) == {i \in Indices : list[i] = Free}
RegisteredBeforeFree(list, e) ==
    \E i \in Indices : list[i] = e /\ \A j \in Indices : j < i => list[j] # Free
Registered(list, e) == \E i \in Indices : list[i] = e

\* The scan runs backwards, so the free element it remembers last is the one
\* with the lowest index.
Lowest(S) == CHOOSE i \in S : \A j \in S : i <= j

\* The value addSubscription returns.
Accepts(list, e) == Registered(list, e) \/ FreeSlots(list) # {}

addSubscription(list, e) ==
    IF Registered(list, e) \/ FreeSlots(list) = {}
    THEN list
    ELSE [list EXCEPT ![Lowest(FreeSlots(list))] = e]

removeFirst(list, f) ==
    LET S == {i \in Indices : list[i] # Free /\ list[i].filter = f}
    IN  IF S = {} THEN list ELSE [list EXCEPT ![Lowest(S)] = Free]

removeSubscription(list, f) ==
    [i \in Indices |-> IF list[i] # Free /\ list[i].filter = f
                       THEN Free ELSE list[i]]

\* The elements whose callback handleIncomingPublishes calls, one call each.
Matching(list, topic) ==
    {i \in Indices : list[i] # Free /\ <<topic, list[i].filter>> \in Matches}
=============================================================================
