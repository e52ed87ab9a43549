--------------------------- MODULE SubscriptionSet ---------------------------
(***************************************************************************)
(* What the subscription manager promises: a set of at most Capacity       *)
(* subscriptions.  Adding one that is there changes nothing, unsubscribing *)
(* a filter drops every subscription with it, and a publish is handed once *)
(* to each subscription whose filter matches its topic.                    *)
(***************************************************************************)
EXTENDS Naturals, FiniteSets

CONSTANTS Filters, Receivers, Topics, Matches, Capacity

VARIABLES
    entries,    \* the subscriptions
    result,     \* what the last call returned
    called      \* the subscriptions the last publish was handed to

vars == <<entries, result, called>>

Subscription == [filter : Filters, receiver : Receivers]

Init == entries = {} /\ result = FALSE /\ called = {}

Add(e) ==
    /\ called' = {}
    /\ \/ /\ e \in entries \/ Cardinality(entries) < Capacity
          /\ entries' = entries \cup {e}
          /\ result' = TRUE
       \/ /\ e \notin entries /\ Cardinality(entries) >= Capacity
          /\ result' = FALSE
          /\ UNCHANGED entries

\* A call with a filter of length zero, or without a list, filter or callback.
Refuse == UNCHANGED entries /\ result' = FALSE /\ called' = {}

Remove(f) ==
    /\ entries' = {e \in entries : e.filter # f}
    /\ result' = FALSE
    /\ called' = {}

Publish(topic) ==
    /\ called' = {e \in entries : <<topic, e.filter>> \in Matches}
    /\ result' = (called' # {})
    /\ UNCHANGED entries

Next ==
    \/ \E e \in Subscription : Add(e)
    \/ Refuse
    \/ \E f \in Filters : Remove(f)
    \/ \E topic \in Topics : Publish(topic)

Spec == Init /\ [][Next]_vars
=============================================================================
