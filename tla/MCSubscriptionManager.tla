------------------------ MODULE MCSubscriptionManager ------------------------
(* SubscriptionManager for TLC: two topics, one filter for each and one that *)
(* matches both, as "a/b", "a/c" and "a/+" do.                              *)
EXTENDS SubscriptionManager

CONSTANTS exact1, exact2, wildcard, topic1, topic2

MCMatches == {<<topic1, exact1>>, <<topic2, exact2>>,
              <<topic1, wildcard>>, <<topic2, wildcard>>}
=============================================================================
