----------------------------- MODULE MCMqttAgent -----------------------------
(* MqttAgent for TLC. Publishes match no filter here: incoming publishes are *)
(* the subject of IncomingPublish.                                          *)
EXTENDS MqttAgent, TLC

NoMatches == {}

\* Each user has a receiver of its own, named like the user.
OwnReceiver == [u \in Users |-> {u}]

Symmetry == Permutations(Commands)
=============================================================================
