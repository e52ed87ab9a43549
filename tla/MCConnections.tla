---------------------------- MODULE MCConnections ----------------------------
(* Values for the model checker. *)
EXTENDS Connections

MCLabels == {"claim", "device"}
MCContexts == {"flow", "agent"}
=============================================================================
