-------------------------- MODULE MCIncomingPublish --------------------------
(* IncomingPublish for TLC: a short and a long message.                     *)
EXTENDS IncomingPublish

MCMessages == {"short", "long"}
MCRequired == [short |-> 2, long |-> 3]
=============================================================================
