------------------------------- MODULE Mailbox -------------------------------
(***************************************************************************)
(* What a user context promises of incoming publishes: a bounded mailbox   *)
(* that keeps the publishes it accepts in order and intact, and refuses    *)
(* one only while all its items are in use.                                *)
(***************************************************************************)
EXTENDS Naturals, Sequences, FiniteSets

CONSTANTS Messages, Size, Readers, NoMessage

VARIABLES
    box,        \* accepted and not yet read, oldest first
    reading,    \* the messages each reader has read and not given back
    last        \* what became of the last publish

vars == <<box, reading, last>>

Init ==
    /\ box = <<>>
    /\ reading = [r \in Readers |-> NoMessage]
    /\ last = "none"

InUse == Len(box) + Cardinality({r \in Readers : reading[r] # NoMessage})

Accept(m) ==
    /\ InUse < Size
    /\ box' = Append(box, m)
    /\ last' = "accepted"
    /\ UNCHANGED reading

Refuse ==
    /\ InUse = Size
    /\ last' = "refused"
    /\ UNCHANGED <<box, reading>>

Read(r) ==
    /\ reading[r] = NoMessage
    /\ box # <<>>
    /\ reading' = [reading EXCEPT ![r] = Head(box)]
    /\ box' = Tail(box)
    /\ UNCHANGED last

GiveBack(r) ==
    /\ reading[r] # NoMessage
    /\ reading' = [reading EXCEPT ![r] = NoMessage]
    /\ UNCHANGED <<box, last>>

Next ==
    \/ \E m \in Messages : Accept(m)
    \/ Refuse
    \/ \E r \in Readers : Read(r) \/ GiveBack(r)

Spec == Init /\ [][Next]_vars
=============================================================================
