---------------------------- MODULE MqttOperations ----------------------------
(***************************************************************************)
(* mqtt_operations.c: one thread establishes an MQTT session, subscribes,  *)
(* unsubscribes, publishes and processes incoming packets, and stores its  *)
(* QoS1 publishes until they are acknowledged, to send them again when it  *)
(* establishes the session anew.                                           *)
(*                                                                         *)
(* coreMQTT, the TLS connection and the broker are external, modelled from *)
(* how this file uses them: MQTT_Init restarts the packet identifiers,     *)
(* MQTT_Connect clears the records of publishes unless the session is      *)
(* present, MQTT_Publish refuses an identifier that is in flight unless it *)
(* is a duplicate, and MQTT_ProcessLoop handles a packet at a time.        *)
(*                                                                         *)
(* Every packet carries the number of the request it belongs to, which     *)
(* only the properties read.                                               *)
(***************************************************************************)
EXTENDS Naturals, Sequences, FiniteSets

CONSTANTS
    Filters,            \* topic filters
    Payloads,           \* contents of the application's payload buffer
    Copied,             \* those its publish callback copies into the buffer
    Empty,              \* the content of a constant payload
    MaxOutgoing,        \* MAX_OUTGOING_PUBLISHES
    MaxRequests,        \* bound: requests made
    MaxConnections,     \* bound: sessions established
    MaxOnWire           \* bound: packets of the broker not yet read

ASSUME OutgoingAssumption == MaxOutgoing \in Nat \ {0}
ASSUME PayloadsAssumption == Copied \subseteq Payloads /\ Empty \notin Payloads
ASSUME BoundsAssumption ==
    MaxRequests \in Nat /\ MaxConnections \in Nat /\ MaxOnWire \in Nat

\* The 16-bit packet identifiers of a connection do not wrap.
ASSUME IdentifiersAssumption == MaxRequests < 65535

VARIABLES
    connection,             \* "none", "up", or "broken": TLS is up, nothing passes
    mqttSessionEstablished,
    nextPacketId,           \* of the coreMQTT context
    records,                \* packet identifiers in pOutgoingPublishRecords
    outgoingPublishPackets,
    globalAckPacketIdentifier,
    globalSubscribePacketIdentifier,
    globalUnsubscribePacketIdentifier

client == <<connection, mqttSessionEstablished, nextPacketId, records,
            outgoingPublishPackets, globalAckPacketIdentifier,
            globalSubscribePacketIdentifier, globalUnsubscribePacketIdentifier>>

VARIABLES
    payloadBuffer,          \* the application's buffer, which publishes point to
    call,                   \* the function the application is in
    expected,               \* usPacketIdentifier of waitForPacketAck
    index,                  \* of the loop of handlePublishResend
    result,                 \* what the last function returned
    number                  \* requests made so far

caller == <<payloadBuffer, call, expected, index, result, number>>

VARIABLES
    toBroker, toClient,     \* packets on the wire
    session,                \* whether the broker has a session of the client
    subscriptions,          \* of that session
    answered,               \* the requests whose acknowledgement the client got
    heard,                  \* the publishes the broker got
    stored,                 \* publishes accepted under the current session
    connections

broker == <<toBroker, toClient, session, subscriptions, heard>>
ghost == <<answered, stored, connections>>

vars == <<client, caller, broker, ghost>>

Slots == 0 .. MaxOutgoing - 1
MQTT_PACKET_ID_INVALID == 0
PacketIds == 1 .. MaxRequests
Numbers == 1 .. MaxRequests

NoPublish == [packetId |-> MQTT_PACKET_ID_INVALID, pointer |-> "constant", number |-> 0]
Stored == [packetId : PacketIds, pointer : {"constant", "buffer"}, number : Numbers]
Occupied == {i \in Slots : outgoingPublishPackets[i] # NoPublish}

TypeOK ==
    /\ connection \in {"none", "up", "broken"}
    /\ mqttSessionEstablished \in BOOLEAN
    /\ nextPacketId \in 0 .. MaxRequests + 1
    /\ records \subseteq PacketIds
    /\ outgoingPublishPackets \in [Slots -> Stored \cup {NoPublish}]
    /\ {globalAckPacketIdentifier, globalSubscribePacketIdentifier,
        globalUnsubscribePacketIdentifier, expected} \subseteq 0 .. MaxRequests
    /\ payloadBuffer \in Payloads
    /\ call \in {"idle", "resend", "subscribe", "unsubscribe", "process", "aborted"}
    /\ index \in 0 .. MaxOutgoing
    /\ result \in [function : {"none", "establish", "subscribe", "unsubscribe",
                               "publish", "process", "disconnect"}, ok : BOOLEAN]
    /\ number \in 0 .. MaxRequests
    /\ session \in BOOLEAN
    /\ subscriptions \subseteq Filters
    /\ answered \cup heard \cup stored \subseteq Numbers
    /\ connections \in 0 .. MaxConnections

Init ==
    /\ connection = "none"
    /\ mqttSessionEstablished = FALSE
    /\ nextPacketId = 1
    /\ records = {}
    /\ outgoingPublishPackets = [i \in Slots |-> NoPublish]
    /\ globalAckPacketIdentifier = 0
    /\ globalSubscribePacketIdentifier = 0
    /\ globalUnsubscribePacketIdentifier = 0
    /\ payloadBuffer \in Payloads
    /\ call = "idle"
    /\ expected = 0
    /\ index = 0
    /\ result = [function |-> "none", ok |-> FALSE]
    /\ number = 0
    /\ toBroker = <<>>
    /\ toClient = <<>>
    /\ session = FALSE
    /\ subscriptions = {}
    /\ answered = {}
    /\ heard = {}
    /\ stored = {}
    /\ connections = 0

Return(function, ok) ==
    /\ call' = "idle"
    /\ result' = [function |-> function, ok |-> ok]

\* The content behind a publish's pPayload, at the time it is read.
Content(pointer) == IF pointer = "buffer" THEN payloadBuffer ELSE Empty

Packet(type, id, n, data) == [type |-> type, id |-> id, number |-> n, data |-> data]

\* MQTT_Publish of a stored publish; MQTT_ReserveState refuses an identifier
\* that is in flight, unless the publish is a duplicate.
PublishSent(p, dup) ==
    /\ connection = "up"
    /\ dup \/ p.packetId \notin records
    /\ toBroker' = Append(toBroker, Packet("publish", p.packetId, p.number,
                                           Content(p.pointer)))
    /\ records' = records \cup {p.packetId}

-----------------------------------------------------------------------------
(* EstablishMqttSession and DisconnectMqttSession. *)

Connectable == call = "idle" /\ connection = "none" /\ connections < MaxConnections

\* The MQTT context is cleared, and connectToBrokerWithBackoffRetries exhausts
\* its attempts.
ConnectFails ==
    /\ Connectable
    /\ connections' = connections + 1
    /\ nextPacketId' = 0
    /\ Return("establish", FALSE)
    /\ UNCHANGED <<connection, mqttSessionEstablished, records,
                   outgoingPublishPackets, globalAckPacketIdentifier,
                   globalSubscribePacketIdentifier,
                   globalUnsubscribePacketIdentifier, payloadBuffer, expected,
                   index, number, broker, answered, stored>>

\* TLS is up, but the broker does not accept the CONNECT: the TLS connection
\* stays.
SessionFails ==
    /\ Connectable
    /\ connections' = connections + 1
    /\ connection' = "broken"
    /\ nextPacketId' = 1
    /\ Return("establish", FALSE)
    /\ UNCHANGED <<mqttSessionEstablished, records, outgoingPublishPackets,
                   globalAckPacketIdentifier, globalSubscribePacketIdentifier,
                   globalUnsubscribePacketIdentifier, payloadBuffer, expected,
                   index, number, broker, answered, stored>>

\* cleanSession is false: the broker keeps the session over disconnections,
\* until it expires.
Establish(sessionPresent) ==
    /\ Connectable
    /\ sessionPresent => session
    /\ connections' = connections + 1
    /\ connection' = "up"
    /\ mqttSessionEstablished' = TRUE
    /\ nextPacketId' = 1
    /\ session' = TRUE
    /\ toBroker' = <<>>
    /\ toClient' = <<>>
    /\ IF sessionPresent
       THEN /\ call' = "resend" /\ index' = 0
            /\ UNCHANGED <<result, records, subscriptions, outgoingPublishPackets,
                         stored>>
       ELSE /\ Return("establish", TRUE)
            /\ subscriptions' = {}
            /\ outgoingPublishPackets' = [i \in Slots |-> NoPublish]
            /\ records' = {}
            /\ stored' = {}
            /\ UNCHANGED index
    /\ UNCHANGED <<globalAckPacketIdentifier, globalSubscribePacketIdentifier,
                   globalUnsubscribePacketIdentifier, payloadBuffer, expected,
                   number, answered, heard>>

InLoop == index < MaxOutgoing

\* handlePublishResend, one element of the array.
ResendOne ==
    /\ call = "resend" /\ InLoop
    /\ IF index \in Occupied
       THEN PublishSent(outgoingPublishPackets[index], TRUE)
       ELSE UNCHANGED <<toBroker, records>>
    /\ index' = index + 1
    /\ UNCHANGED <<connection, mqttSessionEstablished, nextPacketId,
                   outgoingPublishPackets, globalAckPacketIdentifier,
                   globalSubscribePacketIdentifier,
                   globalUnsubscribePacketIdentifier, payloadBuffer, call,
                   expected, result, number, toClient, session, subscriptions,
                   heard, ghost>>

ResendEnds ==
    /\ call = "resend"
    /\ \/ ~InLoop /\ Return("establish", TRUE)
       \/ /\ index \in Occupied /\ connection = "broken"
          /\ Return("establish", FALSE)
    /\ UNCHANGED <<client, payloadBuffer, expected, index, number, broker, ghost>>

Disconnect ==
    /\ call = "idle" /\ connection # "none"
    /\ Return("disconnect", mqttSessionEstablished /\ connection = "up")
    /\ connection' = "none"
    /\ toBroker' = <<>>
    /\ toClient' = <<>>
    /\ UNCHANGED <<mqttSessionEstablished, nextPacketId, records,
                   outgoingPublishPackets, globalAckPacketIdentifier,
                   globalSubscribePacketIdentifier,
                   globalUnsubscribePacketIdentifier, payloadBuffer, expected,
                   index, number, session, subscriptions, heard, ghost>>

-----------------------------------------------------------------------------
(* SubscribeToTopic, UnsubscribeFromTopic, PublishToTopic and               *)
(* ProcessLoopWithTimeout.                                                 *)

MayRequest == call = "idle" /\ connection # "none" /\ number < MaxRequests

\* MQTT_Subscribe or MQTT_Unsubscribe succeeds, and waitForPacketAck begins;
\* or the packet cannot be sent.
Request(type, f) ==
    /\ MayRequest
    /\ number' = number + 1
    /\ nextPacketId' = nextPacketId + 1
    /\ \/ /\ connection = "up"
          /\ toBroker' = Append(toBroker, Packet(type, nextPacketId, number', f))
          /\ globalAckPacketIdentifier' = 0
          /\ expected' = nextPacketId
          /\ call' = type
          /\ UNCHANGED result
       \/ /\ connection = "broken"
          /\ Return(type, FALSE)
          /\ UNCHANGED <<toBroker, globalAckPacketIdentifier, expected>>
    /\ UNCHANGED <<connection, mqttSessionEstablished, records,
                   outgoingPublishPackets, payloadBuffer, index, toClient,
                   session, subscriptions, heard, ghost>>

SubscribeToTopic(f) ==
    /\ Request("subscribe", f)
    /\ globalSubscribePacketIdentifier' = nextPacketId
    /\ UNCHANGED globalUnsubscribePacketIdentifier

UnsubscribeFromTopic(f) ==
    /\ Request("unsubscribe", f)
    /\ globalUnsubscribePacketIdentifier' = nextPacketId
    /\ UNCHANGED globalSubscribePacketIdentifier

FreeSlots == Slots \ Occupied
FirstFree == CHOOSE i \in FreeSlots : \A j \in FreeSlots : i <= j

cleanupNothingAt(packets, i) == packets
cleanupOutgoingPublishAt(packets, i) == [packets EXCEPT ![i] = NoPublish]

\* The publish is stored before it is sent, and cleared when it cannot be.
PublishToTopic(pointer) ==
    /\ MayRequest /\ FreeSlots # {}
    /\ number' = number + 1
    /\ nextPacketId' = nextPacketId + 1
    /\ LET p == [packetId |-> nextPacketId, pointer |-> pointer, number |-> number']
           packets == [outgoingPublishPackets EXCEPT ![FirstFree] = p]
       IN  \/ /\ PublishSent(p, FALSE)
              /\ outgoingPublishPackets' = packets
              /\ stored' = stored \cup {number'}
              /\ Return("publish", TRUE)
           \/ /\ connection = "broken" \/ p.packetId \in records
              /\ outgoingPublishPackets' =
                     cleanupOutgoingPublishAt(packets, FirstFree)
              /\ Return("publish", FALSE)
              /\ UNCHANGED <<toBroker, records, stored>>
    /\ UNCHANGED <<connection, mqttSessionEstablished, globalAckPacketIdentifier,
                   globalSubscribePacketIdentifier,
                   globalUnsubscribePacketIdentifier, payloadBuffer, expected,
                   index, toClient, session, subscriptions, heard,
                   answered, connections>>

\* No free slot: nothing is sent.
PublishRefused ==
    /\ MayRequest /\ FreeSlots = {}
    /\ Return("publish", FALSE)
    /\ number' = number + 1
    /\ UNCHANGED <<client, payloadBuffer, expected, index, broker, ghost>>

ProcessLoopWithTimeout ==
    /\ call = "idle" /\ connection # "none"
    /\ call' = "process"
    /\ UNCHANGED <<client, payloadBuffer, expected, index, result, number,
                   broker, ghost>>

\* The application fills its payload buffer for the next publish.
FillBuffer(content) ==
    /\ call = "idle"
    /\ payloadBuffer' = content
    /\ UNCHANGED <<client, call, expected, index, result, number, broker, ghost>>

-----------------------------------------------------------------------------
(* MQTT_ProcessLoop, inside one of the waits. *)

Waiting ==
    \/ call = "process"
    \/ call \in {"subscribe", "unsubscribe"} /\ globalAckPacketIdentifier # expected

\* cleanupOutgoingPublishWithPacketID clears the first that has the identifier.
WithId(id) == {i \in Slots : outgoingPublishPackets[i].packetId = id}
CleanedFirst(id) == cleanupOutgoingPublishAt(outgoingPublishPackets, 0)
Cleaned(id) ==
    IF WithId(id) = {} THEN outgoingPublishPackets
    ELSE cleanupOutgoingPublishAt(outgoingPublishPackets,
             CHOOSE i \in WithId(id) : \A j \in WithId(id) : i <= j)

\* mqttCallback for an acknowledgement: the asserts on the identifiers of
\* SUBACK and UNSUBACK end the program when they fail. A SUBACK that refuses
\* is handled like one that grants.
Acknowledge(p) ==
    LET matches == CASE p.type = "suback" -> p.id = globalSubscribePacketIdentifier
                     [] p.type = "unsuback" -> p.id = globalUnsubscribePacketIdentifier
                     [] OTHER -> TRUE
    IN  /\ IF matches
           THEN /\ globalAckPacketIdentifier' = p.id
                /\ UNCHANGED call
           ELSE /\ call' = "aborted"
                /\ UNCHANGED globalAckPacketIdentifier
        /\ answered' = answered \cup {p.number}
        /\ IF p.type = "puback"
           THEN /\ outgoingPublishPackets' = Cleaned(p.id)
                /\ records' = records \ {p.id}
           ELSE UNCHANGED <<outgoingPublishPackets, records>>
        /\ UNCHANGED payloadBuffer

\* The publish callback of the application.
Incoming(p) ==
    /\ payloadBuffer' = IF p.data \in Copied THEN p.data ELSE payloadBuffer
    /\ UNCHANGED <<globalAckPacketIdentifier, call, answered,
                   outgoingPublishPackets, records>>

ReceivePacket ==
    /\ Waiting /\ connection = "up" /\ toClient # <<>>
    /\ toClient' = Tail(toClient)
    /\ LET p == Head(toClient)
       IN  IF p.type = "publish" THEN Incoming(p) ELSE Acknowledge(p)
    /\ UNCHANGED <<connection, mqttSessionEstablished, nextPacketId,
                   globalSubscribePacketIdentifier,
                   globalUnsubscribePacketIdentifier, expected, index, result,
                   number, toBroker, session, subscriptions, heard,
                   stored, connections>>

WaitEndsAny ==
    /\ call \in {"subscribe", "unsubscribe"}
    /\ Return(call, globalAckPacketIdentifier # 0)
    /\ UNCHANGED <<client, payloadBuffer, expected, index, number, broker, ghost>>

\* waitForPacketAck ends: with the expected identifier, without it at its
\* deadline, or at an error of MQTT_ProcessLoop, which may have read the
\* acknowledgement all the same.
WaitEnds ==
    /\ call \in {"subscribe", "unsubscribe"}
    /\ \E ok \in BOOLEAN :
          /\ ok => globalAckPacketIdentifier = expected
          /\ Return(call, ok)
    /\ UNCHANGED <<client, payloadBuffer, expected, index, number, broker, ghost>>

\* At its deadline, or at an error.
ProcessEnds ==
    /\ call = "process"
    /\ \E ok \in BOOLEAN : Return("process", ok)
    /\ UNCHANGED <<client, payloadBuffer, expected, index, number, broker, ghost>>

-----------------------------------------------------------------------------
(* The network and the broker. *)

ConnectionBreaks ==
    /\ connection = "up" /\ call # "aborted"
    /\ connection' = "broken"
    /\ UNCHANGED <<mqttSessionEstablished, nextPacketId, records,
                   outgoingPublishPackets, globalAckPacketIdentifier,
                   globalSubscribePacketIdentifier,
                   globalUnsubscribePacketIdentifier, caller, broker, ghost>>

\* The broker handles a packet and acknowledges it; it may refuse a subscribe,
\* and acknowledge a publish only after the connection is gone.
BrokerHandles ==
    /\ toBroker # <<>> /\ connection = "up"
    /\ toBroker' = Tail(toBroker)
    /\ LET p == Head(toBroker)
           ack == [subscribe |-> "suback", unsubscribe |-> "unsuback",
                   publish |-> "puback"]
       IN  /\ \/ toClient' = Append(toClient,
                                     Packet(ack[p.type], p.id, p.number, Empty))
              \/ p.type = "publish" /\ UNCHANGED toClient
           /\ subscriptions' \in
                  CASE p.type = "subscribe" -> {subscriptions, subscriptions \cup {p.data}}
                    [] p.type = "unsubscribe" -> {subscriptions \ {p.data}}
                    [] OTHER -> {subscriptions}
           /\ heard' = IF p.type = "publish" THEN heard \cup {p.number} ELSE heard
    /\ UNCHANGED <<client, caller, session, ghost>>

\* A message published to a filter of the session.
BrokerSends(content) ==
    /\ connection = "up" /\ subscriptions # {}
    /\ Len(toClient) < MaxOnWire
    /\ toClient' = Append(toClient, Packet("publish", 0, 0, content))
    /\ UNCHANGED <<client, caller, toBroker, session, subscriptions,
                   heard, ghost>>

Application ==
    \/ ConnectFails \/ SessionFails \/ Disconnect
    \/ \E sessionPresent \in BOOLEAN : Establish(sessionPresent)
    \/ \E f \in Filters : SubscribeToTopic(f) \/ UnsubscribeFromTopic(f)
    \/ \E pointer \in {"constant", "buffer"} : PublishToTopic(pointer)
    \/ PublishRefused
    \/ ProcessLoopWithTimeout
    \/ \E content \in Payloads : FillBuffer(content)

Library == ResendOne \/ ResendEnds \/ ReceivePacket \/ WaitEnds \/ ProcessEnds

Next ==
    \/ Application
    \/ Library
    \/ ConnectionBreaks \/ BrokerHandles
    \/ \E content \in Payloads : BrokerSends(content)

Spec == Init /\ [][Next]_vars

-----------------------------------------------------------------------------
(* Safety. *)

\* Packet identifiers start again at 1 with every connection while the stored
\* publishes keep theirs; still no two stored publishes share one, so that a
\* PUBACK clears the publish it acknowledges.
StoredOnce ==
    \A i, j \in Occupied :
        outgoingPublishPackets[i].packetId = outgoingPublishPackets[j].packetId
            => i = j

\* These stored outgoing publish messages are kept until a successful ack is
\* received (mqtt_operations.c:218-219): a publish that PublishToTopic
\* accepted is in the array or has reached the broker, through any number of
\* broken connections, as long as the broker keeps the session.
NeverForgotten ==
    \A n \in stored :
        \/ n \in {outgoingPublishPackets[i].number : i \in Occupied}
        \/ n \in heard

\* It is used to match an expected ACK for a transmitted packet
\* (mqtt_operations.c:195): a subscribe or an unsubscribe that returns true has
\* had its own acknowledgement, and not that of another request.
AckMatchesRequest ==
    /\ result.function \in {"subscribe", "unsubscribe"}
    /\ result.ok /\ call = "idle"
    => number \in answered

\* ... until the client connects again and packet identifiers start anew, while
\* earlier requests may still be acknowledged late.
AnswerIsOwn == connections = 1 => AckMatchesRequest

\* Make sure the ACK packet identifier matches with the request packet
\* identifier (mqtt_operations.c:586-588): the assertions hold.
AssertionsHold == call # "aborted"
=============================================================================
