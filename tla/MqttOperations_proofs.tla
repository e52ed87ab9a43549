------------------------- MODULE MqttOperations_proofs -------------------------
(***************************************************************************)
(* Proofs about MqttOperations, for any size of the array of publishes and *)
(* any bounds on requests, connections and packets.                        *)
(***************************************************************************)
EXTENDS MqttOperations, SequenceTheorems, WellFoundedInduction, TLAPS

(* A set of naturals that is not empty has a lowest element, which is what *)
(* the searches of the code for the first free slot choose.                *)
LEMMA LowestExists ==
    ASSUME NEW S \in SUBSET Nat, S # {}
    PROVE  \E i \in S : \A j \in S : i <= j
<1>1. IsWellFoundedOn(OpToRel(<, Nat), Nat)
  BY NatLessThanWellFounded
<1>2. PICK i \in S : \A j \in S : ~(<<j, i>> \in OpToRel(<, Nat))
  BY <1>1, WFMin
<1>3. ASSUME NEW j \in S
      PROVE  i <= j
  <2>1. OpToRel(<, Nat) = {ss \in Nat \X Nat : ss[1] < ss[2]}
    BY Zenon DEF OpToRel
  <2>2. ~(<<j, i>> \in {ss \in Nat \X Nat : ss[1] < ss[2]})
    BY <1>2, <2>1, Zenon
  <2>. QED  BY <2>2
<1>. QED  BY <1>3

RequestPackets ==
    [type : {"subscribe", "unsubscribe"}, id : PacketIds, number : Numbers,
     data : Filters]
    \cup [type : {"publish"}, id : PacketIds, number : Numbers,
          data : Payloads \cup {Empty}]
AckPackets ==
    [type : {"suback", "unsuback", "puback"}, id : PacketIds,
     number : Numbers, data : {Empty}]
MessagePackets == [type : {"publish"}, id : {0}, number : {0}, data : Payloads]

(* Identifiers start anew at 1, and no faster than the requests are made.  *)
Types ==
    /\ TypeOK
    /\ toBroker \in Seq(RequestPackets)
    /\ toClient \in Seq(AckPackets \cup MessagePackets)
    /\ nextPacketId <= number + 1
    /\ connection # "none" => nextPacketId >= 1

\* The publishes and their acknowledgements on the wire.
Up == {i \in DOMAIN toBroker : toBroker[i].type = "publish"}
Down == {i \in DOMAIN toClient : toClient[i].type = "puback"}

(* The identifier of a packet on the wire is in the records, belongs to no *)
(* other stored publish, and, while the session is being resumed, is that  *)
(* of a publish already sent again.                                        *)
Known(p) ==
    /\ p.id \in records
    /\ \A k \in Occupied : outgoingPublishPackets[k].packetId = p.id
                              => outgoingPublishPackets[k].number = p.number
    /\ call = "resend" => \E k \in Occupied :
                              /\ k < index
                              /\ outgoingPublishPackets[k].packetId = p.id

(* No two packets of publishes on the wire share an identifier.            *)
OneEach ==
    /\ \A i, j \in Up : toBroker[i].id = toBroker[j].id => i = j
    /\ \A i, j \in Down : toClient[i].id = toClient[j].id => i = j
    /\ \A i \in Up, j \in Down : toBroker[i].id # toClient[j].id

OnWire ==
    /\ \A i \in Up : Known(toBroker[i])
    /\ \A i \in Down : Known(toClient[i]) /\ toClient[i].number \in heard
    /\ OneEach

Recorded == \A i \in Occupied : outgoingPublishPackets[i].packetId \in records

(* In the first connection the identifiers on the wire are those given out, *)
(* and the one a call waits for is its own request's.                      *)
First ==
    /\ connections = 0 => /\ connection = "none" /\ call = "idle"
                          /\ result.function = "none"
                          /\ toBroker = <<>> /\ toClient = <<>>
                          /\ Occupied = {}
    /\ connections = 1 =>
          /\ call = "resend" => Occupied = {}
          /\ \A i \in DOMAIN toBroker : toBroker[i].id < nextPacketId
          /\ \A i \in DOMAIN toClient : toClient[i].id < nextPacketId
          /\ call \in {"subscribe", "unsubscribe"} =>
                /\ globalAckPacketIdentifier = expected => number \in answered
                /\ \A i \in DOMAIN toBroker :
                      toBroker[i].id = expected => toBroker[i].number = number
                /\ \A i \in DOMAIN toClient :
                      toClient[i].id = expected =>
                          toClient[i].type = "publish" \/ toClient[i].number = number

IndInv ==
    /\ Types
    /\ StoredOnce
    /\ Recorded
    /\ OnWire
    /\ NeverForgotten
    /\ First
    /\ AnswerIsOwn

Kept == StoredOnce /\ Recorded /\ OnWire /\ NeverForgotten

-----------------------------------------------------------------------------
(* The array of stored publishes.                                          *)
LEMMA SlotFacts ==
    ASSUME TypeOK
    PROVE  /\ \A i \in Occupied : i \in Slots /\ outgoingPublishPackets[i] \in Stored
           /\ \A i \in Slots : i \notin Occupied => outgoingPublishPackets[i] = NoPublish
           /\ \A i \in Occupied : /\ outgoingPublishPackets[i].packetId \in PacketIds
                                  /\ outgoingPublishPackets[i].number \in Numbers
BY DEF TypeOK, Occupied, Stored

LEMMA StoredIsNot == NoPublish \notin Stored
BY DEF NoPublish, Stored, PacketIds, MQTT_PACKET_ID_INVALID

LEMMA FreeFound ==
    ASSUME FreeSlots # {}
    PROVE  FirstFree \in FreeSlots /\ FirstFree \in Slots \ Occupied
<1>1. FreeSlots \in SUBSET Nat
  BY OutgoingAssumption DEF FreeSlots, Slots
<1>2. \E i \in FreeSlots : \A j \in FreeSlots : i <= j
  BY <1>1, LowestExists
<1>. QED  BY <1>2 DEF FirstFree, FreeSlots

(* No two stored publishes share an identifier, so clearing the first that  *)
(* has it clears them all.                                                 *)
LEMMA CleanedAll ==
    ASSUME TypeOK, StoredOnce, NEW id \in PacketIds
    PROVE  /\ Cleaned(id) \in [Slots -> Stored \cup {NoPublish}]
           /\ \A i \in Slots :
                 Cleaned(id)[i] = IF outgoingPublishPackets[i].packetId = id
                                  THEN NoPublish ELSE outgoingPublishPackets[i]
<1>1. WithId(id) \in SUBSET Nat /\ WithId(id) \in SUBSET Slots
  BY OutgoingAssumption DEF WithId, Slots
<1>2. WithId(id) \subseteq Occupied
  BY DEF WithId, Occupied, NoPublish, PacketIds, MQTT_PACKET_ID_INVALID
<1>3. CASE WithId(id) = {}
  BY <1>3 DEF Cleaned, WithId, TypeOK
<1>4. CASE WithId(id) # {}
  <2>1. PICK k \in WithId(id) :
           /\ k = (CHOOSE i \in WithId(id) : \A j \in WithId(id) : i <= j)
           /\ \A j \in WithId(id) : k <= j
    BY <1>1, <1>4, LowestExists
  <2>2. Cleaned(id) = [outgoingPublishPackets EXCEPT ![k] = NoPublish]
    BY <1>4, <2>1 DEF Cleaned, cleanupOutgoingPublishAt
  <2>3. \A i \in Slots : outgoingPublishPackets[i].packetId = id <=> i = k
    BY <1>2, <2>1 DEF WithId, StoredOnce
  <2>. QED  BY <1>1, <2>1, <2>2, <2>3 DEF TypeOK
<1>. QED  BY <1>3, <1>4

(* The packets on the wire.                                                *)
Packets == RequestPackets \cup AckPackets \cup MessagePackets

LEMMA Sent ==
    ASSUME Types
    PROVE  /\ Len(toBroker) \in Nat /\ DOMAIN toBroker = 1 .. Len(toBroker)
           /\ Len(toClient) \in Nat /\ DOMAIN toClient = 1 .. Len(toClient)
           /\ \A i \in DOMAIN toBroker : /\ toBroker[i] \in RequestPackets
                                         /\ toBroker[i].id \in PacketIds
                                         /\ toBroker[i].number \in Numbers
           /\ \A i \in DOMAIN toClient :
                 /\ toClient[i] \in AckPackets \cup MessagePackets
                 /\ toClient[i].id \in Nat
                 /\ toClient[i].type # "publish" =>
                       /\ toClient[i] \in AckPackets
                       /\ toClient[i].id \in PacketIds
                       /\ toClient[i].number \in Numbers
<1>1. /\ Len(toBroker) \in Nat /\ DOMAIN toBroker = 1 .. Len(toBroker)
      /\ \A i \in DOMAIN toBroker : toBroker[i] \in RequestPackets
  BY LenProperties, ElementOfSeq DEF Types
<1>2. /\ Len(toClient) \in Nat /\ DOMAIN toClient = 1 .. Len(toClient)
      /\ \A i \in DOMAIN toClient : toClient[i] \in AckPackets \cup MessagePackets
  BY LenProperties, ElementOfSeq DEF Types
<1>. QED  BY <1>1, <1>2 DEF RequestPackets, AckPackets, MessagePackets, PacketIds

LEMMA AppendOf ==
    ASSUME NEW S, NEW s \in Seq(S), NEW e \in S
    PROVE  /\ Append(s, e) \in Seq(S)
           /\ DOMAIN Append(s, e) = DOMAIN s \cup {Len(s) + 1}
           /\ Len(s) + 1 \notin DOMAIN s
           /\ \A i \in DOMAIN s : Append(s, e)[i] = s[i]
           /\ Append(s, e)[Len(s) + 1] = e
<1>1. /\ Append(s, e) \in Seq(S) /\ Len(Append(s, e)) = Len(s) + 1
      /\ \A i \in 1 .. Len(s) : Append(s, e)[i] = s[i]
      /\ Append(s, e)[Len(s) + 1] = e
  BY AppendProperties
<1>2. DOMAIN s = 1 .. Len(s) /\ Len(s) \in Nat
  BY LenProperties
<1>3. DOMAIN Append(s, e) = 1 .. Len(s) + 1
  BY <1>1, LenProperties
<1>. QED  BY <1>1, <1>2, <1>3

LEMMA TailOf ==
    ASSUME NEW S, NEW s \in Seq(S), s # <<>>
    PROVE  /\ Tail(s) \in Seq(S) /\ Head(s) \in S /\ Head(s) = s[1] /\ 1 \in DOMAIN s
           /\ \A i \in DOMAIN Tail(s) : /\ i \in Nat \ {0} /\ i + 1 \in DOMAIN s
                                        /\ Tail(s)[i] = s[i + 1]
<1>1. /\ Tail(s) \in Seq(S) /\ Head(s) \in S /\ Len(Tail(s)) = Len(s) - 1
      /\ \A i \in 1 .. Len(Tail(s)) : Tail(s)[i] = s[i + 1]
  BY HeadTailProperties
<1>2. DOMAIN s = 1 .. Len(s) /\ Len(s) \in Nat \ {0}
  BY LenProperties, EmptySeq
<1>3. DOMAIN Tail(s) = 1 .. Len(s) - 1
  BY <1>1, LenProperties
<1>4. Head(s) = s[1]
  OBVIOUS
<1>. QED  BY <1>1, <1>2, <1>3, <1>4

-----------------------------------------------------------------------------
LEMMA InitInv == Init => IndInv
<1>. SUFFICES ASSUME Init PROVE IndInv
  OBVIOUS
<1>1. Occupied = {}
  BY DEF Init, Occupied
<1>2. Types
  BY BoundsAssumption, OutgoingAssumption, EmptySeq
     DEF Init, Types, TypeOK, Slots, PacketIds, Numbers
<1>3. Up = {} /\ Down = {}
  BY DEF Init, Up, Down
<1>4. StoredOnce /\ Recorded /\ OnWire /\ NeverForgotten
  BY <1>1, <1>3 DEF Init, StoredOnce, Recorded, OnWire, OneEach, NeverForgotten
<1>5. First /\ AnswerIsOwn
  BY <1>1 DEF Init, First, AnswerIsOwn, AckMatchesRequest
<1>. QED  BY <1>2, <1>4, <1>5 DEF IndInv

-----------------------------------------------------------------------------
(* The types, action by action.                                            *)
LEMMA ConnectTypes ==
    ASSUME Types, StoredOnce,
           \/ ConnectFails \/ SessionFails \/ Disconnect
           \/ \E sessionPresent \in BOOLEAN : Establish(sessionPresent)
    PROVE  Types'
<1>. USE BoundsAssumption, OutgoingAssumption DEF Return, Connectable, broker
<1>1. CASE ConnectFails
  BY <1>1 DEF ConnectFails, Types, TypeOK
<1>2. CASE SessionFails
  BY <1>2 DEF SessionFails, Types, TypeOK
<1>3. CASE Disconnect
  BY <1>3, EmptySeq DEF Disconnect, Types, TypeOK, ghost
<1>4. ASSUME NEW sessionPresent \in BOOLEAN, Establish(sessionPresent)
      PROVE  Types'
  <2>1. outgoingPublishPackets' \in [Slots -> Stored \cup {NoPublish}]
    BY <1>4 DEF Establish, Types, TypeOK
  <2>2. toBroker' \in Seq(RequestPackets)
        /\ toClient' \in Seq(AckPackets \cup MessagePackets)
    BY <1>4, EmptySeq DEF Establish
  <2>3. /\ call' \in {"idle", "resend"} /\ index' \in {0, index}
        /\ result' \in {result, [function |-> "establish", ok |-> TRUE]}
        /\ records' \subseteq records /\ subscriptions' \subseteq subscriptions
        /\ stored' \subseteq stored
        /\ connections < MaxConnections /\ connections' = connections + 1
        /\ nextPacketId' = 1 /\ connection' = "up"
        /\ mqttSessionEstablished' = TRUE /\ session' = TRUE
        /\ UNCHANGED <<globalAckPacketIdentifier, globalSubscribePacketIdentifier,
                   globalUnsubscribePacketIdentifier, payloadBuffer, expected,
                   number, answered, heard>>
    BY <1>4 DEF Establish
  <2>4. result' \in [function : {"none", "establish", "subscribe", "unsubscribe",
                               "publish", "process", "disconnect"}, ok : BOOLEAN]
    <3>1. [function |-> "establish", ok |-> TRUE] \in
            [function : {"none", "establish", "subscribe", "unsubscribe",
                         "publish", "process", "disconnect"}, ok : BOOLEAN]
      OBVIOUS
    <3>. QED  BY <2>3, <3>1 DEF Types, TypeOK
  <2>5. index' \in 0 .. MaxOutgoing /\ connections' \in 0 .. MaxConnections
    BY <2>3 DEF Types, TypeOK
  <2>. QED  BY <2>1, <2>2, <2>3, <2>4, <2>5 DEF Types, TypeOK
<1>. QED  BY <1>1, <1>2, <1>3, <1>4

LEMMA ResendTypes ==
    ASSUME Types, ResendOne
    PROVE  Types'
<1>1. index \in 0 .. MaxOutgoing /\ index' = index + 1 /\ index < MaxOutgoing
  BY DEF ResendOne, InLoop, Types, TypeOK
<1>2. index' \in 0 .. MaxOutgoing
  BY <1>1, OutgoingAssumption
<1>3. toBroker' \in Seq(RequestPackets) /\ records' \subseteq PacketIds
  <2>1. CASE index \notin Occupied
    BY <2>1 DEF ResendOne, Types, TypeOK
  <2>2. CASE index \in Occupied
    <3>. DEFINE p == outgoingPublishPackets[index]
                 m == Packet("publish", p.packetId, p.number, Content(p.pointer))
    <3>1. p \in Stored /\ p.packetId \in PacketIds /\ p.number \in Numbers
      BY <2>2, SlotFacts DEF Types
    <3>2. m \in RequestPackets
      BY <3>1 DEF Packet, Content, RequestPackets, Types, TypeOK
    <3>3. toBroker' = Append(toBroker, m) /\ records' = records \cup {p.packetId}
      BY <2>2 DEF ResendOne, PublishSent
    <3>. HIDE DEF m, p
    <3>. QED  BY <3>1, <3>2, <3>3, AppendProperties DEF Types, TypeOK
  <2>. QED  BY <2>1, <2>2
<1>. QED  BY <1>2, <1>3 DEF ResendOne, Types, TypeOK, ghost

LEMMA RequestTypes ==
    ASSUME Types, NEW f \in Filters, NEW type \in {"subscribe", "unsubscribe"},
           Request(type, f),
           \/ /\ globalSubscribePacketIdentifier' = nextPacketId
              /\ UNCHANGED globalUnsubscribePacketIdentifier
           \/ /\ globalUnsubscribePacketIdentifier' = nextPacketId
              /\ UNCHANGED globalSubscribePacketIdentifier
    PROVE  /\ Types'
           /\ nextPacketId \in PacketIds /\ number' \in Numbers
           /\ Packet(type, nextPacketId, number', f) \in RequestPackets
<1>1. /\ nextPacketId \in PacketIds /\ nextPacketId \in 0 .. MaxRequests
      /\ number' = number + 1 /\ number' \in Numbers /\ number' \in 0 .. MaxRequests
      /\ nextPacketId' = nextPacketId + 1 /\ nextPacketId' \in 0 .. MaxRequests + 1
      /\ nextPacketId' <= number' + 1 /\ nextPacketId' >= 1
  BY BoundsAssumption DEF Request, MayRequest, Types, TypeOK, PacketIds, Numbers
<1>2. Packet(type, nextPacketId, number', f) \in RequestPackets
  BY <1>1 DEF Packet, RequestPackets
<1>. DEFINE m == Packet(type, nextPacketId, number', f)
<1>3. toBroker' \in {toBroker, Append(toBroker, m)}
  BY DEF Request
<1>. HIDE DEF m
<1>4. toBroker' \in Seq(RequestPackets)
  <2>1. m \in RequestPackets /\ toBroker \in Seq(RequestPackets)
    BY <1>2 DEF m, Types
  <2>. QED  BY <1>3, <2>1, AppendProperties
<1>5. {globalAckPacketIdentifier', expected'} \subseteq 0 .. MaxRequests
  <2>1. /\ globalAckPacketIdentifier' \in {0, globalAckPacketIdentifier}
        /\ expected' \in {nextPacketId, expected}
    BY DEF Request
  <2>2. globalAckPacketIdentifier \in 0 .. MaxRequests /\ expected \in 0 .. MaxRequests
    BY DEF Types, TypeOK
  <2>3. 0 \in 0 .. MaxRequests
    BY BoundsAssumption
  <2>. QED  BY <1>1, <2>1, <2>2, <2>3
<1>6. /\ call' \in {"idle", "subscribe", "unsubscribe"}
      /\ result' \in [function : {"none", "establish", "subscribe", "unsubscribe",
                               "publish", "process", "disconnect"}, ok : BOOLEAN]
  <2>1. /\ call' \in {"idle", type}
        /\ result' \in {result, [function |-> type, ok |-> FALSE]}
    BY DEF Request, Return
  <2>2. [function |-> type, ok |-> FALSE] \in
            [function : {"none", "establish", "subscribe", "unsubscribe",
                         "publish", "process", "disconnect"}, ok : BOOLEAN]
    OBVIOUS
  <2>3. result' \in [function : {"none", "establish", "subscribe", "unsubscribe",
                               "publish", "process", "disconnect"}, ok : BOOLEAN]
    BY <2>1, <2>2 DEF Types, TypeOK
  <2>. QED  BY <2>1, <2>3
<1>7. Types'
  BY <1>1, <1>4, <1>5, <1>6 DEF Request, Types, TypeOK, ghost
<1>. QED  BY <1>1, <1>2, <1>7

LEMMA PublishTypes ==
    ASSUME Types, NEW pointer \in {"constant", "buffer"}, PublishToTopic(pointer)
    PROVE  Types'
<1>. DEFINE p == [packetId |-> nextPacketId, pointer |-> pointer, number |-> number']
            m == Packet("publish", p.packetId, p.number, Content(p.pointer))
<1>1. /\ nextPacketId \in PacketIds
      /\ number' = number + 1 /\ number' \in Numbers /\ number' \in 0 .. MaxRequests
      /\ nextPacketId' = nextPacketId + 1 /\ nextPacketId' \in 0 .. MaxRequests + 1
      /\ nextPacketId' <= number' + 1 /\ nextPacketId' >= 1
  BY BoundsAssumption DEF PublishToTopic, MayRequest, Types, TypeOK, PacketIds, Numbers
<1>2. p \in Stored /\ m \in RequestPackets
  BY <1>1 DEF Stored, Packet, Content, RequestPackets, Types, TypeOK
<1>3. FirstFree \in Slots
  BY FreeFound DEF PublishToTopic
<1>4. /\ toBroker' \in {toBroker, Append(toBroker, m)}
      /\ records' \in {records, records \cup {nextPacketId}}
      /\ stored' \in {stored, stored \cup {number'}}
      /\ call' = "idle" /\ result' \in [function : {"publish"}, ok : BOOLEAN]
  <2>1. PublishSent(p, FALSE) \/ UNCHANGED <<toBroker, records>>
    BY DEF PublishToTopic
  <2>2. PublishSent(p, FALSE) => /\ toBroker' = Append(toBroker, m)
                                 /\ records' = records \cup {nextPacketId}
    BY DEF PublishSent
  <2>3. stored' \in {stored, stored \cup {number'}}
    BY DEF PublishToTopic
  <2>4. \E ok \in BOOLEAN : Return("publish", ok)
    BY DEF PublishToTopic
  <2>5. call' = "idle" /\ result' \in [function : {"publish"}, ok : BOOLEAN]
    BY <2>4 DEF Return
  <2>. QED  BY <2>1, <2>2, <2>3, <2>5
<1>5. outgoingPublishPackets' \in [Slots -> Stored \cup {NoPublish}]
  <2>. DEFINE packets == [outgoingPublishPackets EXCEPT ![FirstFree] = p]
  <2>1. packets \in [Slots -> Stored \cup {NoPublish}]
    BY <1>2, <1>3 DEF Types, TypeOK
  <2>2. \/ outgoingPublishPackets' = packets
        \/ outgoingPublishPackets' = [packets EXCEPT ![FirstFree] = NoPublish]
    BY DEF PublishToTopic, cleanupOutgoingPublishAt
  <2>. HIDE DEF packets
  <2>. QED  BY <1>3, <2>1, <2>2
<1>. HIDE DEF p, m
<1>6. toBroker' \in Seq(RequestPackets)
  BY <1>2, <1>4, AppendProperties DEF Types
<1>. QED  BY <1>1, <1>4, <1>5, <1>6 DEF PublishToTopic, Types, TypeOK, broker

LEMMA ReceiveTypes ==
    ASSUME Types, StoredOnce, ReceivePacket
    PROVE  Types'
<1>. DEFINE p == Head(toClient)
<1>1. p \in AckPackets \cup MessagePackets /\ toClient' = Tail(toClient)
      /\ toClient' \in Seq(AckPackets \cup MessagePackets)
  BY HeadTailProperties DEF ReceivePacket, Types
<1>. HIDE DEF p
<1>2. CASE p.type = "publish"
  <2>1. p \in MessagePackets
    BY <1>1, <1>2 DEF AckPackets
  <2>2. payloadBuffer' \in Payloads
        /\ UNCHANGED <<globalAckPacketIdentifier, call, answered,
                       outgoingPublishPackets, records>>
    BY <1>2, <2>1 DEF ReceivePacket, Incoming, p, MessagePackets, Types, TypeOK
  <2>. QED  BY <1>1, <2>2 DEF ReceivePacket, Types, TypeOK
<1>3. CASE p.type # "publish"
  <2>1. p \in AckPackets /\ p.id \in PacketIds /\ p.number \in Numbers
    BY <1>1, <1>3 DEF MessagePackets, AckPackets
  <2>2. Acknowledge(p)
    BY <1>3 DEF ReceivePacket, p
  <2>3. /\ globalAckPacketIdentifier' \in {globalAckPacketIdentifier, p.id}
        /\ call' \in {call, "aborted"} /\ answered' = answered \cup {p.number}
        /\ payloadBuffer' = payloadBuffer
    BY <2>2 DEF Acknowledge
  <2>4. /\ outgoingPublishPackets' \in [Slots -> Stored \cup {NoPublish}]
        /\ records' \subseteq PacketIds
    BY <2>1, <2>2, CleanedAll DEF Acknowledge, Types, TypeOK
  <2>5. p.id \in 0 .. MaxRequests
    BY <2>1 DEF PacketIds
  <2>. QED  BY <1>1, <2>1, <2>3, <2>4, <2>5 DEF ReceivePacket, Types, TypeOK
<1>. QED  BY <1>2, <1>3

LEMMA BrokerTypes ==
    ASSUME Types, BrokerHandles \/ \E content \in Payloads : BrokerSends(content)
    PROVE  Types'
<1>. USE DEF client, caller, ghost
<1>1. CASE BrokerHandles
  <2>. DEFINE p == Head(toBroker)
              ack == [subscribe |-> "suback", unsubscribe |-> "unsuback",
                      publish |-> "puback"]
              m == Packet(ack[p.type], p.id, p.number, Empty)
  <2>1. p \in RequestPackets /\ toBroker' = Tail(toBroker)
        /\ toBroker' \in Seq(RequestPackets)
    BY <1>1, HeadTailProperties DEF BrokerHandles, Types
  <2>2. /\ toClient' \in {toClient, Append(toClient, m)}
        /\ heard' \in {heard, heard \cup {p.number}}
    BY <1>1 DEF BrokerHandles
  <2>3. subscriptions' \subseteq Filters
    <3>1. subscriptions' \in CASE p.type = "subscribe" ->
                                     {subscriptions, subscriptions \cup {p.data}}
                               [] p.type = "unsubscribe" -> {subscriptions \ {p.data}}
                               [] OTHER -> {subscriptions}
      BY <1>1 DEF BrokerHandles
    <3>2. p.type = "subscribe" => p.data \in Filters
      BY <2>1 DEF RequestPackets
    <3>. QED  BY <3>1, <3>2 DEF Types, TypeOK
  <2>. HIDE DEF p, ack
  <2>4. m \in AckPackets
    BY <2>1 DEF ack, Packet, RequestPackets, AckPackets
  <2>. HIDE DEF m
  <2>5. toClient' \in Seq(AckPackets \cup MessagePackets)
    BY <2>2, <2>4, AppendProperties DEF Types
  <2>6. p.number \in Numbers
    BY <2>1 DEF RequestPackets
  <2>. QED  BY <1>1, <2>1, <2>2, <2>3, <2>5, <2>6 DEF BrokerHandles, Types, TypeOK
<1>2. ASSUME NEW content \in Payloads, BrokerSends(content)
      PROVE  Types'
  <2>. DEFINE m == Packet("publish", 0, 0, content)
  <2>1. m \in MessagePackets
    BY DEF Packet, MessagePackets
  <2>2. toClient' = Append(toClient, m)
    BY <1>2 DEF BrokerSends
  <2>. HIDE DEF m
  <2>3. toClient' \in Seq(AckPackets \cup MessagePackets)
    BY <2>1, <2>2, AppendProperties DEF Types
  <2>. QED  BY <1>2, <2>3 DEF BrokerSends, Types, TypeOK
<1>. QED  BY <1>1, <1>2

\* The steps that touch neither the array nor the wire.
Quiet ==
    \/ ResendEnds \/ PublishRefused \/ ProcessLoopWithTimeout \/ WaitEnds
    \/ ProcessEnds \/ ConnectionBreaks
    \/ \E content \in Payloads : FillBuffer(content)
    \/ UNCHANGED vars

LEMMA QuietTypes ==
    ASSUME Types, Quiet
    PROVE  Types'
<1>. USE DEF Return, client, caller, broker, ghost
<1>1. CASE ResendEnds
  <2>1. PICK ok \in BOOLEAN : result' = [function |-> "establish", ok |-> ok]
    BY <1>1 DEF ResendEnds
  <2>2. result' \in [function : {"none", "establish", "subscribe", "unsubscribe",
                               "publish", "process", "disconnect"}, ok : BOOLEAN]
    BY <2>1
  <2>3. call' = "idle" /\ UNCHANGED <<client, payloadBuffer, expected, index,
                                     number, broker, ghost>>
    BY <1>1 DEF ResendEnds
  <2>. QED  BY <2>2, <2>3 DEF Types, TypeOK
<1>2. CASE PublishRefused
  BY <1>2, BoundsAssumption DEF PublishRefused, MayRequest, Types, TypeOK
<1>3. CASE WaitEnds
  <2>1. call \in {"subscribe", "unsubscribe"} /\ call' = "idle"
        /\ \E ok \in BOOLEAN : result' = [function |-> call, ok |-> ok]
    BY <1>3 DEF WaitEnds, Return
  <2>2. result' \in [function : {"none", "establish", "subscribe", "unsubscribe",
                               "publish", "process", "disconnect"}, ok : BOOLEAN]
    BY <2>1
  <2>. QED  BY <1>3, <2>1, <2>2 DEF WaitEnds, Types, TypeOK
<1>4. CASE ProcessEnds
  BY <1>4 DEF ProcessEnds, Types, TypeOK
<1>5. CASE ProcessLoopWithTimeout \/ ConnectionBreaks
           \/ \E content \in Payloads : FillBuffer(content)
  BY <1>5 DEF ProcessLoopWithTimeout, ConnectionBreaks, FillBuffer, Types, TypeOK
<1>6. CASE UNCHANGED vars
  BY <1>6 DEF vars, Types, TypeOK
<1>. QED  BY <1>1, <1>2, <1>3, <1>4, <1>5, <1>6 DEF Quiet

LEMMA TypesStep ==
    ASSUME Types, StoredOnce, [Next]_vars
    PROVE  Types'
BY ConnectTypes, ResendTypes, RequestTypes, PublishTypes, ReceiveTypes, BrokerTypes,
   QuietTypes DEF Next, Application, Library, SubscribeToTopic, UnsubscribeFromTopic, Quiet

-----------------------------------------------------------------------------
(* The stored publishes and the wire, action by action.                    *)

(* What the properties of the array depend on stays.                       *)
LEMMA ArraySame ==
    ASSUME StoredOnce, Recorded, NeverForgotten,
           outgoingPublishPackets' = outgoingPublishPackets,
           records \subseteq records', stored' = stored, heard \subseteq heard'
    PROVE  StoredOnce' /\ Recorded' /\ NeverForgotten' /\ Occupied' = Occupied
<1>1. Occupied' = Occupied
  BY DEF Occupied
<1>. QED  BY <1>1 DEF StoredOnce, Recorded, NeverForgotten

LEMMA QuietKept ==
    ASSUME Kept, Quiet
    PROVE  Kept'
<1>1. UNCHANGED <<outgoingPublishPackets, records, stored, heard, toBroker, toClient>>
      /\ index' = index /\ (call' = "resend" => call = "resend")
  BY DEF Quiet, ResendEnds, PublishRefused, ProcessLoopWithTimeout, WaitEnds, ProcessEnds,
         ConnectionBreaks, FillBuffer, Return, vars, client, caller, broker, ghost
<1>2. StoredOnce' /\ Recorded' /\ NeverForgotten' /\ Occupied' = Occupied
  BY <1>1, ArraySame DEF Kept
<1>3. OnWire'
  BY <1>1, <1>2 DEF Kept, OnWire, OneEach, Known, Up, Down
<1>. QED  BY <1>2, <1>3 DEF Kept

LEMMA WireSame ==
    ASSUME OnWire, call' # "resend", Occupied' = Occupied,
           UNCHANGED <<outgoingPublishPackets, records, heard, toBroker, toClient>>
    PROVE  OnWire'
BY DEF OnWire, OneEach, Known, Up, Down

(* A connection that begins or ends leaves nothing on the wire.            *)
LEMMA ConnectKept ==
    ASSUME Kept,
           \/ ConnectFails \/ SessionFails \/ Disconnect
           \/ \E sessionPresent \in BOOLEAN : Establish(sessionPresent)
    PROVE  Kept'
<1>. USE DEF Return, Connectable, broker, ghost
<1>1. CASE ConnectFails \/ SessionFails
  <2>1. UNCHANGED <<outgoingPublishPackets, records, stored, heard, toBroker, toClient>>
        /\ call' = "idle"
    BY <1>1 DEF ConnectFails, SessionFails
  <2>2. StoredOnce' /\ Recorded' /\ NeverForgotten' /\ Occupied' = Occupied
    BY <2>1, ArraySame DEF Kept
  <2>3. OnWire'
    BY <2>1, <2>2 DEF Kept, OnWire, OneEach, Known, Up, Down
  <2>. QED  BY <2>2, <2>3 DEF Kept
<1>2. ASSUME toBroker' = <<>>, toClient' = <<>>
      PROVE  OnWire'
  BY <1>2 DEF OnWire, OneEach, Up, Down
<1>3. CASE Disconnect
  <2>1. UNCHANGED <<outgoingPublishPackets, records, stored, heard>>
        /\ toBroker' = <<>> /\ toClient' = <<>>
    BY <1>3 DEF Disconnect
  <2>. QED  BY <1>2, <2>1, ArraySame DEF Kept
<1>4. ASSUME NEW sessionPresent \in BOOLEAN, Establish(sessionPresent)
      PROVE  Kept'
  <2>1. OnWire'
    BY <1>2, <1>4 DEF Establish
  <2>2. CASE sessionPresent
    <3>1. UNCHANGED <<outgoingPublishPackets, records, stored, heard>>
      BY <1>4, <2>2 DEF Establish
    <3>. QED  BY <2>1, <3>1, ArraySame DEF Kept
  <2>3. CASE ~sessionPresent
    <3>1. outgoingPublishPackets' = [i \in Slots |-> NoPublish] /\ stored' = {}
      BY <1>4, <2>3 DEF Establish
    <3>2. Occupied' = {}
      BY <3>1 DEF Occupied
    <3>. QED  BY <2>1, <3>1, <3>2 DEF Kept, StoredOnce, Recorded, NeverForgotten
  <2>. QED  BY <2>2, <2>3
<1>. QED  BY <1>1, <1>3, <1>4

(* A publish goes on the wire under an identifier nothing there has.       *)
LEMMA SendKept ==
    ASSUME Types, OnWire, Types', NEW m \in RequestPackets, m.type = "publish",
           toBroker' = Append(toBroker, m),
           UNCHANGED <<toClient, heard>>,
           \A w \in Packets : Known(w) => Known(w)' /\ w.id # m.id,
           Known(m)'
    PROVE  OnWire'
<1>. DEFINE n == Len(toBroker) + 1
<1>1. /\ DOMAIN toBroker' = DOMAIN toBroker \cup {n} /\ n \notin DOMAIN toBroker
      /\ \A i \in DOMAIN toBroker : toBroker'[i] = toBroker[i]
      /\ toBroker'[n] = m
  BY AppendOf DEF Types
<1>. HIDE DEF n
<1>2. Up' = Up \cup {n} /\ n \notin Up /\ \A i \in Up : toBroker'[i] = toBroker[i]
  BY <1>1 DEF Up
<1>3. Down' = Down /\ toClient' = toClient
  BY DEF Down
<1>4. /\ \A i \in Up : toBroker[i] \in Packets /\ Known(toBroker[i])
      /\ \A i \in Down : /\ toClient[i] \in Packets /\ Known(toClient[i])
                         /\ toClient[i].number \in heard
  BY Sent DEF OnWire, Up, Down, Packets
<1>5. /\ \A i \in Up : toBroker[i].id # m.id
      /\ \A i \in Down : toClient[i].id # m.id
  BY <1>4
<1>6. OneEach'
  <2>1. OneEach
    BY DEF OnWire
  <2>2. ASSUME NEW i \in Up', NEW j \in Up', toBroker'[i].id = toBroker'[j].id
        PROVE  i = j
    <3>1. CASE i \in Up /\ j \in Up
      <4>1. toBroker[i].id = toBroker[j].id
        BY <1>2, <2>2, <3>1
      <4>. QED  BY <2>1, <3>1, <4>1 DEF OneEach
    <3>2. CASE i = n /\ j \in Up
      BY <1>1, <1>2, <1>5, <2>2, <3>2
    <3>3. CASE i \in Up /\ j = n
      BY <1>1, <1>2, <1>5, <2>2, <3>3
    <3>. QED  BY <1>2, <3>1, <3>2, <3>3
  <2>3. \A i, j \in Down' : toClient'[i].id = toClient'[j].id => i = j
    BY <1>3, <2>1 DEF OneEach
  <2>4. ASSUME NEW i \in Up', NEW j \in Down'
        PROVE  toBroker'[i].id # toClient'[j].id
    <3>1. j \in Down /\ toClient'[j] = toClient[j]
      BY <1>3
    <3>2. CASE i \in Up
      <4>1. toBroker'[i] = toBroker[i]
        BY <1>2, <3>2
      <4>. QED  BY <2>1, <3>1, <3>2, <4>1 DEF OneEach
    <3>3. CASE i = n
      <4>1. toBroker'[i] = m
        BY <1>1, <3>3
      <4>. QED  BY <1>5, <3>1, <4>1
    <3>. QED  BY <1>2, <3>2, <3>3
  <2>. QED  BY <2>2, <2>3, <2>4 DEF OneEach
<1>7. ASSUME NEW i \in Up'
      PROVE  Known(toBroker[i])'
  <2>1. CASE i \in Up
    <3>1. PICK w \in Packets : w = toBroker[i] /\ Known(w)
      BY <1>4, <2>1
    <3>2. toBroker'[i] = w
      BY <1>2, <2>1, <3>1
    <3>3. Known(w)'
      BY <3>1
    <3>. QED  BY <3>2, <3>3 DEF Known
  <2>2. CASE i = n
    BY <1>1, <2>2 DEF Known
  <2>. QED  BY <1>2, <2>1, <2>2
<1>8. ASSUME NEW i \in Down'
      PROVE  Known(toClient[i])' /\ toClient'[i].number \in heard'
  <2>1. PICK w \in Packets : w = toClient[i] /\ Known(w) /\ w.number \in heard
    BY <1>3, <1>4
  <2>2. toClient'[i] = w /\ Known(w)'
    BY <1>3, <2>1
  <2>. QED  BY <2>1, <2>2 DEF Known
<1>. QED  BY <1>6, <1>7, <1>8 DEF OnWire

LEMMA ResendKept ==
    ASSUME Types, Kept, ResendOne
    PROVE  Kept'
<1>1. /\ UNCHANGED <<outgoingPublishPackets, stored, heard, toClient>>
      /\ index' = index + 1 /\ index \in Nat /\ call = "resend" /\ call' = "resend"
  BY DEF ResendOne, Types, TypeOK, ghost
<1>2. CASE index \notin Occupied
  <2>1. UNCHANGED <<records, toBroker>>
    BY <1>2 DEF ResendOne
  <2>2. StoredOnce' /\ Recorded' /\ NeverForgotten' /\ Occupied' = Occupied
    BY <1>1, <2>1, ArraySame DEF Kept
  <2>3. \A k \in Occupied : k \in Nat
    BY OutgoingAssumption DEF Occupied, Slots
  <2>4. OnWire'
    BY <1>1, <2>1, <2>2, <2>3 DEF Kept, OnWire, OneEach, Known, Up, Down
  <2>. QED  BY <2>2, <2>4 DEF Kept
<1>3. CASE index \in Occupied
  <2>. DEFINE p == outgoingPublishPackets[index]
  <2>0. Packet("publish", p.packetId, p.number, Content(p.pointer)) \in RequestPackets
    BY <1>3, SlotFacts DEF Stored, Packet, Content, RequestPackets, Types, TypeOK
  <2>. PICK m \in RequestPackets :
              m = Packet("publish", p.packetId, p.number, Content(p.pointer))
    BY <2>0
  <2>1. toBroker' = Append(toBroker, m) /\ records' = records \cup {p.packetId}
    BY <1>3 DEF ResendOne, PublishSent
  <2>2. m.type = "publish" /\ m.id = p.packetId /\ m.number = p.number
    BY DEF Packet
  <2>3. StoredOnce' /\ Recorded' /\ NeverForgotten' /\ Occupied' = Occupied
    BY <1>1, <2>1, ArraySame DEF Kept
  <2>4. \A k \in Occupied : k \in Nat /\
           (outgoingPublishPackets[k].packetId = p.packetId => k = index)
    BY <1>3, OutgoingAssumption DEF Kept, StoredOnce, Occupied, Slots
  <2>5. ASSUME NEW w \in Packets, Known(w)
        PROVE  Known(w)' /\ w.id # m.id
    BY <1>1, <2>1, <2>2, <2>3, <2>4, <2>5 DEF Known
  <2>6. Known(m)'
    <3>1. m.id \in records'
      BY <2>1, <2>2
    <3>2. ASSUME NEW k \in Occupied', outgoingPublishPackets'[k].packetId = m.id
          PROVE  outgoingPublishPackets'[k].number = m.number
      BY <1>1, <2>2, <2>3, <2>4, <3>2
    <3>3. index \in Occupied' /\ index < index'
          /\ outgoingPublishPackets'[index].packetId = m.id
      BY <1>1, <1>3, <2>2, <2>3
    <3>. QED  BY <3>1, <3>2, <3>3 DEF Known
  <2>7. Types'
    BY ResendTypes
  <2>8. OnWire'
    <3>1. OnWire /\ \A w \in Packets : Known(w) => Known(w)' /\ w.id # m.id
      BY <2>5 DEF Kept
    <3>. QED  BY <1>1, <2>1, <2>2, <2>6, <2>7, <3>1, SendKept
  <2>. QED  BY <2>3, <2>8 DEF Kept
<1>. QED  BY <1>2, <1>3

(* Packets that stay on the wire, or move up in it.                        *)
LEMMA MoveKept ==
    ASSUME Types, OnWire, NEW a \in {0, 1}, NEW b \in {0, 1},
           \A i \in Up' : i \in Nat /\ i + a \in Up /\ toBroker'[i] = toBroker[i + a],
           \A i \in Down' : i \in Nat /\ i + b \in Down /\ toClient'[i] = toClient[i + b],
           heard \subseteq heard',
           \A w \in Packets :
               /\ Known(w)
               /\ (\E i \in Up' : w = toBroker'[i]) \/ (\E i \in Down' : w = toClient'[i])
               => Known(w)'
    PROVE  OnWire'
<1>1. OneEach'
  <2>1. OneEach
    BY DEF OnWire
  <2>2. ASSUME NEW i \in Up', NEW j \in Up', toBroker'[i].id = toBroker'[j].id
        PROVE  i = j
    <3>1. i + a = j + a
      BY <2>1, <2>2 DEF OneEach
    <3>. QED  BY <3>1
  <2>3. ASSUME NEW i \in Down', NEW j \in Down', toClient'[i].id = toClient'[j].id
        PROVE  i = j
    <3>1. i + b = j + b
      BY <2>1, <2>3 DEF OneEach
    <3>. QED  BY <3>1
  <2>4. ASSUME NEW i \in Up', NEW j \in Down'
        PROVE  toBroker'[i].id # toClient'[j].id
    <3>1. /\ i + a \in Up /\ toBroker'[i] = toBroker[i + a]
          /\ j + b \in Down /\ toClient'[j] = toClient[j + b]
      OBVIOUS
    <3>. QED  BY <2>1, <3>1 DEF OneEach
  <2>. QED  BY <2>2, <2>3, <2>4 DEF OneEach
<1>2. /\ \A i \in Up : toBroker[i] \in Packets /\ Known(toBroker[i])
      /\ \A i \in Down : /\ toClient[i] \in Packets /\ Known(toClient[i])
                         /\ toClient[i].number \in heard
  BY Sent DEF OnWire, Up, Down, Packets
<1>3. ASSUME NEW i \in Up'
      PROVE  Known(toBroker[i])'
  <2>1. PICK w \in Packets : w = toBroker'[i] /\ Known(w)
    BY <1>2
  <2>2. Known(w)'
    BY <2>1
  <2>. QED  BY <2>1, <2>2 DEF Known
<1>4. ASSUME NEW i \in Down'
      PROVE  Known(toClient[i])' /\ toClient'[i].number \in heard'
  <2>1. PICK w \in Packets : w = toClient'[i] /\ Known(w) /\ w.number \in heard
    BY <1>2
  <2>2. Known(w)'
    BY <2>1
  <2>. QED  BY <2>1, <2>2 DEF Known
<1>. QED  BY <1>1, <1>3, <1>4 DEF OnWire

LEMMA RequestKept ==
    ASSUME Types, Kept, NEW f \in Filters, SubscribeToTopic(f) \/ UnsubscribeFromTopic(f)
    PROVE  Kept'
<1>1. PICK type \in {"subscribe", "unsubscribe"} :
         /\ Request(type, f)
         /\ \/ /\ globalSubscribePacketIdentifier' = nextPacketId
               /\ UNCHANGED globalUnsubscribePacketIdentifier
            \/ /\ globalUnsubscribePacketIdentifier' = nextPacketId
               /\ UNCHANGED globalSubscribePacketIdentifier
  BY DEF SubscribeToTopic, UnsubscribeFromTopic
<1>2. Packet(type, nextPacketId, number', f) \in RequestPackets /\ number' = number + 1
  BY <1>1, RequestTypes DEF Request
<1>3. PICK m \in RequestPackets : m = Packet(type, nextPacketId, number', f)
  BY <1>2
<1>4. /\ UNCHANGED <<outgoingPublishPackets, records, stored, heard, toClient>>
      /\ toBroker' = toBroker \/ toBroker' = Append(toBroker, m)
      /\ call' # "resend"
  BY <1>1, <1>3 DEF Request, Return, ghost
<1>5. StoredOnce' /\ Recorded' /\ NeverForgotten' /\ Occupied' = Occupied
  BY <1>4, ArraySame DEF Kept
<1>6. \A i \in Up' : i \in Nat /\ i \in Up /\ toBroker'[i] = toBroker[i]
  <2>1. CASE toBroker' = toBroker
    BY <2>1, Sent DEF Up
  <2>2. CASE toBroker' = Append(toBroker, m)
    <3>1. /\ DOMAIN toBroker' = DOMAIN toBroker \cup {Len(toBroker) + 1}
          /\ \A i \in DOMAIN toBroker : i \in Nat /\ toBroker'[i] = toBroker[i]
          /\ toBroker'[Len(toBroker) + 1] = m
      BY <2>2, AppendOf, Sent DEF Types
    <3>2. m.type # "publish"
      BY <1>3 DEF Packet
    <3>. QED  BY <3>1, <3>2 DEF Up
  <2>. QED  BY <1>4, <2>1, <2>2
<1>7. \A i \in Down' : i \in Nat /\ i \in Down /\ toClient'[i] = toClient[i]
  BY <1>4, Sent DEF Down
<1>8. \A w \in Packets : Known(w) => Known(w)'
  BY <1>4, <1>5 DEF Known
<1>9. OnWire'
  <2>1. /\ \A i \in Up' : i \in Nat /\ i + 0 \in Up /\ toBroker'[i] = toBroker[i + 0]
        /\ \A i \in Down' : i \in Nat /\ i + 0 \in Down /\ toClient'[i] = toClient[i + 0]
    BY <1>6, <1>7
  <2>2. OnWire /\ heard \subseteq heard'
    BY <1>4 DEF Kept
  <2>. QED  BY <1>8, <2>1, <2>2, MoveKept
<1>. QED  BY <1>5, <1>9 DEF Kept

LEMMA PublishKept ==
    ASSUME Types, Kept, NEW pointer \in {"constant", "buffer"}, PublishToTopic(pointer)
    PROVE  Kept'
<1>. DEFINE p == [packetId |-> nextPacketId, pointer |-> pointer, number |-> number']
            packets == [outgoingPublishPackets EXCEPT ![FirstFree] = p]
<1>1. FirstFree \in Slots /\ FirstFree \notin Occupied
      /\ outgoingPublishPackets[FirstFree] = NoPublish
  BY FreeFound DEF PublishToTopic, Occupied
<1>2. call' = "idle" /\ UNCHANGED <<toClient, heard>> /\ number' = number + 1
  BY DEF PublishToTopic, Return
<1>3. CASE UNCHANGED <<toBroker, records, stored>>
           /\ outgoingPublishPackets' = cleanupOutgoingPublishAt(packets, FirstFree)
  <2>1. outgoingPublishPackets' = outgoingPublishPackets
    BY <1>1, <1>3 DEF cleanupOutgoingPublishAt, Types, TypeOK
  <2>2. StoredOnce' /\ Recorded' /\ NeverForgotten' /\ Occupied' = Occupied
    BY <1>2, <1>3, <2>1, ArraySame DEF Kept
  <2>3. OnWire'
    <3>1. OnWire /\ UNCHANGED <<records, heard, toBroker, toClient>> /\ call' # "resend"
      BY <1>2, <1>3 DEF Kept
    <3>. QED  BY <2>1, <2>2, <3>1, WireSame
  <2>. QED  BY <2>2, <2>3 DEF Kept
<1>4. CASE PublishSent(p, FALSE) /\ outgoingPublishPackets' = packets
           /\ stored' = stored \cup {number'}
  <2>1. nextPacketId \in PacketIds /\ number' \in Numbers
    BY BoundsAssumption DEF PublishToTopic, MayRequest, Types, TypeOK, PacketIds, Numbers
  <2>2. Packet("publish", p.packetId, p.number, Content(p.pointer)) \in RequestPackets
    BY <2>1 DEF Packet, Content, RequestPackets, Types, TypeOK
  <2>3. PICK m \in RequestPackets :
              m = Packet("publish", p.packetId, p.number, Content(p.pointer))
    BY <2>2
  <2>4. m.type = "publish" /\ m.id = nextPacketId /\ m.number = number'
    BY <2>3 DEF Packet
  <2>5. /\ nextPacketId \notin records /\ records' = records \cup {nextPacketId}
        /\ toBroker' = Append(toBroker, m)
    BY <1>4, <2>3 DEF PublishSent
  <2>6. \A i \in Slots : outgoingPublishPackets'[i] =
                            IF i = FirstFree THEN p ELSE outgoingPublishPackets[i]
    BY <1>1, <1>4 DEF Types, TypeOK
  <2>7. p # NoPublish
    BY <2>1 DEF NoPublish, Numbers
  <2>8. Occupied' = Occupied \cup {FirstFree}
    BY <1>1, <2>6, <2>7 DEF Occupied
  <2>9. \A i \in Occupied : i \in Slots /\ i # FirstFree
    BY <1>1 DEF Occupied
  <2>10. p.packetId = nextPacketId /\ p.number = number'
    OBVIOUS
  <2>. HIDE DEF p, packets
  <2>11. StoredOnce' /\ Recorded'
    BY <1>1, <2>5, <2>6, <2>8, <2>9, <2>10 DEF Kept, StoredOnce, Recorded
  <2>12. NeverForgotten'
    <3>1. ASSUME NEW n \in stored', n \notin heard'
          PROVE  \E i \in Occupied' : n = outgoingPublishPackets'[i].number
      <4>1. CASE n = number'
        BY <1>1, <2>6, <2>8, <2>10, <4>1
      <4>2. CASE n \in stored
        <5>1. PICK i \in Occupied : n = outgoingPublishPackets[i].number
          BY <1>2, <3>1, <4>2 DEF Kept, NeverForgotten
        <5>. QED  BY <2>6, <2>8, <2>9, <5>1
      <4>. QED  BY <1>4, <4>1, <4>2
    <3>. QED  BY <3>1 DEF NeverForgotten
  <2>13. \A w \in Packets : Known(w) => Known(w)' /\ w.id # m.id
    BY <1>1, <1>2, <2>4, <2>5, <2>6, <2>8, <2>9, <2>10 DEF Known
  <2>14. Known(m)'
    <3>1. m.id \in records' /\ call' # "resend"
      BY <1>2, <2>4, <2>5
    <3>2. ASSUME NEW k \in Occupied', outgoingPublishPackets'[k].packetId = m.id
          PROVE  outgoingPublishPackets'[k].number = m.number
      <4>1. k = FirstFree
        BY <2>4, <2>5, <2>6, <2>8, <2>9, <3>2 DEF Kept, Recorded
      <4>. QED  BY <1>1, <2>4, <2>6, <2>10, <4>1
    <3>. QED  BY <3>1, <3>2 DEF Known
  <2>15. Types'
    BY PublishTypes
  <2>16. OnWire /\ UNCHANGED <<toClient, heard>>
    BY <1>2 DEF Kept
  <2>17. OnWire'
    BY <2>4, <2>5, <2>13, <2>14, <2>15, <2>16, SendKept
  <2>. QED  BY <2>11, <2>12, <2>17 DEF Kept
<1>. QED  BY <1>3, <1>4 DEF PublishToTopic

(* A PUBACK clears the publish it acknowledges, which the broker has, and   *)
(* no other packet on the wire has its identifier.                         *)
LEMMA ReceiveKept ==
    ASSUME Types, Kept, ReceivePacket
    PROVE  Kept'
<1>1. toClient \in Seq(AckPackets \cup MessagePackets) /\ toClient # <<>>
      /\ toClient' = Tail(toClient)
  BY DEF ReceivePacket, Types
<1>2. /\ Head(toClient) \in AckPackets \cup MessagePackets
      /\ Head(toClient) = toClient[1] /\ 1 \in DOMAIN toClient
      /\ \A i \in DOMAIN toClient' : /\ i \in Nat \ {0} /\ i + 1 \in DOMAIN toClient
                                     /\ toClient'[i] = toClient[i + 1]
  BY <1>1, TailOf
<1>3. PICK q \in AckPackets \cup MessagePackets : q = Head(toClient)
  BY <1>2
<1>4. /\ IF q.type = "publish" THEN Incoming(q) ELSE Acknowledge(q)
      /\ UNCHANGED <<index, toBroker, heard, stored>>
      /\ call # "resend"
  BY <1>3 DEF ReceivePacket, Waiting
<1>5. call' # "resend"
  BY <1>4 DEF Incoming, Acknowledge
<1>6. \A i \in Up' : i \in Nat /\ i + 0 \in Up /\ toBroker'[i] = toBroker[i + 0]
  BY <1>4, Sent DEF Up
<1>7. \A i \in Down' : i \in Nat \ {0} /\ i + 1 \in Down /\ toClient'[i] = toClient[i + 1]
  BY <1>2 DEF Down
<1>8. OnWire /\ heard \subseteq heard'
  BY <1>4 DEF Kept
<1>9. CASE q.type # "puback"
  <2>1. UNCHANGED <<outgoingPublishPackets, records>>
    BY <1>4, <1>9 DEF Incoming, Acknowledge
  <2>2. StoredOnce' /\ Recorded' /\ NeverForgotten' /\ Occupied' = Occupied
    BY <1>4, <2>1, ArraySame DEF Kept
  <2>3. \A w \in Packets : Known(w) => Known(w)'
    BY <1>5, <2>1, <2>2 DEF Known
  <2>4. OnWire'
    BY <1>6, <1>7, <1>8, <2>3, MoveKept
  <2>. QED  BY <2>2, <2>4 DEF Kept
<1>10. CASE q.type = "puback"
  <2>1. q.id \in PacketIds
    BY <1>10 DEF AckPackets, MessagePackets
  <2>2. outgoingPublishPackets' = Cleaned(q.id) /\ records' = records \ {q.id}
    BY <1>4, <1>10 DEF Acknowledge
  <2>3. \A i \in Slots : outgoingPublishPackets'[i] =
            IF outgoingPublishPackets[i].packetId = q.id THEN NoPublish
                                                         ELSE outgoingPublishPackets[i]
    BY <2>1, <2>2, CleanedAll DEF Types, Kept
  <2>4. Occupied' = {i \in Occupied : outgoingPublishPackets[i].packetId # q.id}
        /\ \A i \in Occupied' : outgoingPublishPackets'[i] = outgoingPublishPackets[i]
    BY <2>3 DEF Occupied
  <2>5. 1 \in Down /\ q = toClient[1]
    BY <1>2, <1>3, <1>10 DEF Down
  <2>6. q.number \in heard /\ \A k \in Occupied :
            outgoingPublishPackets[k].packetId = q.id
                => outgoingPublishPackets[k].number = q.number
    BY <1>8, <2>5 DEF OnWire, Known
  <2>7. StoredOnce' /\ Recorded'
    BY <2>2, <2>4 DEF Kept, StoredOnce, Recorded
  <2>8. NeverForgotten'
    <3>1. ASSUME NEW n \in stored, n \notin heard
          PROVE  \E i \in Occupied' : n = outgoingPublishPackets'[i].number
      <4>1. PICK i \in Occupied : n = outgoingPublishPackets[i].number
        BY <3>1 DEF Kept, NeverForgotten
      <4>2. outgoingPublishPackets[i].packetId # q.id
        BY <2>6, <3>1, <4>1
      <4>. QED  BY <2>4, <4>1, <4>2
    <3>. QED  BY <1>4, <3>1 DEF NeverForgotten
  <2>9. ASSUME NEW w \in Packets, Known(w),
               (\E i \in Up' : w = toBroker'[i]) \/ (\E i \in Down' : w = toClient'[i])
        PROVE  Known(w)'
    <3>1. w.id # q.id
      <4>1. CASE \E i \in Up' : w = toBroker'[i]
        <5>1. PICK i \in Up' : w = toBroker'[i]
          BY <4>1
        <5>2. i \in Up /\ w = toBroker[i]
          BY <1>4, <5>1 DEF Up
        <5>. QED  BY <1>8, <2>5, <5>2 DEF OnWire, OneEach
      <4>2. CASE \E i \in Down' : w = toClient'[i]
        <5>1. PICK i \in Down' : w = toClient'[i]
          BY <4>2
        <5>2. i \in Nat \ {0} /\ i + 1 \in Down /\ w = toClient[i + 1]
          BY <1>7, <5>1
        <5>3. i + 1 # 1
          BY <5>2
        <5>. QED  BY <1>8, <2>5, <5>2, <5>3 DEF OnWire, OneEach
      <4>. QED  BY <2>9, <4>1, <4>2
    <3>. QED  BY <1>5, <2>2, <2>4, <2>9, <3>1 DEF Known
  <2>10. OnWire'
    BY <1>6, <1>7, <1>8, <2>9, MoveKept
  <2>. QED  BY <2>7, <2>8, <2>10 DEF Kept
<1>. QED  BY <1>9, <1>10

(* The broker acknowledges a publish under its identifier.                 *)
LEMMA BrokerKept ==
    ASSUME Types, Kept, BrokerHandles \/ \E content \in Payloads : BrokerSends(content)
    PROVE  Kept'
<1>1. /\ UNCHANGED <<outgoingPublishPackets, records, stored, call, index>>
      /\ heard \subseteq heard'
  BY DEF BrokerHandles, BrokerSends, client, caller, ghost
<1>2. StoredOnce' /\ Recorded' /\ NeverForgotten' /\ Occupied' = Occupied
  BY <1>1, ArraySame DEF Kept
<1>3. \A w \in Packets : Known(w) => Known(w)'
  BY <1>1, <1>2 DEF Known
<1>4. OnWire /\ Types'
  BY BrokerTypes DEF Kept
<1>5. ASSUME NEW m \in AckPackets \cup MessagePackets, m.type # "puback",
             toClient' = Append(toClient, m)
      PROVE  \A i \in Down' : i \in Nat /\ i + 0 \in Down /\ toClient'[i] = toClient[i + 0]
  <2>1. /\ DOMAIN toClient' = DOMAIN toClient \cup {Len(toClient) + 1}
        /\ \A i \in DOMAIN toClient : i \in Nat /\ toClient'[i] = toClient[i]
        /\ toClient'[Len(toClient) + 1] = m
    BY <1>5, AppendOf, Sent DEF Types
  <2>. QED  BY <1>5, <2>1 DEF Down
<1>6. CASE \E content \in Payloads : BrokerSends(content)
  <2>1. PICK content \in Payloads : BrokerSends(content)
    BY <1>6
  <2>2. Packet("publish", 0, 0, content) \in MessagePackets
    BY DEF Packet, MessagePackets
  <2>3. PICK m \in MessagePackets : m = Packet("publish", 0, 0, content)
    BY <2>2
  <2>4. m.type # "puback" /\ toClient' = Append(toClient, m) /\ toBroker' = toBroker
    BY <2>1, <2>3 DEF BrokerSends, Packet
  <2>5. \A i \in Up' : i \in Nat /\ i + 0 \in Up /\ toBroker'[i] = toBroker[i + 0]
    BY <2>4, Sent DEF Up
  <2>6. \A i \in Down' : i \in Nat /\ i + 0 \in Down /\ toClient'[i] = toClient[i + 0]
    BY <1>5, <2>4
  <2>7. OnWire'
    BY <1>1, <1>3, <1>4, <2>5, <2>6, MoveKept
  <2>. QED  BY <1>2, <2>7 DEF Kept
<1>7. CASE BrokerHandles
  <2>. DEFINE ack == [subscribe |-> "suback", unsubscribe |-> "unsuback",
                      publish |-> "puback"]
  <2>1. toBroker \in Seq(RequestPackets) /\ toBroker # <<>> /\ toBroker' = Tail(toBroker)
    BY <1>7 DEF BrokerHandles, Types
  <2>2. /\ Head(toBroker) \in RequestPackets
        /\ Head(toBroker) = toBroker[1] /\ 1 \in DOMAIN toBroker
        /\ \A i \in DOMAIN toBroker' : /\ i \in Nat \ {0} /\ i + 1 \in DOMAIN toBroker
                                       /\ toBroker'[i] = toBroker[i + 1]
    BY <2>1, TailOf
  <2>3. PICK q \in RequestPackets : q = Head(toBroker)
    BY <2>2
  <2>4. /\ \/ toClient' = Append(toClient, Packet(ack[q.type], q.id, q.number, Empty))
           \/ q.type = "publish" /\ UNCHANGED toClient
        /\ heard' = IF q.type = "publish" THEN heard \cup {q.number} ELSE heard
    BY <1>7, <2>3 DEF BrokerHandles
  <2>5. Packet(ack[q.type], q.id, q.number, Empty) \in AckPackets
    BY DEF Packet, RequestPackets, AckPackets
  <2>6. PICK m \in AckPackets : m = Packet(ack[q.type], q.id, q.number, Empty)
    BY <2>5
  <2>7. /\ m.id = q.id /\ m.number = q.number
        /\ m.type = "puback" <=> q.type = "publish"
    BY <2>6 DEF Packet, RequestPackets
  <2>. HIDE DEF ack
  <2>8. \A i \in Up' : i \in Nat \ {0} /\ i + 1 \in Up /\ toBroker'[i] = toBroker[i + 1]
    BY <2>2 DEF Up
  <2>9. CASE toClient' = toClient
    <3>1. \A i \in Down' : i \in Nat /\ i + 0 \in Down /\ toClient'[i] = toClient[i + 0]
      BY <2>9, Sent DEF Down
    <3>2. OnWire'
      BY <1>1, <1>3, <1>4, <2>8, <3>1, MoveKept
    <3>. QED  BY <1>2, <3>2 DEF Kept
  <2>10. CASE toClient' = Append(toClient, m) /\ q.type # "publish"
    <3>1. \A i \in Down' : i \in Nat /\ i + 0 \in Down /\ toClient'[i] = toClient[i + 0]
      BY <1>5, <2>7, <2>10
    <3>2. OnWire'
      BY <1>1, <1>3, <1>4, <2>8, <3>1, MoveKept
    <3>. QED  BY <1>2, <3>2 DEF Kept
  <2>11. CASE toClient' = Append(toClient, m) /\ q.type = "publish"
    <3>. DEFINE n == Len(toClient) + 1
    <3>1. /\ DOMAIN toClient' = DOMAIN toClient \cup {n} /\ n \notin DOMAIN toClient
          /\ \A i \in DOMAIN toClient : toClient'[i] = toClient[i]
          /\ toClient'[n] = m
      BY <2>11, AppendOf DEF Types
    <3>. HIDE DEF n
    <3>2. Down' = Down \cup {n} /\ n \notin Down
          /\ \A i \in Down : toClient'[i] = toClient[i]
      BY <2>7, <2>11, <3>1 DEF Down
    <3>3. 1 \in Up /\ toBroker[1] = q /\ Known(q) /\ q \in Packets
      BY <1>4, <2>2, <2>3, <2>11 DEF Up, OnWire, Packets
    <3>4. Known(q)'
      BY <1>3, <3>3
    <3>5. Known(m)'
      BY <2>7, <3>4 DEF Known
    <3>6. /\ \A i \in Up : toBroker[i] \in Packets /\ Known(toBroker[i])
          /\ \A i \in Down : /\ toClient[i] \in Packets /\ Known(toClient[i])
                             /\ toClient[i].number \in heard
      BY <1>4, Sent DEF OnWire, Up, Down, Packets
    <3>7. /\ \A i \in Down : toClient[i].id # m.id
          /\ \A i \in Up : i # 1 => toBroker[i].id # m.id
      BY <1>4, <2>7, <3>3 DEF OnWire, OneEach
    <3>8. OneEach'
      <4>1. OneEach
        BY <1>4 DEF OnWire
      <4>2. ASSUME NEW i \in Up', NEW j \in Up', toBroker'[i].id = toBroker'[j].id
            PROVE  i = j
        <5>1. i + 1 = j + 1
          BY <2>8, <4>1, <4>2 DEF OneEach
        <5>. QED  BY <2>8, <5>1
      <4>3. ASSUME NEW i \in Down', NEW j \in Down', toClient'[i].id = toClient'[j].id
            PROVE  i = j
        BY <3>1, <3>2, <3>7, <4>1, <4>3 DEF OneEach
      <4>4. ASSUME NEW i \in Up', NEW j \in Down'
            PROVE  toBroker'[i].id # toClient'[j].id
        <5>1. i + 1 \in Up /\ i + 1 # 1 /\ toBroker'[i] = toBroker[i + 1]
          BY <2>8
        <5>2. CASE j \in Down
          <6>1. toClient'[j] = toClient[j]
            BY <3>2, <5>2
          <6>. QED  BY <4>1, <5>1, <5>2, <6>1 DEF OneEach
        <5>3. CASE j = n
          <6>1. toClient'[j] = m
            BY <3>1, <5>3
          <6>. QED  BY <3>7, <5>1, <6>1
        <5>. QED  BY <3>2, <5>2, <5>3
      <4>. QED  BY <4>2, <4>3, <4>4 DEF OneEach
    <3>9. ASSUME NEW i \in Up'
          PROVE  Known(toBroker[i])'
      <4>1. PICK w \in Packets : w = toBroker'[i] /\ Known(w)
        BY <2>8, <3>6
      <4>2. Known(w)'
        BY <1>3, <4>1
      <4>. QED  BY <4>1, <4>2 DEF Known
    <3>10. ASSUME NEW i \in Down'
           PROVE  Known(toClient[i])' /\ toClient'[i].number \in heard'
      <4>1. CASE i \in Down
        <5>1. PICK w \in Packets : w = toClient[i] /\ Known(w) /\ w.number \in heard
          BY <3>6, <4>1
        <5>2. toClient'[i] = w /\ Known(w)'
          BY <1>3, <3>2, <4>1, <5>1
        <5>. QED  BY <1>1, <5>1, <5>2 DEF Known
      <4>2. CASE i = n
        <5>1. toClient'[i] = m /\ m.number \in heard'
          BY <2>4, <2>7, <2>11, <3>1, <4>2
        <5>. QED  BY <3>5, <5>1 DEF Known
      <4>. QED  BY <3>2, <4>1, <4>2
    <3>11. OnWire'
      BY <3>8, <3>9, <3>10 DEF OnWire
    <3>. QED  BY <1>2, <3>11 DEF Kept
  <2>. QED  BY <2>4, <2>6, <2>9, <2>10, <2>11
<1>. QED  BY <1>6, <1>7

LEMMA KeptStep ==
    ASSUME Types, Kept, [Next]_vars
    PROVE  Kept'
BY ConnectKept, ResendKept, RequestKept, PublishKept, ReceiveKept, BrokerKept, QuietKept
   DEF Next, Application, Library, Quiet

-----------------------------------------------------------------------------
(* The answers of the first connection, action by action.                  *)
Answers == First /\ AnswerIsOwn

LEMMA ConnectAnswers ==
    ASSUME Types, Answers,
           \/ ConnectFails \/ SessionFails \/ Disconnect
           \/ \E sessionPresent \in BOOLEAN : Establish(sessionPresent)
    PROVE  Answers'
<1>1. connections \in Nat
  BY BoundsAssumption DEF Types, TypeOK
<1>2. CASE ConnectFails \/ SessionFails
  <2>1. /\ connections' = connections + 1 /\ call' = "idle"
        /\ result'.function = "establish"
        /\ UNCHANGED <<toBroker, toClient>>
    BY <1>2 DEF ConnectFails, SessionFails, Connectable, Return, broker
  <2>2. connections' = 1 => DOMAIN toBroker' = {} /\ DOMAIN toClient' = {}
    BY <1>1, <2>1 DEF Answers, First
  <2>. QED  BY <1>1, <2>1, <2>2 DEF Answers, First, AnswerIsOwn, AckMatchesRequest
<1>3. CASE Disconnect
  <2>1. /\ connections' = connections /\ connection # "none" /\ call' = "idle"
        /\ result'.function = "disconnect"
        /\ toBroker' = <<>> /\ toClient' = <<>>
    BY <1>3 DEF Disconnect, Return, ghost
  <2>. QED  BY <2>1 DEF Answers, First, AnswerIsOwn, AckMatchesRequest
<1>4. ASSUME NEW sessionPresent \in BOOLEAN, Establish(sessionPresent)
      PROVE  Answers'
  <2>1. /\ connections' = connections + 1 /\ (sessionPresent => session)
        /\ toBroker' = <<>> /\ toClient' = <<>>
        /\ ~sessionPresent => call' = "idle" /\ result'.function = "establish"
        /\ sessionPresent => call' = "resend" /\ UNCHANGED outgoingPublishPackets
    BY <1>4 DEF Establish, Return
  <2>2. connections' # 0
    BY <1>1, <2>1
  <2>3. connections' = 1 /\ call' = "resend" => Occupied' = {}
    BY <1>1, <2>1 DEF Answers, First, Occupied
  <2>. QED  BY <2>1, <2>2, <2>3 DEF Answers, First, AnswerIsOwn, AckMatchesRequest
<1>. QED  BY <1>2, <1>3, <1>4

(* The identifier of a request is above all that are on the wire.          *)
LEMMA RequestAnswers ==
    ASSUME Types, Answers, NEW f \in Filters,
           SubscribeToTopic(f) \/ UnsubscribeFromTopic(f)
    PROVE  Answers'
<1>1. PICK type \in {"subscribe", "unsubscribe"} :
         /\ Request(type, f)
         /\ \/ /\ globalSubscribePacketIdentifier' = nextPacketId
               /\ UNCHANGED globalUnsubscribePacketIdentifier
            \/ /\ globalUnsubscribePacketIdentifier' = nextPacketId
               /\ UNCHANGED globalSubscribePacketIdentifier
  BY DEF SubscribeToTopic, UnsubscribeFromTopic
<1>2. Packet(type, nextPacketId, number', f) \in RequestPackets
  BY <1>1, RequestTypes DEF Request
<1>3. PICK m \in RequestPackets : m = Packet(type, nextPacketId, number', f)
  BY <1>2
<1>4. /\ connections' = connections /\ connection # "none"
      /\ nextPacketId' = nextPacketId + 1 /\ nextPacketId \in Nat \ {0}
      /\ toClient' = toClient
  BY <1>1, BoundsAssumption DEF Request, MayRequest, Types, TypeOK, ghost
<1>5. CASE /\ toBroker' = toBroker /\ call' = "idle"
           /\ result' = [function |-> type, ok |-> FALSE]
  <2>1. ~result'.ok /\ call' \notin {"resend", "subscribe", "unsubscribe"}
    BY <1>5
  <2>2. /\ \A i \in DOMAIN toBroker : toBroker[i].id \in Nat
        /\ \A i \in DOMAIN toClient : toClient[i].id \in Nat
    BY Sent DEF PacketIds
  <2>. QED  BY <1>4, <1>5, <2>1, <2>2 DEF Answers, First, AnswerIsOwn, AckMatchesRequest
<1>6. CASE /\ toBroker' = Append(toBroker, m) /\ globalAckPacketIdentifier' = 0
           /\ expected' = nextPacketId /\ call' = type
  <2>1. /\ DOMAIN toBroker' = DOMAIN toBroker \cup {Len(toBroker) + 1}
        /\ \A i \in DOMAIN toBroker : toBroker'[i] = toBroker[i]
        /\ toBroker'[Len(toBroker) + 1] = m
    BY <1>6, AppendOf DEF Types
  <2>2. m.id = nextPacketId /\ m.number = number'
    BY <1>3 DEF Packet
  <2>3. /\ \A i \in DOMAIN toBroker : toBroker[i].id \in Nat
        /\ \A i \in DOMAIN toClient : toClient[i].id \in Nat
    BY Sent DEF PacketIds
  <2>4. connections = 1 =>
          /\ \A i \in DOMAIN toBroker : toBroker[i].id < nextPacketId
          /\ \A i \in DOMAIN toClient : toClient[i].id < nextPacketId
    BY DEF Answers, First
  <2>5. connections' # 0
    BY <1>4 DEF Answers, First
  <2>6. First'
    <3>1. ASSUME connections' = 1
          PROVE  /\ \A i \in DOMAIN toBroker' :
                       /\ toBroker'[i].id < nextPacketId'
                       /\ toBroker'[i].id = expected' => toBroker'[i].number = number'
                 /\ \A i \in DOMAIN toClient' :
                       /\ toClient'[i].id < nextPacketId'
                       /\ toClient'[i].id # expected'
      <4>1. ASSUME NEW i \in DOMAIN toBroker'
            PROVE  /\ toBroker'[i].id < nextPacketId'
                   /\ toBroker'[i].id = expected' => toBroker'[i].number = number'
        <5>1. CASE i \in DOMAIN toBroker
          BY <1>4, <1>6, <2>1, <2>3, <2>4, <3>1, <5>1
        <5>2. CASE i = Len(toBroker) + 1
          BY <1>4, <2>1, <2>2, <5>2
        <5>. QED  BY <2>1, <5>1, <5>2
      <4>. QED  BY <1>4, <1>6, <2>3, <2>4, <3>1, <4>1
    <3>2. globalAckPacketIdentifier' # expected' /\ call' # "resend"
      BY <1>4, <1>6
    <3>. QED  BY <2>5, <3>1, <3>2 DEF First
  <2>7. AnswerIsOwn'
    BY <1>6 DEF AnswerIsOwn, AckMatchesRequest
  <2>. QED  BY <2>6, <2>7 DEF Answers
<1>. QED  BY <1>1, <1>3, <1>5, <1>6 DEF Request, Return

LEMMA PublishAnswers ==
    ASSUME Types, Answers, NEW pointer \in {"constant", "buffer"}, PublishToTopic(pointer)
    PROVE  Answers'
<1>1. /\ connections' = connections /\ connection # "none"
      /\ nextPacketId' = nextPacketId + 1 /\ nextPacketId \in Nat
      /\ toClient' = toClient /\ call' = "idle" /\ result'.function = "publish"
  <2>1. /\ connections' = connections /\ connection # "none"
        /\ nextPacketId' = nextPacketId + 1 /\ toClient' = toClient
    BY DEF PublishToTopic, MayRequest
  <2>2. Return("publish", TRUE) \/ Return("publish", FALSE)
    BY DEF PublishToTopic
  <2>3. nextPacketId \in Nat
    BY BoundsAssumption DEF Types, TypeOK
  <2>. QED  BY <2>1, <2>2, <2>3 DEF Return
<1>2. nextPacketId \in PacketIds /\ number' \in Numbers
  BY BoundsAssumption DEF PublishToTopic, MayRequest, Types, TypeOK, PacketIds, Numbers
<1>3. \A i \in DOMAIN toBroker' :
         \/ toBroker'[i].id = nextPacketId
         \/ i \in DOMAIN toBroker /\ toBroker'[i] = toBroker[i]
  <2>. DEFINE p == [packetId |-> nextPacketId, pointer |-> pointer, number |-> number']
  <2>1. toBroker' = toBroker \/ PublishSent(p, FALSE)
    BY DEF PublishToTopic
  <2>2. CASE PublishSent(p, FALSE)
    <3>1. Packet("publish", p.packetId, p.number, Content(p.pointer)) \in RequestPackets
      BY <1>2 DEF Packet, Content, RequestPackets, Types, TypeOK
    <3>2. PICK m \in RequestPackets :
                m = Packet("publish", p.packetId, p.number, Content(p.pointer))
      BY <3>1
    <3>3. toBroker' = Append(toBroker, m) /\ m.id = nextPacketId
      BY <2>2, <3>2 DEF PublishSent, Packet
    <3>. HIDE DEF p
    <3>4. /\ DOMAIN toBroker' = DOMAIN toBroker \cup {Len(toBroker) + 1}
          /\ \A i \in DOMAIN toBroker : toBroker'[i] = toBroker[i]
          /\ toBroker'[Len(toBroker) + 1] = m
      BY <3>3, AppendOf DEF Types
    <3>. QED  BY <3>3, <3>4
  <2>. QED  BY <2>1, <2>2
<1>4. /\ \A i \in DOMAIN toBroker : toBroker[i].id \in Nat
      /\ \A i \in DOMAIN toClient : toClient[i].id \in Nat
  BY Sent DEF PacketIds
<1>5. ASSUME connections' = 1
      PROVE  /\ \A i \in DOMAIN toBroker' : toBroker'[i].id < nextPacketId'
             /\ \A i \in DOMAIN toClient' : toClient'[i].id < nextPacketId'
  BY <1>1, <1>3, <1>4, <1>5 DEF Answers, First
<1>6. connections' # 0 /\ call' \notin {"resend", "subscribe", "unsubscribe"}
  BY <1>1 DEF Answers, First
<1>. QED  BY <1>1, <1>5, <1>6 DEF Answers, First, AnswerIsOwn, AckMatchesRequest

(* The acknowledgement that ends the wait is that of the call's request.   *)
LEMMA ReceiveAnswers ==
    ASSUME Types, Answers, ReceivePacket
    PROVE  Answers'
<1>1. toClient \in Seq(AckPackets \cup MessagePackets) /\ toClient # <<>>
      /\ toClient' = Tail(toClient)
  BY DEF ReceivePacket, Types
<1>2. /\ Head(toClient) \in AckPackets \cup MessagePackets
      /\ Head(toClient) = toClient[1] /\ 1 \in DOMAIN toClient
      /\ \A i \in DOMAIN toClient' : /\ i + 1 \in DOMAIN toClient
                                     /\ toClient'[i] = toClient[i + 1]
  BY <1>1, TailOf
<1>3. PICK q \in AckPackets \cup MessagePackets : q = toClient[1]
  BY <1>2
<1>4. /\ UNCHANGED <<connections, nextPacketId, expected, number, toBroker>>
      /\ connection = "up"
      /\ call \in {"process", "subscribe", "unsubscribe"}
      /\ IF q.type = "publish" THEN Incoming(q) ELSE Acknowledge(q)
  BY <1>2, <1>3 DEF ReceivePacket, Waiting
<1>5. /\ call' \in {call, "aborted"} /\ answered \subseteq answered'
      /\ \/ globalAckPacketIdentifier' = globalAckPacketIdentifier
         \/ /\ globalAckPacketIdentifier' = q.id /\ q.number \in answered'
            /\ q.type # "publish"
  BY <1>4 DEF Incoming, Acknowledge
<1>6. connections' # 0 /\ call' \notin {"resend", "idle"}
  BY <1>4, <1>5 DEF Answers, First
<1>7. ASSUME connections' = 1, call' \in {"subscribe", "unsubscribe"},
             globalAckPacketIdentifier' = expected'
      PROVE  number' \in answered'
  <2>1. CASE globalAckPacketIdentifier' = globalAckPacketIdentifier
    BY <1>4, <1>5, <1>7, <2>1 DEF Answers, First
  <2>2. CASE /\ globalAckPacketIdentifier' = q.id /\ q.number \in answered'
             /\ q.type # "publish"
    <3>1. q.number = number
      BY <1>2, <1>3, <1>4, <1>5, <1>7, <2>2 DEF Answers, First
    <3>. QED  BY <1>4, <2>2, <3>1
  <2>. QED  BY <1>5, <2>1, <2>2
<1>8. ASSUME connections' = 1
      PROVE  /\ \A i \in DOMAIN toBroker' : toBroker'[i].id < nextPacketId'
             /\ \A i \in DOMAIN toClient' : toClient'[i].id < nextPacketId'
             /\ call' \in {"subscribe", "unsubscribe"} =>
                  /\ \A i \in DOMAIN toBroker' :
                        toBroker'[i].id = expected' => toBroker'[i].number = number'
                  /\ \A i \in DOMAIN toClient' :
                        toClient'[i].id = expected' =>
                          toClient'[i].type = "publish" \/ toClient'[i].number = number'
  BY <1>2, <1>4, <1>5, <1>8 DEF Answers, First
<1>9. First'
  BY <1>6, <1>7, <1>8 DEF First
<1>. QED  BY <1>6, <1>9 DEF Answers, AnswerIsOwn, AckMatchesRequest

LEMMA BrokerAnswers ==
    ASSUME Types, Answers,
           BrokerHandles \/ \E content \in Payloads : BrokerSends(content)
    PROVE  Answers'
<1>1. /\ UNCHANGED <<connections, nextPacketId, expected, number, call, result,
                     answered, globalAckPacketIdentifier, outgoingPublishPackets>>
      /\ connection = "up" /\ Occupied' = Occupied
  BY DEF BrokerHandles, BrokerSends, client, caller, ghost, Occupied
<1>2. connections' # 0 /\ AnswerIsOwn' /\ nextPacketId \in Nat \ {0}
  BY <1>1, BoundsAssumption DEF Answers, First, AnswerIsOwn, AckMatchesRequest, Types, TypeOK
<1>3. /\ \A i \in DOMAIN toBroker' :
            \E j \in DOMAIN toBroker : toBroker'[i] = toBroker[j]
      /\ \A i \in DOMAIN toClient' :
            \/ \E j \in DOMAIN toClient : toClient'[i] = toClient[j]
            \/ \E j \in DOMAIN toBroker : /\ toClient'[i].id = toBroker[j].id
                                          /\ toClient'[i].number = toBroker[j].number
            \/ toClient'[i].id = 0 /\ toClient'[i].type = "publish"
  <2>1. ASSUME NEW m \in AckPackets \cup MessagePackets,
               toClient' = Append(toClient, m)
        PROVE  \A i \in DOMAIN toClient' :
                  toClient'[i] = m \/ \E j \in DOMAIN toClient : toClient'[i] = toClient[j]
    <3>1. /\ DOMAIN toClient' = DOMAIN toClient \cup {Len(toClient) + 1}
          /\ \A i \in DOMAIN toClient : toClient'[i] = toClient[i]
          /\ toClient'[Len(toClient) + 1] = m
      BY <2>1, AppendOf DEF Types
    <3>. QED  BY <3>1
  <2>2. CASE \E content \in Payloads : BrokerSends(content)
    <3>1. PICK content \in Payloads : BrokerSends(content)
      BY <2>2
    <3>2. Packet("publish", 0, 0, content) \in MessagePackets
      BY DEF Packet, MessagePackets
    <3>3. PICK m \in MessagePackets : m = Packet("publish", 0, 0, content)
      BY <3>2
    <3>4. toClient' = Append(toClient, m) /\ toBroker' = toBroker
          /\ m.id = 0 /\ m.type = "publish"
      BY <3>1, <3>3 DEF BrokerSends, Packet
    <3>. QED  BY <2>1, <3>4
  <2>3. CASE BrokerHandles
    <3>. DEFINE ack == [subscribe |-> "suback", unsubscribe |-> "unsuback",
                        publish |-> "puback"]
    <3>1. toBroker \in Seq(RequestPackets) /\ toBroker # <<>>
          /\ toBroker' = Tail(toBroker)
      BY <2>3 DEF BrokerHandles, Types
    <3>2. /\ Head(toBroker) \in RequestPackets
          /\ Head(toBroker) = toBroker[1] /\ 1 \in DOMAIN toBroker
          /\ \A i \in DOMAIN toBroker' : /\ i + 1 \in DOMAIN toBroker
                                         /\ toBroker'[i] = toBroker[i + 1]
      BY <3>1, TailOf
    <3>3. PICK q \in RequestPackets : q = Head(toBroker)
      BY <3>2
    <3>4. \/ toClient' = Append(toClient, Packet(ack[q.type], q.id, q.number, Empty))
          \/ UNCHANGED toClient
      BY <2>3, <3>3 DEF BrokerHandles
    <3>5. Packet(ack[q.type], q.id, q.number, Empty) \in AckPackets
      BY DEF Packet, RequestPackets, AckPackets
    <3>6. PICK m \in AckPackets : m = Packet(ack[q.type], q.id, q.number, Empty)
      BY <3>5
    <3>7. m.id = q.id /\ m.number = q.number
      BY <3>6 DEF Packet
    <3>. HIDE DEF ack
    <3>8. \A i \in DOMAIN toBroker' :
             \E j \in DOMAIN toBroker : toBroker'[i] = toBroker[j]
      BY <3>2
    <3>9. CASE toClient' = Append(toClient, m)
      BY <2>1, <3>2, <3>3, <3>7, <3>8, <3>9
    <3>10. CASE toClient' = toClient
      BY <3>8, <3>10
    <3>. QED  BY <3>4, <3>6, <3>9, <3>10
  <2>. QED  BY <2>2, <2>3
<1>4. ASSUME connections' = 1
      PROVE  /\ \A i \in DOMAIN toBroker' : toBroker'[i].id < nextPacketId'
             /\ \A i \in DOMAIN toClient' : toClient'[i].id < nextPacketId'
  BY <1>1, <1>2, <1>3, <1>4 DEF Answers, First
<1>5. ASSUME connections' = 1, call' \in {"subscribe", "unsubscribe"}
      PROVE  /\ \A i \in DOMAIN toBroker' :
                   toBroker'[i].id = expected' => toBroker'[i].number = number'
             /\ \A i \in DOMAIN toClient' :
                   toClient'[i].id = expected' =>
                      toClient'[i].type = "publish" \/ toClient'[i].number = number'
  BY <1>1, <1>3, <1>5 DEF Answers, First
<1>6. First'
  BY <1>1, <1>2, <1>4, <1>5 DEF Answers, First
<1>. QED  BY <1>2, <1>6 DEF Answers

LEMMA QuietAnswers ==
    ASSUME Types, Answers, Quiet \/ ResendOne
    PROVE  Answers'
<1>1. UNCHANGED <<connections, nextPacketId, expected, toClient, session, answered,
                  globalAckPacketIdentifier, outgoingPublishPackets>>
      /\ Occupied' = Occupied
  BY DEF Quiet, ResendOne, ResendEnds, PublishRefused, ProcessLoopWithTimeout, WaitEnds,
         ProcessEnds, ConnectionBreaks, FillBuffer, Return, vars, client, caller, broker,
         ghost, Occupied
<1>2. CASE ConnectionBreaks \/ UNCHANGED vars
  BY <1>1, <1>2 DEF ConnectionBreaks, vars, client, caller, broker, ghost, Answers, First,
                    AnswerIsOwn, AckMatchesRequest
<1>3. CASE \E content \in Payloads : FillBuffer(content)
  BY <1>1, <1>3 DEF FillBuffer, client, caller, broker, ghost, Answers, First,
                    AnswerIsOwn, AckMatchesRequest
<1>4. CASE WaitEnds
  BY <1>1, <1>4 DEF WaitEnds, Return, client, broker, Answers, First, AnswerIsOwn, AckMatchesRequest
<1>5. CASE ResendEnds \/ PublishRefused \/ ProcessLoopWithTimeout \/ ProcessEnds
  BY <1>1, <1>5 DEF ResendEnds, PublishRefused, MayRequest, ProcessLoopWithTimeout, Return,
                    ProcessEnds, client, broker, Answers, First, AnswerIsOwn, AckMatchesRequest
<1>6. CASE ResendOne
  BY <1>1, <1>6 DEF ResendOne, Answers, First, AnswerIsOwn, AckMatchesRequest
<1>. QED  BY <1>2, <1>3, <1>4, <1>5, <1>6 DEF Quiet

LEMMA AnswersStep ==
    ASSUME Types, Answers, [Next]_vars
    PROVE  Answers'
BY ConnectAnswers, RequestAnswers, PublishAnswers, ReceiveAnswers, BrokerAnswers,
   QuietAnswers DEF Next, Application, Library, Quiet

-----------------------------------------------------------------------------
LEMMA Preserved == IndInv /\ [Next]_vars => IndInv'
BY TypesStep, KeptStep, AnswersStep DEF IndInv, Kept, Answers

(* The inductive invariant holds in every state.                           *)
THEOREM Invariance == Spec => []IndInv
BY InitInv, Preserved, PTL DEF Spec

(* Every variable keeps its type: identifiers and request numbers never     *)
(* pass their bounds and the array only ever holds publishes that were     *)
(* stored (mqtt_operations.c:235).                                         *)
THEOREM TypeCorrect == Spec => []TypeOK
<1>1. IndInv => TypeOK
  BY DEF IndInv, Types
<1>. QED  BY Invariance, <1>1, PTL

(* Although identifiers start again at 1 with every MQTT_Init, no two       *)
(* stored publishes share one, so cleanupOutgoingPublishWithPacketID clears *)
(* the publish that was acknowledged.                                      *)
THEOREM PublishesStoredOnce == Spec => []StoredOnce
<1>1. IndInv => StoredOnce
  BY DEF IndInv
<1>. QED  BY Invariance, <1>1, PTL

(* A publish that PublishToTopic accepted stays in the array until the      *)
(* broker has it, over any number of connections of one session.           *)
THEOREM PublishesNeverForgotten == Spec => []NeverForgotten
<1>1. IndInv => NeverForgotten
  BY DEF IndInv
<1>. QED  BY Invariance, <1>1, PTL

(* In the first connection waitForPacketAck only returns true on the        *)
(* acknowledgement of its own request.                                     *)
THEOREM AnswersAreOwn == Spec => []AnswerIsOwn
<1>1. IndInv => AnswerIsOwn
  BY DEF IndInv
<1>. QED  BY Invariance, <1>1, PTL
==============================================================================
