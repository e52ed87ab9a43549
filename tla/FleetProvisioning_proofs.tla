------------------------ MODULE FleetProvisioning_proofs ------------------------
(***************************************************************************)
(* Proofs about FleetProvisioning, for any bounds on key pairs, repeated    *)
(* responses, power losses, iterations, requests and connections.          *)
(***************************************************************************)
EXTENDS FleetProvisioning, MqttOperations_proofs

\* The step is one the flow has not abandoned.
Running == pc = "script" /\ status
Asks == Step.run \in {"subscribe", "unsubscribe", "lastUnsubscribe"}

(* Where a step that has been started is: in the function of MqttOperations *)
(* it called, or back from it; some steps call none.                       *)
CallsOf(run) ==
    CASE run = "establish" -> {"idle", "resend"}
      [] run = "subscribe" -> {"idle", "subscribe"}
      [] run \in {"unsubscribe", "lastUnsubscribe"} -> {"idle", "unsubscribe"}
      [] run = "respond" -> {"idle", "process"}
      [] run = "publish" -> {"idle"}
      [] OTHER -> {}

(* Every start of the program runs the script once: a failed iteration      *)
(* leaves status false.                                                    *)
Shape ==
    /\ started => Running \/ pc = "device"
    /\ pc = "device" => status
    /\ call # "idle" => started
    /\ Running => IF at = 1 /\ ~started THEN connections = 0 ELSE connections <= 1
    /\ started /\ Running => call \in CallsOf(Step.run)
    /\ started /\ pc = "device" => call \in {"idle", "resend"}
    /\ pc # "script" /\ status => at >= 18
    /\ pc # "returned" => demoRunCount < MaxLoopCount

(* The way to success: an established session, and then its result.         *)
Reached ==
    /\ pc = "device" /\ started /\ (call = "resend" \/ result.ok) => Usable
    /\ pc \in {"closeDevice", "retry", "returned"} /\ status => Usable
    /\ returned = "success" => pc = "returned" /\ status

\* A request to register a thing, on the wire.
Registers(p) == p.type = "publish" /\ p.data # Empty /\ p.data.kind = "request"
Same(n) == storedKey = n /\ storedCertificate = n

(* What the cloud may be asked to register is what the store holds.         *)
Asked ==
    /\ Running /\ at <= 9 =>
          /\ payloadBuffer.kind # "request"
          /\ \A i \in DOMAIN toBroker : ~Registers(toBroker[i])
    /\ payloadBuffer.kind = "request" => Same(payloadBuffer.id)
    /\ \A i \in DOMAIN toBroker : Registers(toBroker[i]) => Same(toBroker[i].data.id)
    /\ Running /\ at >= 8 => storedKey = certificate
    /\ Running /\ at >= 10 => storedCertificate = certificate

\* The subscribes and unsubscribes on the wire and their acknowledgements.
CtlUp == {i \in DOMAIN toBroker : toBroker[i].type # "publish"}
CtlDown == {i \in DOMAIN toClient : toClient[i].type \in {"suback", "unsuback"}}
Outstanding == CtlUp # {} \/ CtlDown # {}

\* The step is a request without its acknowledgement.
Waits ==
    /\ started /\ Asks
    /\ IF call = "idle" THEN ~result.ok ELSE globalAckPacketIdentifier # expected

(* One of them at most, and the call that sent it waits for it, or the flow *)
(* has given up.                                                           *)
Controlled ==
    /\ \A i, j \in CtlUp : i = j
    /\ \A i, j \in CtlDown : i = j
    /\ CtlUp = {} \/ CtlDown = {}
    /\ \A i \in CtlUp :
          toBroker[i].id = IF toBroker[i].type = "subscribe"
                           THEN globalSubscribePacketIdentifier
                           ELSE globalUnsubscribePacketIdentifier
    /\ \A i \in CtlDown :
          toClient[i].id = IF toClient[i].type = "suback"
                           THEN globalSubscribePacketIdentifier
                           ELSE globalUnsubscribePacketIdentifier
    /\ Running /\ Outstanding => Waits
    /\ call \in {"subscribe", "unsubscribe"} =>
          /\ \A i \in Up : toBroker[i].id # expected
          /\ \A i \in Down : toClient[i].id # expected
    /\ Running => \A i \in CtlUp : /\ toBroker[i].type = "unsubscribe" <=> Step.run # "subscribe"
                                   /\ toBroker[i].data = Step.topic

\* A response on its way to the client.
Delivers(p, kind) == p.type = "publish" /\ p.data.kind = kind

(* When the flow has unsubscribed from the response to its first request,   *)
(* it can no longer get it.                                                *)
KeysGone ==
    /\ "keysAccepted" \notin subscriptions
    /\ \A i \in DOMAIN toClient : ~Delivers(toClient[i], "keysAccepted")
KeysGoing ==
    /\ Running /\ at = 10 /\ started =>
          /\ \A i \in CtlDown :
                /\ "keysAccepted" \notin subscriptions
                /\ \A j \in DOMAIN toClient : Delivers(toClient[j], "keysAccepted") => j < i
          /\ IF call = "idle" THEN result.ok => KeysGone
             ELSE globalAckPacketIdentifier = expected => KeysGone
    /\ Running /\ at >= 11 => KeysGone

\* Nothing has been asked to be registered yet.
Before == Running /\ (at <= 14 \/ (at = 15 /\ ~started))

(* Until the device restarts, every registration is that of the keys in the *)
(* store, and only the answer to it is taken for its answer.               *)
Fresh ==
    restarts = 0 =>
    /\ active \subseteq {storedKey}
    /\ \A r \in responses : r.kind = "registerAccepted" => storedKey \in active
    /\ \A i \in DOMAIN toClient :
          Delivers(toClient[i], "registerAccepted") => storedKey \in active
    /\ Before => /\ active = {}
                 /\ \A i \in DOMAIN toBroker : ~Registers(toBroker[i])
    /\ Running /\ at \in 13 .. 15 /\ (at = 15 => ~started) =>
          payloadBuffer.kind = "request"
    /\ Running /\ \/ at = 16 /\ started /\ responseStatus = "Accepted"
                  \/ at >= 17
       =>
          storedKey \in active
    /\ pc # "script" /\ status => storedKey \in active
    /\ Running /\ at = 1 /\ ~started => ~session
    /\ pc = "script" => call # "resend"

(* The numbers of requests on the wire and in the array are of the past.    *)
Past ==
    /\ \A i \in DOMAIN toBroker : toBroker[i].number <= number
    /\ \A i \in Occupied : outgoingPublishPackets[i].number <= number

FPInv ==
    /\ IndInv /\ FPTypeOK
    /\ Shape /\ Reached /\ Asked /\ Controlled /\ KeysGoing /\ Fresh /\ Past

-----------------------------------------------------------------------------
(* The script, step by step.                                               *)
LEMMA ScriptSteps ==
    /\ Len(Script) = 19
    /\ Script[1] = [run |-> "establish"]
    /\ Script[2] = [run |-> "subscribe", topic |-> "keysAccepted"]
    /\ Script[3] = [run |-> "subscribe", topic |-> "keysRejected"]
    /\ Script[4] = [run |-> "publish", pointer |-> "constant"]
    /\ Script[5] = [run |-> "respond"]
    /\ Script[6] = [run |-> "parseKeys"]
    /\ Script[7] = [run |-> "loadKey"]
    /\ Script[8] = [run |-> "loadCertificate"]
    /\ Script[9] = [run |-> "writeCertificate"]
    /\ Script[10] = [run |-> "unsubscribe", topic |-> "keysAccepted"]
    /\ Script[11] = [run |-> "unsubscribe", topic |-> "keysRejected"]
    /\ Script[12] = [run |-> "generate"]
    /\ Script[13] = [run |-> "subscribe", topic |-> "registerAccepted"]
    /\ Script[14] = [run |-> "subscribe", topic |-> "registerRejected"]
    /\ Script[15] = [run |-> "publish", pointer |-> "buffer"]
    /\ Script[16] = [run |-> "respond"]
    /\ Script[17] = [run |-> "parseRegister"]
    /\ Script[18] = [run |-> "lastUnsubscribe", topic |-> "registerAccepted"]
    /\ Script[19] = [run |-> "lastUnsubscribe", topic |-> "registerRejected"]
BY DEF Script

LEMMA StepFacts ==
    ASSUME FPTypeOK
    PROVE  /\ at \in 1 .. 19 /\ Len(Script) = 19
           /\ Step.run = "establish" <=> at = 1
           /\ Step.run = "subscribe" <=> at \in {2, 3, 13, 14}
           /\ Step.run = "unsubscribe" <=> at \in {10, 11}
           /\ Step.run = "lastUnsubscribe" <=> at \in {18, 19}
           /\ Step.run = "publish" <=> at \in {4, 15}
           /\ Step.run = "respond" <=> at \in {5, 16}
           /\ Step.run = "parseKeys" <=> at = 6
           /\ Step.run = "loadKey" <=> at = 7
           /\ Step.run = "loadCertificate" <=> at = 8
           /\ Step.run = "writeCertificate" <=> at = 9
           /\ Step.run = "generate" <=> at = 12
           /\ Step.run = "parseRegister" <=> at = 17
           /\ Asks <=> at \in {2, 3, 10, 11, 13, 14, 18, 19}
           /\ at \in {2, 10} => Step.topic = "keysAccepted"
           /\ at \in {3, 11} => Step.topic = "keysRejected"
           /\ at \in {13, 18} => Step.topic = "registerAccepted"
           /\ at \in {14, 19} => Step.topic = "registerRejected"
           /\ at = 4 => Step.pointer = "constant"
           /\ at = 15 => Step.pointer = "buffer"
<1>1. at \in 1 .. 19
  BY ScriptSteps DEF FPTypeOK
<1>2. \/ at = 1 \/ at = 2 \/ at = 3 \/ at = 4 \/ at = 5 \/ at = 6 \/ at = 7
      \/ at = 8 \/ at = 9 \/ at = 10 \/ at = 11 \/ at = 12 \/ at = 13
      \/ at = 14 \/ at = 15 \/ at = 16 \/ at = 17 \/ at = 18 \/ at = 19
  BY <1>1
<1>. QED  BY <1>1, <1>2, ScriptSteps DEF Step, Asks

-----------------------------------------------------------------------------
(* Every step but a power loss is one of MqttOperations, or changes none of *)
(* its variables.                                                          *)
LEMMA IsMqtt ==
    ASSUME FPTypeOK, [FPNext]_fpVars
    PROVE  [Next]_vars \/ Restart
<1>1. CASE ClaimEstablish \/ DeviceEstablish
  <2>1. ConnectFails \/ SessionFails
        \/ \E sessionPresent \in BOOLEAN : Establish(sessionPresent)
    BY <1>1 DEF ClaimEstablish, DeviceEstablish
  <2>. QED  BY <2>1 DEF Next, Application
<1>2. CASE MqttCall
  <2>1. CASE (Step.run = "subscribe" /\ SubscribeToTopic(Step.topic))
             \/ (Asks /\ UnsubscribeFromTopic(Step.topic))
    <3>1. Step.topic \in Filters
      BY <2>1, StepFacts, FiltersAssumption DEF ProvisioningFilters
    <3>. QED  BY <2>1, <3>1 DEF Next, Application
  <2>2. CASE Step.run = "publish" /\ (PublishToTopic(Step.pointer) \/ PublishRefused)
    <3>1. Step.pointer \in {"constant", "buffer"}
      BY <2>2, StepFacts
    <3>. QED  BY <2>2, <3>1 DEF Next, Application
  <2>. QED  BY <1>2, <2>1, <2>2 DEF MqttCall, AtStep, Asks
<1>3. CASE AwaitResponse
  BY <1>3 DEF AwaitResponse, Next, Application
<1>4. CASE Generate
  <2>1. Response("request", certificate) \in Payloads
    BY ContentsAssumption DEF Response, Requests, FPTypeOK
  <2>. QED  BY <1>4, <2>1 DEF Generate, Next, Application
<1>5. CASE Close
  BY <1>5 DEF Close, Next, Application
<1>6. CASE Receive \/ LibraryWorks \/ CloudHandles
  BY <1>6 DEF Receive, LibraryWorks, CloudHandles, Next, Library
<1>7. ASSUME NEW r \in responses, CloudResponds(r)
      PROVE  Next
  <2>1. r \in Payloads
    BY ContentsAssumption DEF FPTypeOK
  <2>. QED  BY <1>7, <2>1 DEF CloudResponds, Next
<1>8. CASE \/ StepReturns \/ ParseKeys \/ LoadKey \/ LoadCertificate \/ WriteCertificate
           \/ ParseRegister \/ DeviceReturns \/ Retry \/ SkipSteps
           \/ \E r \in responses : CloudDrops(r)
  BY <1>8 DEF StepReturns, ParseKeys, LoadKey, LoadCertificate, WriteCertificate,
              ParseRegister, DeviceReturns, Retry, SkipSteps, CloudDrops
<1>9. CASE UNCHANGED fpVars
  BY <1>9 DEF fpVars
<1>. QED  BY <1>1, <1>2, <1>3, <1>4, <1>5, <1>6, <1>7, <1>8, <1>9 DEF FPNext

(* After a power loss nothing is on the wire or in the array.               *)
LEMMA RestartKeeps ==
    ASSUME IndInv, Restart
    PROVE  IndInv'
<1>1. /\ Occupied' = {} /\ toBroker' = <<>> /\ toClient' = <<>> /\ connections' = 0
      /\ stored' = {} /\ call' = "idle" /\ connection' = "none"
      /\ nextPacketId' = 1 /\ number' = 0
  BY DEF Restart, Occupied
<1>2. Up' = {} /\ Down' = {}
  BY <1>1 DEF Up, Down
<1>3. payloadBuffer' \in Payloads
  BY ContentsAssumption DEF Restart
<1>4. Types'
  <2>1. outgoingPublishPackets' \in [Slots -> Stored \cup {NoPublish}]
    BY DEF Restart
  <2>2. result' \in [function : {"none", "establish", "subscribe", "unsubscribe",
                               "publish", "process", "disconnect"}, ok : BOOLEAN]
    BY DEF Restart
  <2>3. /\ mqttSessionEstablished' = FALSE /\ records' = {} /\ expected' = 0
        /\ globalAckPacketIdentifier' = 0 /\ globalSubscribePacketIdentifier' = 0
        /\ globalUnsubscribePacketIdentifier' = 0 /\ index' = 0
        /\ answered' = {} /\ heard' = {} /\ UNCHANGED <<session, subscriptions>>
    BY DEF Restart
  <2>4. session' \in BOOLEAN /\ subscriptions' \subseteq Filters
    BY <2>3 DEF IndInv, Types, TypeOK
  <2>5. /\ 1 \in 0 .. MaxRequests + 1 /\ 0 \in 0 .. MaxRequests
        /\ 0 \in 0 .. MaxOutgoing /\ 0 \in 0 .. MaxConnections
    BY BoundsAssumption, OutgoingAssumption
  <2>6. TypeOK'
    BY <1>1, <1>3, <2>1, <2>2, <2>3, <2>4, <2>5 DEF TypeOK
  <2>. QED  BY <1>1, <2>6, EmptySeq DEF Types
<1>5. StoredOnce' /\ Recorded' /\ OnWire' /\ NeverForgotten'
  BY <1>1, <1>2 DEF StoredOnce, Recorded, OnWire, OneEach, NeverForgotten
<1>6. First' /\ AnswerIsOwn'
  <2>1. result'.function = "none"
    BY DEF Restart
  <2>. QED  BY <1>1, <2>1 DEF First, AnswerIsOwn
<1>. QED  BY <1>4, <1>5, <1>6 DEF IndInv

LEMMA MqttStep ==
    ASSUME IndInv, FPTypeOK, [FPNext]_fpVars
    PROVE  IndInv' /\ TypeOK'
BY IsMqtt, Preserved, RestartKeeps DEF IndInv, Types

LEMMA FlowInit ==
    ASSUME FPInit
    PROVE  FPInv
<1>. USE LimitsAssumption
<1>1. IndInv
  BY InitInv DEF FPInit
<1>2. FPTypeOK
  <2>1. TypeOK /\ 1 \in 1 .. Len(Script)
    BY <1>1, ScriptSteps DEF IndInv, Types
  <2>2. {started, status, connectionEstablished} \subseteq BOOLEAN
    BY DEF FPInit
  <2>3. demoRunCount \in 0 .. MaxLoopCount
    BY DEF FPInit
  <2>. QED  BY <2>1, <2>2, <2>3 DEF FPInit, FPTypeOK
<1>3. toBroker = <<>> /\ toClient = <<>> /\ Occupied = {}
  BY DEF FPInit, Init, Occupied
<1>4. CtlUp = {} /\ CtlDown = {}
  BY <1>3 DEF CtlUp, CtlDown
<1>5. Shape /\ Reached /\ Past
  BY <1>3 DEF FPInit, Init, Shape, Running, Reached, Past
<1>6. Asked
  BY <1>3 DEF FPInit, Asked, Running, Zeroed, Response
<1>7. Controlled /\ KeysGoing
  BY <1>4 DEF FPInit, Init, Controlled, Outstanding, KeysGoing
<1>8. Fresh
  BY <1>3 DEF FPInit, Init, Fresh
<1>. QED  BY <1>1, <1>2, <1>5, <1>6, <1>7, <1>8 DEF FPInv

(* The types of the flow, of the store and of the cloud.                    *)
LEMMA FlowTypes ==
    ASSUME FPTypeOK, Types, Shape, TypeOK', [FPNext]_fpVars
    PROVE  FPTypeOK'
<1>. USE LimitsAssumption DEF FPTypeOK
<1>1. at \in 1 .. 19 /\ Len(Script) = 19
  BY StepFacts
<1>2. CASE \/ ClaimEstablish \/ MqttCall \/ AwaitResponse \/ DeviceEstablish
           \/ LibraryWorks
  BY <1>2 DEF ClaimEstablish, MqttCall, AwaitResponse, DeviceEstablish, LibraryWorks,
              flow, store, cloud
<1>0. ASSUME Proceed \/ Abandon
      PROVE  /\ pc' \in {"script", "close"} /\ at' \in 1 .. Len(Script)
             /\ started' \in BOOLEAN
  <2>1. CASE Proceed
    <3>1. at' \in {at, at + 1} /\ (at' = at + 1 => at < Len(Script))
      BY <2>1 DEF Proceed
    <3>2. at' \in 1 .. Len(Script)
      BY <1>1, <3>1
    <3>. QED  BY <2>1, <3>2 DEF Proceed
  <2>2. CASE Abandon
    BY <2>2 DEF Abandon
  <2>. QED  BY <1>0, <2>1, <2>2
<1>3. CASE StepReturns
  <2>1. Proceed \/ Abandon
    BY <1>3 DEF StepReturns
  <2>2. connectionEstablished' \in BOOLEAN
    BY <1>3, Zenon DEF StepReturns
  <2>3. status' \in BOOLEAN
    BY <1>3, Zenon DEF StepReturns
  <2>4. UNCHANGED <<demoRunCount, responseStatus, certificate, returned, store, cloud,
                    restarts>>
    BY <1>3 DEF StepReturns
  <2>. QED  BY <1>0, <2>1, <2>2, <2>3, <2>4 DEF store, cloud
<1>4. CASE ParseKeys
  <2>1. payloadBuffer.kind = "keysAccepted" => payloadBuffer.id \in Ids
    <3>1. payloadBuffer \in Accepted \cup Rejected \cup Requests \cup {Zeroed}
      BY ContentsAssumption DEF TypeOK
    <3>2. payloadBuffer \notin Accepted => payloadBuffer.kind # "keysAccepted"
      BY <3>1 DEF Rejected, Requests, Zeroed, Response
    <3>3. payloadBuffer \in Accepted => payloadBuffer.id \in Ids
      BY DEF Accepted
    <3>. QED  BY <3>2, <3>3
  <2>2. certificate' \in Ids \cup {Nothing} /\ (Proceed \/ Abandon)
    BY <1>4, <2>1 DEF ParseKeys, Fails
  <2>3. status' \in {status, FALSE} /\ UNCHANGED store
    BY <1>4 DEF ParseKeys, Fails
  <2>. QED  BY <1>0, <1>4, <2>2, <2>3 DEF ParseKeys, store, cloud
<1>5. CASE LoadKey \/ LoadCertificate \/ WriteCertificate \/ Generate \/ ParseRegister
  <2>1. Proceed \/ Abandon
    BY <1>5 DEF LoadKey, LoadCertificate, WriteCertificate, Generate, ParseRegister, Fails
  <2>2. /\ status' \in {status, FALSE}
        /\ {storedKey', storedCertificate'} \subseteq Ids \cup {Nothing}
        /\ UNCHANGED <<connectionEstablished, demoRunCount, responseStatus, certificate,
                       returned, cloud, restarts>>
    BY <1>5 DEF LoadKey, LoadCertificate, WriteCertificate, Generate, ParseRegister, Fails,
                store
  <2>. QED  BY <1>0, <2>1, <2>2 DEF cloud
<1>6. CASE Close \/ DeviceReturns \/ SkipSteps
  <2>1. CASE Close
    <3>1. /\ pc' \in {"device", "retry"} /\ connectionEstablished' = FALSE
          /\ UNCHANGED <<at, started, status, demoRunCount, responseStatus,
                         certificate, returned, store, cloud, restarts>>
      BY <2>1 DEF Close
    <3>. QED  BY <3>1 DEF store, cloud
  <2>2. CASE DeviceReturns
    <3>1. result.ok \in BOOLEAN
      BY DEF TypeOK
    <3>2. /\ pc' = "closeDevice" /\ started' = FALSE
          /\ status' \in BOOLEAN /\ connectionEstablished' \in BOOLEAN
      BY <2>2, <3>1 DEF DeviceReturns
    <3>. QED  BY <2>2, <3>2 DEF DeviceReturns, store, cloud
  <2>3. CASE SkipSteps
    BY <2>3 DEF SkipSteps, store, cloud
  <2>. QED  BY <1>6, <2>1, <2>2, <2>3
<1>7. CASE Retry
  BY <1>1, <1>7 DEF Retry, Shape, store, cloud
<1>8. CASE Restart
  <2>1. /\ pc' = "script" /\ at' = 1 /\ started' = FALSE /\ status' = TRUE
        /\ connectionEstablished' = FALSE /\ demoRunCount' = 0
        /\ responseStatus' = "NotReceived" /\ certificate' = Nothing
        /\ returned' = "no" /\ restarts < MaxRestarts /\ restarts' = restarts + 1
        /\ UNCHANGED <<store, cloud>>
    BY <1>8 DEF Restart
  <2>2. 1 \in 1 .. Len(Script) /\ 0 \in 0 .. MaxLoopCount
        /\ restarts' \in 0 .. MaxRestarts
    BY <1>1, <2>1
  <2>3. {started', status', connectionEstablished'} \subseteq BOOLEAN
    BY <2>1
  <2>. QED  BY <2>1, <2>2, <2>3 DEF store, cloud
<1>9. CASE Receive
  BY <1>9 DEF Receive, ResponseOf, store, cloud
<1>10. CASE CloudHandles
  <2>1. issued' \subseteq Ids /\ active' \subseteq issued'
    BY <1>10 DEF CloudHandles
  <2>2. responses' \subseteq Accepted \cup Rejected
    <3>. DEFINE p == Head(toBroker)
    <3>1. \E r \in Accepted \cup Rejected : responses' \subseteq responses \cup {r}
      <4>1. \A n \in Ids : /\ Response("keysAccepted", n) \in Accepted
                           /\ Response("registerAccepted", n) \in Accepted
        BY DEF Response, Accepted
      <4>2. /\ Response("keysRejected", Nothing) \in Rejected
            /\ Response("registerRejected", Nothing) \in Rejected
        BY DEF Response, Rejected
      <4>. QED  BY <1>10, <4>1, <4>2 DEF CloudHandles
    <3>. QED  BY <3>1
  <2>. QED  BY <1>10, <2>1, <2>2 DEF CloudHandles, flow, store
<1>11. ASSUME NEW r \in responses, CloudResponds(r) \/ CloudDrops(r)
       PROVE  FPTypeOK'
  BY <1>11 DEF CloudResponds, CloudDrops, flow, store
<1>12. CASE UNCHANGED fpVars
  BY <1>12 DEF fpVars, flow, store, cloud
<1>. QED  BY <1>2, <1>3, <1>4, <1>5, <1>6, <1>7, <1>8, <1>9, <1>10, <1>11, <1>12 DEF FPNext

-----------------------------------------------------------------------------
(* Where the program is.                                                   *)

(* The acknowledgement received while a request waits is that of its kind,  *)
(* so the assertions of mqttCallback hold.                                 *)
LEMMA Matches ==
    ASSUME Types, Controlled, ReceivePacket
    PROVE  call' = call
<1>1. toClient \in Seq(AckPackets \cup MessagePackets) /\ toClient # <<>>
  BY DEF ReceivePacket, Types
<1>2. /\ Head(toClient) \in AckPackets \cup MessagePackets
      /\ Head(toClient) = toClient[1] /\ 1 \in DOMAIN toClient
  BY <1>1, TailOf
<1>3. PICK q \in AckPackets \cup MessagePackets : q = Head(toClient)
  BY <1>2
<1>4. IF q.type = "publish" THEN Incoming(q) ELSE Acknowledge(q)
  BY <1>3 DEF ReceivePacket
<1>5. /\ q.type = "suback" => q.id = globalSubscribePacketIdentifier
      /\ q.type = "unsuback" => q.id = globalUnsubscribePacketIdentifier
  BY <1>2, <1>3 DEF Controlled, CtlDown
<1>. QED  BY <1>4, <1>5 DEF Incoming, Acknowledge

LEMMA ShapeStep ==
    ASSUME FPTypeOK, Types, Shape, Controlled, [FPNext]_fpVars
    PROVE  Shape'
<1>. USE LimitsAssumption, StepFacts DEF Running
<1>1. at' = at => Step' = Step
  BY DEF Step
<1>2. connections \in Nat /\ demoRunCount \in Nat
  BY BoundsAssumption DEF Types, TypeOK, FPTypeOK
<1>3. CASE ClaimEstablish
  <2>1. /\ AtStep("establish") /\ at = 1 /\ connections = 0
        /\ started' = TRUE /\ UNCHANGED <<pc, at, status, demoRunCount>>
    BY <1>3 DEF ClaimEstablish, AtStep, Shape
  <2>2. connections' = connections + 1 /\ call' \in {"idle", "resend"}
    BY <1>3 DEF ClaimEstablish, ConnectFails, SessionFails, Establish, Return
  <2>. QED  BY <1>1, <2>1, <2>2 DEF Shape, AtStep, CallsOf
<1>4. CASE MqttCall
  <2>1. /\ Running /\ started' = TRUE /\ UNCHANGED <<pc, at, status, demoRunCount>>
        /\ ~started /\ at # 1
    BY <1>4 DEF MqttCall, AtStep
  <2>2. connections' = connections /\ call' \in CallsOf(Step.run)
    BY <1>4 DEF MqttCall, AtStep, SubscribeToTopic, UnsubscribeFromTopic, Request,
                PublishToTopic, PublishRefused, Return, ghost, CallsOf
  <2>. QED  BY <1>1, <1>2, <2>1, <2>2 DEF Shape
<1>5. CASE AwaitResponse
  <2>1. /\ AtStep("respond") /\ started' = TRUE /\ ~started
        /\ UNCHANGED <<pc, at, status, demoRunCount, connections>>
        /\ call' = "process"
    BY <1>5 DEF AwaitResponse, ProcessLoopWithTimeout, ghost
  <2>. QED  BY <1>1, <1>2, <2>1 DEF Shape, AtStep, CallsOf
<1>6. ASSUME Proceed \/ Abandon, Running, at = 1 => started, call = "idle",
             UNCHANGED <<call, connections, demoRunCount>>,
             Abandon /\ status' => at >= 18
      PROVE  Shape'
  <2>1. /\ started' = FALSE /\ call' = "idle" /\ connections <= 1
        /\ UNCHANGED <<connections, demoRunCount>>
    BY <1>2, <1>6 DEF Shape, Proceed, Abandon
  <2>2. \/ pc' = "script" /\ at' = at + 1
        \/ pc' = "close" /\ (status' => at' >= 18)
    BY <1>6 DEF Proceed, Abandon
  <2>3. demoRunCount' < MaxLoopCount
    BY <1>6, <2>1 DEF Shape
  <2>. QED  BY <2>1, <2>2, <2>3 DEF Shape
<1>0. Proceed /\ Abandon => at = 19
  <2>1. at \in 1 .. 19 /\ Len(Script) = 19
    OBVIOUS
  <2>. QED  BY <2>1 DEF Proceed, Abandon
<1>7. CASE StepReturns
  <2>1. /\ Running /\ started /\ call = "idle"
        /\ Proceed \/ (Abandon /\ (status' => Step.run = "lastUnsubscribe"))
    BY <1>7 DEF StepReturns, Shape
  <2>2. Abandon /\ status' => at >= 18
    BY <1>0, <2>1
  <2>3. UNCHANGED <<call, connections, demoRunCount>>
    BY <1>7 DEF StepReturns, vars, caller, ghost
  <2>. QED  BY <1>6, <2>1, <2>2, <2>3
<1>8. CASE \/ ParseKeys \/ LoadKey \/ LoadCertificate \/ WriteCertificate \/ Generate
           \/ ParseRegister
  <2>1. /\ Running /\ at \in {6, 7, 8, 9, 12, 17}
        /\ UNCHANGED <<call, connections, demoRunCount>>
    BY <1>8 DEF ParseKeys, LoadKey, LoadCertificate, WriteCertificate, Generate,
                ParseRegister, AtStep, FillBuffer, vars, caller, ghost
  <2>2. Proceed \/ (Abandon /\ ~status')
    BY <1>8 DEF ParseKeys, LoadKey, LoadCertificate, WriteCertificate, Generate,
                ParseRegister, Fails
  <2>3. call = "idle"
    <3>1. CallsOf(Step.run) = {}
      BY <2>1 DEF CallsOf
    <3>. QED  BY <2>1, <3>1 DEF Shape
  <2>. QED  BY <1>0, <1>6, <2>1, <2>2, <2>3
<1>9. CASE Close \/ SkipSteps
  <2>1. /\ pc' \in {"device", "retry", "close"} /\ (pc' = "device" => status)
        /\ UNCHANGED <<at, started, status, demoRunCount, connections>>
        /\ pc \in {"close", "closeDevice"} \/ (pc = "script" /\ ~status)
        /\ call' \in {call, "idle"}
    BY <1>9 DEF Close, SkipSteps, Disconnect, Return, vars, caller, ghost
  <2>. QED  BY <2>1 DEF Shape
<1>10. CASE DeviceEstablish
  <2>1. /\ pc = "device" /\ started' = TRUE
        /\ UNCHANGED <<pc, at, status, demoRunCount>>
        /\ call' \in {"idle", "resend"}
    BY <1>10 DEF DeviceEstablish, ConnectFails, SessionFails, Establish, Return
  <2>. QED  BY <2>1 DEF Shape
<1>11. CASE DeviceReturns
  BY <1>11 DEF DeviceReturns, Shape, vars, caller, ghost
<1>12. CASE Retry
  BY <1>2, <1>12 DEF Retry, Shape, vars, caller, ghost, FPTypeOK
<1>13. CASE Restart
  BY <1>13 DEF Restart, Shape
<1>14. CASE Receive
  <2>1. call' = call
    BY <1>14, Matches DEF Receive
  <2>. QED  BY <1>1, <1>14, <2>1 DEF Receive, ReceivePacket, Shape
<1>15. CASE \/ CloudHandles \/ \E r \in responses : CloudResponds(r) \/ CloudDrops(r)
            \/ UNCHANGED fpVars
  <2>1. UNCHANGED <<call, connections, flow>>
    BY <1>15 DEF CloudHandles, CloudResponds, CloudDrops, fpVars, BrokerHandles,
                 BrokerSends, vars, caller, ghost
  <2>. QED  BY <1>1, <2>1 DEF Shape, flow
<1>16. CASE LibraryWorks
  <2>1. UNCHANGED flow /\ connections' = connections /\ call' \in {call, "idle"}
        /\ (call' = "idle" /\ call # "idle" => started)
    BY <1>16 DEF LibraryWorks, ResendOne, ResendEnds, WaitEnds, ProcessEnds,
                 ConnectionBreaks, Return, caller, ghost, Shape
  <2>2. started /\ Running => call' \in CallsOf(Step.run)
    BY <2>1 DEF Shape, CallsOf
  <2>. QED  BY <1>1, <2>1, <2>2 DEF Shape, flow
<1>. QED  BY <1>3, <1>4, <1>5, <1>7, <1>8, <1>9, <1>10, <1>11, <1>12, <1>13, <1>14, <1>15,
             <1>16 DEF FPNext

-----------------------------------------------------------------------------
(* A device whose session is accepted has usable credentials, which stay so *)
(* while the script does not run.                                          *)
LEMMA ReachedStep ==
    ASSUME FPTypeOK, Types, Shape, Controlled, Reached, [FPNext]_fpVars
    PROVE  Reached'
<1>. USE DEF Running
<1>1. ASSUME UNCHANGED store, active \subseteq active', Usable
      PROVE  Usable'
  BY <1>1 DEF Usable, store
<1>2. CASE ClaimEstablish \/ MqttCall \/ AwaitResponse
  BY <1>2 DEF ClaimEstablish, MqttCall, AwaitResponse, AtStep, Reached
<1>3. CASE \/ StepReturns \/ ParseKeys \/ LoadKey \/ LoadCertificate \/ WriteCertificate
           \/ Generate \/ ParseRegister \/ SkipSteps
  <2>1. pc = "script" /\ pc' \in {"script", "close"} /\ returned' = returned
    BY <1>3 DEF StepReturns, ParseKeys, LoadKey, LoadCertificate, WriteCertificate,
                Generate, ParseRegister, SkipSteps, AtStep, Fails, Proceed, Abandon
  <2>. QED  BY <2>1 DEF Reached
<1>4. CASE Close
  <2>1. /\ UNCHANGED <<status, started, returned, store, active>>
        /\ pc \in {"close", "closeDevice"}
        /\ pc' = IF pc = "close" /\ status THEN "device" ELSE "retry"
    BY <1>4 DEF Close, cloud
  <2>2. ~started
    BY <2>1 DEF Shape
  <2>. QED  BY <1>1, <2>1, <2>2 DEF Reached
<1>5. CASE DeviceEstablish
  <2>1. /\ pc = "device" /\ UNCHANGED <<pc, status, returned, store, active>>
        /\ call' = "resend" \/ result'.ok => Usable
    BY <1>5 DEF DeviceEstablish, ConnectFails, SessionFails, Establish, Return, cloud
  <2>. QED  BY <1>1, <2>1 DEF Reached
<1>6. CASE DeviceReturns
  <2>1. /\ pc = "device" /\ started /\ pc' = "closeDevice" /\ status' = result.ok
        /\ UNCHANGED <<returned, store, active>>
    BY <1>6 DEF DeviceReturns, cloud
  <2>. QED  BY <1>1, <2>1 DEF Reached
<1>7. CASE Retry
  <2>1. /\ pc = "retry" /\ UNCHANGED <<status, store, active>>
        /\ \/ pc' = "returned" /\ returned' = IF status THEN "success" ELSE "failure"
           \/ pc' = "script" /\ returned' = returned
    BY <1>7 DEF Retry, cloud
  <2>. QED  BY <1>1, <2>1 DEF Reached
<1>8. CASE Restart
  BY <1>8 DEF Restart, Reached
<1>9. CASE \/ Receive \/ CloudHandles \/ \E r \in responses : CloudResponds(r) \/ CloudDrops(r)
           \/ UNCHANGED fpVars
  <2>1. /\ UNCHANGED <<pc, started, status, returned, result, store>>
        /\ active \subseteq active'
        /\ call' = "resend" => call = "resend"
    <3>1. CASE Receive
      BY <3>1, Matches DEF Receive, ReceivePacket, cloud
    <3>2. CASE CloudHandles
      BY <3>2 DEF CloudHandles, BrokerHandles, caller, flow
    <3>3. CASE \E r \in responses : CloudResponds(r) \/ CloudDrops(r)
      BY <3>3 DEF CloudResponds, CloudDrops, BrokerSends, caller, flow, vars
    <3>4. CASE UNCHANGED fpVars
      BY <3>4 DEF fpVars, vars, caller, flow, cloud
    <3>. QED  BY <1>9, <3>1, <3>2, <3>3, <3>4
  <2>. QED  BY <1>1, <2>1 DEF Reached
<1>10. CASE LibraryWorks
  <2>1. UNCHANGED <<pc, started, status, returned, store, active>>
    BY <1>10 DEF LibraryWorks, flow, cloud
  <2>2. ASSUME pc = "device", started, call' = "resend" \/ result'.ok
        PROVE  call = "resend" \/ result.ok
    <3>1. call \in {"idle", "resend"}
      BY <2>2 DEF Shape
    <3>. QED  BY <1>10, <2>2, <3>1 DEF LibraryWorks, ResendOne, ResendEnds, WaitEnds,
                                      ProcessEnds, ConnectionBreaks, Return, caller
  <2>. QED  BY <1>1, <2>1, <2>2 DEF Reached
<1>. QED  BY <1>2, <1>3, <1>4, <1>5, <1>6, <1>7, <1>8, <1>9, <1>10 DEF FPNext

-----------------------------------------------------------------------------
(* What the buffer of the responses may hold, and what is published of it.  *)

(* What a step adds to the packets for the broker: a publish carries what   *)
(* its pointer points to.                                                  *)
LEMMA Additions ==
    ASSUME Types, FPTypeOK, [FPNext]_fpVars,
           NEW i \in DOMAIN toBroker'
    PROVE  \/ \E j \in DOMAIN toBroker : toBroker'[i] = toBroker[j]
           \/ /\ toBroker'[i].type = "publish"
              /\ toBroker'[i].data \in {payloadBuffer, Empty}
              /\ \/ MqttCall /\ at = 15 /\ toBroker'[i].number = number'
                 \/ MqttCall /\ at = 4 /\ toBroker'[i].data = Empty
                             /\ toBroker'[i].number = number'
                 \/ LibraryWorks /\ call = "resend" /\ index \in Occupied
                                 /\ toBroker'[i].number =
                                        outgoingPublishPackets[index].number
           \/ /\ toBroker'[i].type = IF Step.run = "subscribe" THEN "subscribe"
                                                               ELSE "unsubscribe"
              /\ MqttCall /\ Asks /\ toBroker'[i].number = number'
              /\ toBroker'[i].id = nextPacketId
              /\ toBroker'[i].data = Step.topic
<1>1. /\ \A j \in DOMAIN toBroker : toBroker[j] \in RequestPackets
      /\ toBroker \in Seq(RequestPackets)
  BY Sent DEF Types
<1>2. ASSUME toBroker' = toBroker \/ toBroker' = <<>>
      PROVE  \E j \in DOMAIN toBroker : toBroker'[i] = toBroker[j]
  BY <1>2
<1>3. ASSUME toBroker # <<>>, toBroker' = Tail(toBroker)
      PROVE  \E j \in DOMAIN toBroker : toBroker'[i] = toBroker[j]
  BY <1>1, <1>3, TailOf
<1>4. ASSUME NEW m \in RequestPackets, toBroker' = Append(toBroker, m)
      PROVE  toBroker'[i] = m \/ \E j \in DOMAIN toBroker : toBroker'[i] = toBroker[j]
  BY <1>1, <1>4, AppendOf
<1>5. CASE MqttCall
  <2>1. CASE Asks
    <3>1. PICK type \in {"subscribe", "unsubscribe"} :
             /\ Request(type, Step.topic)
             /\ type = IF Step.run = "subscribe" THEN "subscribe" ELSE "unsubscribe"
      BY <1>5, <2>1 DEF MqttCall, AtStep, Asks, SubscribeToTopic, UnsubscribeFromTopic
    <3>2. Step.topic \in Filters
      BY <2>1, StepFacts, FiltersAssumption DEF ProvisioningFilters
    <3>3. CASE toBroker' = toBroker
      BY <1>2, <3>3
    <3>4. CASE toBroker' = Append(toBroker, Packet(type, nextPacketId, number', Step.topic))
      <4>1. Packet(type, nextPacketId, number', Step.topic) \in RequestPackets
        BY <3>1, <3>2, BoundsAssumption
        DEF Request, MayRequest, Types, TypeOK, Packet, RequestPackets, PacketIds, Numbers
      <4>2. PICK m \in RequestPackets :
                    m = Packet(type, nextPacketId, number', Step.topic)
        BY <4>1
      <4>3. m.type = type /\ m.id = nextPacketId /\ m.number = number' /\ m.data = Step.topic
        BY <4>2 DEF Packet
      <4>. QED  BY <1>4, <1>5, <2>1, <3>1, <3>4, <4>2, <4>3
    <3>. QED  BY <3>1, <3>3, <3>4 DEF Request
  <2>2. CASE at \in {4, 15}
    <3>1. Step.run = "publish" /\ Step.pointer = IF at = 4 THEN "constant" ELSE "buffer"
      BY <2>2, StepFacts
    <3>2. PublishToTopic(Step.pointer) \/ PublishRefused
      BY <1>5, <3>1 DEF MqttCall, AtStep
    <3>3. CASE PublishRefused
      BY <1>2, <3>3 DEF PublishRefused, broker
    <3>4. CASE PublishToTopic(Step.pointer)
      <4>. DEFINE p == [packetId |-> nextPacketId, pointer |-> Step.pointer,
                        number |-> number']
      <4>1. PublishSent(p, FALSE) \/ toBroker' = toBroker
        BY <3>4 DEF PublishToTopic
      <4>2. CASE PublishSent(p, FALSE)
        <5>1. nextPacketId \in PacketIds /\ number' \in Numbers
          BY <3>4, BoundsAssumption
          DEF PublishToTopic, MayRequest, Types, TypeOK, PacketIds, Numbers
        <5>2. Packet("publish", p.packetId, p.number, Content(p.pointer)) \in RequestPackets
          BY <5>1 DEF Packet, Content, RequestPackets, Types, TypeOK
        <5>3. PICK m \in RequestPackets :
                      m = Packet("publish", p.packetId, p.number, Content(p.pointer))
          BY <5>2
        <5>4. /\ m.type = "publish" /\ m.number = number'
              /\ m.data = IF at = 4 THEN Empty ELSE payloadBuffer
          BY <2>2, <3>1, <5>3 DEF Packet, Content
        <5>5. toBroker' = Append(toBroker, m)
          BY <4>2, <5>3 DEF PublishSent
        <5>. HIDE DEF p
        <5>. QED  BY <1>4, <1>5, <2>2, <5>4, <5>5
      <4>. QED  BY <1>2, <4>1, <4>2
    <3>. QED  BY <3>2, <3>3, <3>4
  <2>. QED  BY <1>5, <2>1, <2>2, StepFacts DEF MqttCall, AtStep
<1>6. CASE LibraryWorks
  <2>1. CASE ResendOne /\ index \in Occupied
    <3>. DEFINE p == outgoingPublishPackets[index]
    <3>1. p \in Stored
      BY <2>1, SlotFacts DEF Types
    <3>2. Packet("publish", p.packetId, p.number, Content(p.pointer)) \in RequestPackets
      BY <3>1 DEF Stored, Packet, Content, RequestPackets, Types, TypeOK
    <3>3. PICK m \in RequestPackets :
                  m = Packet("publish", p.packetId, p.number, Content(p.pointer))
      BY <3>2
    <3>4. m.type = "publish" /\ m.data \in {payloadBuffer, Empty} /\ m.number = p.number
      BY <3>3 DEF Packet, Content
    <3>5. toBroker' = Append(toBroker, m) /\ call = "resend"
      BY <2>1, <3>3 DEF ResendOne, PublishSent
    <3>. QED  BY <1>4, <1>6, <2>1, <3>4, <3>5
  <2>2. CASE ~(ResendOne /\ index \in Occupied)
    <3>1. toBroker' = toBroker
      BY <1>6, <2>2 DEF LibraryWorks, ResendOne, ResendEnds, WaitEnds, ProcessEnds,
                        ConnectionBreaks, broker
    <3>. QED  BY <1>2, <3>1
  <2>. QED  BY <2>1, <2>2
<1>7. CASE CloudHandles
  <2>1. toBroker # <<>> /\ toBroker' = Tail(toBroker)
    BY <1>7 DEF CloudHandles, BrokerHandles
  <2>. QED  BY <1>3, <2>1
<1>8. CASE ~MqttCall /\ ~LibraryWorks /\ ~CloudHandles
  <2>1. toBroker' = toBroker \/ toBroker' = <<>>
    BY <1>8 DEF FPNext, ClaimEstablish, AwaitResponse, StepReturns, ParseKeys, LoadKey,
                LoadCertificate, WriteCertificate, Generate, ParseRegister, Close,
                DeviceEstablish, DeviceReturns, Retry, SkipSteps, Restart, Receive,
                CloudResponds, CloudDrops, ConnectFails, SessionFails, Establish,
                ProcessLoopWithTimeout, FillBuffer, Disconnect, ReceivePacket,
                BrokerSends, fpVars, vars, broker
  <2>. QED  BY <1>2, <2>1
<1>. QED  BY <1>5, <1>6, <1>7, <1>8

LEMMA BufferKept ==
    ASSUME Types, FPTypeOK, [FPNext]_fpVars
    PROVE  \/ payloadBuffer' = payloadBuffer
           \/ Generate /\ payloadBuffer' = Response("request", certificate)
           \/ Restart /\ payloadBuffer' = Zeroed
           \/ /\ Receive /\ toClient # <<>> /\ toClient[1].type = "publish"
              /\ payloadBuffer' = toClient[1].data /\ payloadBuffer' \in Accepted
<1>1. CASE Receive
  <2>1. toClient # <<>> /\ Head(toClient) = toClient[1]
    BY <1>1, TailOf DEF Receive, ReceivePacket, Types
  <2>. QED  BY <1>1, <2>1, ContentsAssumption
            DEF Receive, ReceivePacket, Incoming, Acknowledge
<1>2. CASE Generate
  BY <1>2 DEF Generate, FillBuffer, vars, caller
<1>3. CASE Restart
  BY <1>3 DEF Restart
<1>4. CASE MqttCall
  BY <1>4 DEF MqttCall, SubscribeToTopic, UnsubscribeFromTopic, Request, PublishToTopic,
              PublishRefused
<1>5. CASE ~Receive /\ ~Generate /\ ~Restart /\ ~MqttCall
  BY <1>5 DEF FPNext, ClaimEstablish, AwaitResponse, StepReturns, ParseKeys, LoadKey,
              LoadCertificate, WriteCertificate, ParseRegister, Close, DeviceEstablish,
              DeviceReturns, Retry, SkipSteps, CloudHandles, LibraryWorks, CloudResponds,
              CloudDrops, ConnectFails, SessionFails, Establish, ProcessLoopWithTimeout,
              Disconnect, BrokerHandles, BrokerSends, ResendOne, ResendEnds, WaitEnds,
              ProcessEnds, ConnectionBreaks, fpVars, vars, caller
<1>. QED  BY <1>1, <1>2, <1>3, <1>4, <1>5

(* How far the flow is, and with which credentials, changes by its own       *)
(* steps only.                                                             *)
FlowSame == UNCHANGED <<pc, at, started, status, certificate, store>>
Others ==
    \/ ClaimEstablish \/ MqttCall \/ AwaitResponse \/ DeviceEstablish
    \/ Receive \/ LibraryWorks \/ CloudHandles
    \/ \E r \in responses : CloudResponds(r) \/ CloudDrops(r)
    \/ UNCHANGED fpVars

LEMMA OthersKeep ==
    ASSUME Others
    PROVE  /\ UNCHANGED <<pc, at, status, certificate, store, connectionEstablished>>
           /\ ~started /\ started' => ClaimEstablish \/ MqttCall \/ AwaitResponse
                                      \/ DeviceEstablish
           /\ started => started'
           /\ (at' = at => Step' = Step)
BY DEF Others, ClaimEstablish, MqttCall, AwaitResponse, DeviceEstablish, Receive,
       LibraryWorks, CloudHandles, CloudResponds, CloudDrops, fpVars, flow, Step

(* A step that has come to its end leads to the next, or ends the script.    *)
Own ==
    \/ StepReturns \/ ParseKeys \/ LoadKey \/ LoadCertificate \/ WriteCertificate
    \/ Generate \/ ParseRegister

LEMMA OwnKeep ==
    ASSUME FPTypeOK, Shape, Own
    PROVE  /\ Running /\ call = "idle" /\ ~started'
           /\ UNCHANGED <<broker, connection, call, result, number, connections, restarts>>
           /\ Running' => at' = at + 1
           /\ Running' => Proceed
           /\ pc' # "script" /\ status' => at >= 18
<1>. USE StepFacts DEF Running
<1>1. Running /\ call = "idle"
  <2>1. CASE StepReturns
    BY <2>1 DEF StepReturns, Shape
  <2>2. CASE ~StepReturns
    <3>1. Running /\ at \in {6, 7, 8, 9, 12, 17}
      BY <2>2 DEF Own, ParseKeys, LoadKey, LoadCertificate, WriteCertificate, Generate,
                  ParseRegister, AtStep
    <3>2. CallsOf(Step.run) = {}
      BY <3>1 DEF CallsOf
    <3>. QED  BY <3>1, <3>2 DEF Shape
  <2>. QED  BY <2>1, <2>2
<1>2. Proceed \/ (Abandon /\ (status' => Step.run = "lastUnsubscribe"))
  BY DEF Own, StepReturns, ParseKeys, LoadKey, LoadCertificate, WriteCertificate, Generate,
         ParseRegister, Fails
<1>3. UNCHANGED <<broker, connection, call, result, number, connections, restarts>>
  BY DEF Own, StepReturns, ParseKeys, LoadKey, LoadCertificate, WriteCertificate, Generate,
         ParseRegister, FillBuffer, vars, client, caller, ghost
<1>4. at \in 1 .. 19 /\ Len(Script) = 19
  OBVIOUS
<1>. QED  BY <1>1, <1>2, <1>3, <1>4 DEF Proceed, Abandon

(* The steps outside the script.                                           *)
Ends == Close \/ DeviceReturns \/ Retry \/ SkipSteps

LEMMA EndsKeep ==
    ASSUME Shape, Ends
    PROVE  /\ ~Running /\ ~Running' /\ ~started'
           /\ UNCHANGED <<store, cloud, payloadBuffer, restarts, certificate>>
           /\ toBroker' \in {toBroker, <<>>} /\ toClient' \in {toClient, <<>>}
           /\ pc' # "script" /\ status' => pc # "script" /\ status
           /\ call' \in {call, "idle"}
BY DEF Ends, Close, DeviceReturns, Retry, SkipSteps, Disconnect, Return, Shape, Running,
       vars, caller, broker, store, cloud

LEMMA AllSteps == [FPNext]_fpVars => Others \/ Own \/ Ends \/ Restart
BY DEF FPNext, Others, Own, Ends

LEMMA AskedStep ==
    ASSUME Types, FPTypeOK, Shape, Asked, [FPNext]_fpVars
    PROVE  Asked'
<1>. USE DEF Running
<1>1. CASE Restart
  <2>1. /\ pc' = "script" /\ at' = 1 /\ payloadBuffer'.kind # "request"
        /\ toBroker' = <<>>
    BY <1>1 DEF Restart, Zeroed, Response
  <2>. QED  BY <2>1 DEF Asked
<1>2. CASE Ends
  <2>1. DOMAIN toBroker' \subseteq DOMAIN toBroker
        /\ \A i \in DOMAIN toBroker' : toBroker'[i] = toBroker[i]
    BY <1>2, EndsKeep
  <2>. QED  BY <1>2, <2>1, EndsKeep DEF Asked, store, Registers, Same
<1>3. CASE Own
  <2>1. /\ Running /\ toBroker' = toBroker /\ at \in 1 .. 19
        /\ Running' => at' = at + 1
    BY <1>3, OwnKeep, StepFacts DEF broker
  <2>2. \/ at \in {7, 8, 9} /\ UNCHANGED <<payloadBuffer, certificate>>
        \/ at = 6 /\ UNCHANGED <<payloadBuffer, store>>
        \/ at = 12 /\ UNCHANGED <<certificate, store>>
           /\ payloadBuffer' \in {payloadBuffer, Response("request", certificate)}
        \/ at \notin {6, 7, 8, 9} /\ UNCHANGED <<payloadBuffer, certificate, store>>
    <3>1. CASE StepReturns
      <4>1. at \notin {6, 7, 8, 9}
        <5>1. call \in CallsOf(Step.run)
          BY <2>1, <3>1 DEF StepReturns, Shape
        <5>. QED  BY <5>1, StepFacts DEF CallsOf
      <4>. QED  BY <3>1, <4>1 DEF StepReturns, vars, caller
    <3>2. CASE ParseKeys \/ ParseRegister
      BY <3>2, StepFacts DEF ParseKeys, ParseRegister, AtStep, Fails, vars, caller
    <3>3. CASE LoadKey \/ LoadCertificate \/ WriteCertificate
      BY <3>3, StepFacts DEF LoadKey, LoadCertificate, WriteCertificate, AtStep, vars, caller
    <3>4. CASE Generate
      BY <3>4, StepFacts DEF Generate, FillBuffer, AtStep, vars, caller
    <3>. QED  BY <1>3, <3>1, <3>2, <3>3, <3>4 DEF Own
  <2>3. /\ Running' /\ at = 7 => storedKey' = certificate
        /\ Running' /\ at \in {8, 9} => storedKey' = storedKey
        /\ Running' /\ at = 9 => storedCertificate' = certificate
    <3>1. CASE at \in {7, 8, 9}
      <4>1. LoadKey \/ LoadCertificate \/ WriteCertificate
        <5>1. ~StepReturns
          <6>1. StepReturns => call \in CallsOf(Step.run)
            BY <2>1 DEF StepReturns, Shape
          <6>. QED  BY <3>1, <6>1, StepFacts DEF CallsOf
        <5>. QED  BY <1>3, <3>1, <5>1, StepFacts
                  DEF Own, ParseKeys, Generate, ParseRegister, AtStep
      <4>. QED  BY <3>1, <4>1, StepFacts
                DEF LoadKey, LoadCertificate, WriteCertificate, AtStep, Fails
    <3>. QED  BY <3>1
  <2>4. Response("request", certificate).kind = "request"
        /\ Response("request", certificate).id = certificate
    BY DEF Response
  <2>5. Running' /\ at' <= 9 =>
          /\ payloadBuffer'.kind # "request"
          /\ \A i \in DOMAIN toBroker' : ~Registers(toBroker'[i])
    BY <2>1, <2>2 DEF Asked
  <2>6. payloadBuffer'.kind = "request" => Same(payloadBuffer.id)'
    BY <2>1, <2>2, <2>4 DEF Asked, Same, store
  <2>7. (\A i \in DOMAIN toBroker : Registers(toBroker[i]) => Same(toBroker[i].data.id))'
    BY <2>1, <2>2 DEF Asked, Same, Registers, store
  <2>8. Running' /\ at' >= 8 => storedKey' = certificate'
    BY <2>1, <2>2, <2>3 DEF Asked, store
  <2>9. Running' /\ at' >= 10 => storedCertificate' = certificate'
    BY <2>1, <2>2, <2>3 DEF Asked, store
  <2>. QED  BY <2>5, <2>6, <2>7, <2>8, <2>9 DEF Asked, Registers
<1>4. CASE Others
  <2>1. UNCHANGED <<pc, at, status, certificate, store>>
    BY <1>4, OthersKeep
  <2>2. payloadBuffer'.kind = "request" => payloadBuffer' = payloadBuffer
    <3>1. ASSUME Generate, payloadBuffer' = Response("request", certificate)
          PROVE  payloadBuffer' = payloadBuffer
      <4>1. ~Proceed
        BY <2>1, <3>1, StepFacts DEF Proceed, Generate, AtStep
      <4>. QED  BY <3>1, <4>1 DEF Generate, vars, caller
    <3>2. Zeroed.kind # "request" /\ \A a \in Accepted : a.kind # "request"
      BY DEF Zeroed, Response, Accepted
    <3>. QED  BY <3>1, <3>2, BufferKept
  <2>3. \A i \in DOMAIN toBroker' : Registers(toBroker'[i]) =>
           \/ \E j \in DOMAIN toBroker : toBroker'[i] = toBroker[j]
           \/ payloadBuffer.kind = "request" /\ toBroker'[i].data = payloadBuffer
    BY Additions DEF Registers
  <2>. QED  BY <2>1, <2>2, <2>3 DEF Asked, Same, Registers, store
<1>. QED  BY <1>1, <1>2, <1>3, <1>4, AllSteps

-----------------------------------------------------------------------------
(* The numbers of the requests.                                            *)

(* A step makes one request at most.                                       *)
LEMMA NumberGrows ==
    ASSUME Types, FPTypeOK, [FPNext]_fpVars
    PROVE  \/ Restart
           \/ number' = number
           \/ MqttCall /\ number' = number + 1
<1>1. CASE MqttCall
  BY <1>1 DEF MqttCall, SubscribeToTopic, UnsubscribeFromTopic, Request, PublishToTopic,
              PublishRefused
<1>2. CASE ~MqttCall /\ ~Restart
  BY <1>2 DEF FPNext, ClaimEstablish, AwaitResponse, StepReturns, ParseKeys, LoadKey,
              LoadCertificate, WriteCertificate, Generate, ParseRegister, Close,
              DeviceEstablish, DeviceReturns, Retry, SkipSteps, Receive, CloudHandles,
              LibraryWorks, CloudResponds, CloudDrops, ConnectFails, SessionFails,
              Establish, ProcessLoopWithTimeout, FillBuffer, Disconnect, ReceivePacket,
              BrokerHandles, BrokerSends, ResendOne, ResendEnds, WaitEnds, ProcessEnds,
              ConnectionBreaks, fpVars, vars, caller
<1>. QED  BY <1>1, <1>2

(* A step puts one publish at most into the array, with a number of its own. *)
LEMMA SlotAdditions ==
    ASSUME Types, StoredOnce, FPTypeOK, [FPNext]_fpVars,
           NEW i \in Occupied'
    PROVE  \/ i \in Occupied /\ outgoingPublishPackets'[i] = outgoingPublishPackets[i]
           \/ MqttCall /\ outgoingPublishPackets'[i].number = number'
<1>0. i \in Slots /\ outgoingPublishPackets'[i] # NoPublish
  BY DEF Occupied
<1>1. CASE UNCHANGED outgoingPublishPackets
  BY <1>0, <1>1 DEF Occupied
<1>2. CASE outgoingPublishPackets' = [j \in Slots |-> NoPublish]
  BY <1>0, <1>2
<1>3. CASE MqttCall
  <2>1. CASE ~\E pointer \in {"constant", "buffer"} : PublishToTopic(pointer)
    <3>1. Step.pointer \in {"constant", "buffer"} \/ ~AtStep("publish")
      BY StepFacts DEF AtStep
    <3>2. UNCHANGED outgoingPublishPackets
      BY <1>3, <2>1, <3>1 DEF MqttCall, SubscribeToTopic, UnsubscribeFromTopic, Request,
                              PublishRefused, client
    <3>. QED  BY <1>1, <3>2
  <2>2. CASE \E pointer \in {"constant", "buffer"} : PublishToTopic(pointer)
    <3>1. PICK pointer \in {"constant", "buffer"} : PublishToTopic(pointer)
      BY <2>2
    <3>. DEFINE p == [packetId |-> nextPacketId, pointer |-> pointer, number |-> number']
                packets == [outgoingPublishPackets EXCEPT ![FirstFree] = p]
    <3>2. \/ outgoingPublishPackets' = packets
          \/ outgoingPublishPackets' = [packets EXCEPT ![FirstFree] = NoPublish]
      BY <3>1 DEF PublishToTopic, cleanupOutgoingPublishAt
    <3>3. FirstFree \in Slots
      BY <3>1, FreeFound DEF PublishToTopic
    <3>4. outgoingPublishPackets \in [Slots -> Stored \cup {NoPublish}]
      BY DEF Types, TypeOK
    <3>5. CASE i # FirstFree
      BY <1>0, <3>2, <3>3, <3>4, <3>5 DEF Occupied
    <3>6. CASE i = FirstFree
      <4>1. outgoingPublishPackets'[i] = p
        BY <1>0, <3>2, <3>3, <3>4, <3>6
      <4>. QED  BY <1>3, <4>1
    <3>. QED  BY <3>5, <3>6
  <2>. QED  BY <2>1, <2>2
<1>4. CASE Receive
  <2>1. PICK q \in AckPackets \cup MessagePackets : q = Head(toClient)
    BY <1>4, TailOf DEF Receive, ReceivePacket, Types
  <2>2. IF q.type = "publish" THEN Incoming(q) ELSE Acknowledge(q)
    BY <1>4, <2>1 DEF Receive, ReceivePacket
  <2>3. CASE q.type # "puback"
    BY <1>1, <2>2, <2>3 DEF Incoming, Acknowledge
  <2>4. CASE q.type = "puback"
    <3>1. q.id \in PacketIds /\ outgoingPublishPackets' = Cleaned(q.id)
      BY <2>2, <2>4 DEF Acknowledge, AckPackets, MessagePackets
    <3>. QED  BY <1>0, <3>1, CleanedAll DEF Types, Occupied
  <2>. QED  BY <2>3, <2>4
<1>5. CASE ~MqttCall /\ ~Receive
  <2>1. \/ UNCHANGED outgoingPublishPackets
        \/ outgoingPublishPackets' = [j \in Slots |-> NoPublish]
    BY <1>5 DEF FPNext, ClaimEstablish, AwaitResponse, StepReturns, ParseKeys, LoadKey,
              LoadCertificate, WriteCertificate, Generate, ParseRegister, Close,
              DeviceEstablish, DeviceReturns, Retry, SkipSteps, CloudHandles,
              LibraryWorks, CloudResponds, CloudDrops, ConnectFails, SessionFails,
              Establish, ProcessLoopWithTimeout, FillBuffer, Disconnect, Restart,
              BrokerHandles, BrokerSends, ResendOne, ResendEnds, WaitEnds, ProcessEnds,
              ConnectionBreaks, fpVars, vars, client
  <2>. QED  BY <1>1, <1>2, <2>1
<1>. QED  BY <1>3, <1>4, <1>5

LEMMA PastStep ==
    ASSUME Types, StoredOnce, FPTypeOK, Past, [FPNext]_fpVars
    PROVE  Past'
<1>1. CASE Restart
  <2>1. toBroker' = <<>> /\ Occupied' = {}
    BY <1>1 DEF Restart, Occupied
  <2>. QED  BY <2>1 DEF Past
<1>2. CASE ~Restart
  <2>1. number \in Nat /\ number' \in {number, number + 1}
    BY <1>2, NumberGrows, BoundsAssumption DEF Types, TypeOK
  <2>2. /\ \A i \in DOMAIN toBroker : toBroker[i].number \in Nat
        /\ \A i \in Occupied : outgoingPublishPackets[i].number \in Nat
    BY Sent, SlotFacts DEF Types, Numbers
  <2>3. ASSUME NEW i \in DOMAIN toBroker'
        PROVE  toBroker'[i].number <= number'
    BY <2>1, <2>2, Additions DEF Past
  <2>4. ASSUME NEW i \in Occupied'
        PROVE  outgoingPublishPackets'[i].number <= number'
    BY <2>1, <2>2, SlotAdditions DEF Past
  <2>. QED  BY <2>3, <2>4 DEF Past
<1>. QED  BY <1>1, <1>2

(* A publish put on the wire with a new number is the one just called for.  *)
LEMMA NewPublish ==
    ASSUME Types, FPTypeOK, Past, [FPNext]_fpVars, ~Restart,
           NEW i \in DOMAIN toBroker',
           number' # number, toBroker'[i].number = number',
           toBroker'[i].type = "publish"
    PROVE  \/ toBroker'[i].data = Empty
           \/ MqttCall /\ at = 15 /\ toBroker'[i].data = payloadBuffer
<1>1. number \in Nat /\ number' = number + 1 /\ MqttCall
  BY NumberGrows, BoundsAssumption DEF Types, TypeOK
<1>2. /\ \A j \in DOMAIN toBroker : toBroker[j].number \in Nat
      /\ \A j \in Occupied : outgoingPublishPackets[j].number \in Nat
  BY Sent, SlotFacts DEF Types, Numbers
<1>. QED  BY <1>1, <1>2, Additions DEF Past

-----------------------------------------------------------------------------
(* What a step does to the packets for the client: it adds at most one,     *)
(* takes at most the first, or drops them all.                             *)
Added(type, data) ==
    LET last == Len(toClient) + 1
    IN  /\ last \notin DOMAIN toClient /\ DOMAIN toClient' = DOMAIN toClient \cup {last}
        /\ \A i \in DOMAIN toClient : toClient'[i] = toClient[i] /\ i < last
        /\ toClient'[last].type = type
        /\ toClient'[last].data = data

Taken ==
    /\ Receive /\ 1 \in DOMAIN toClient
    /\ \A i \in DOMAIN toClient' : /\ i \in Nat \ {0} /\ i + 1 \in DOMAIN toClient
                                   /\ toClient'[i] = toClient[i + 1]

LEMMA Deliveries ==
    ASSUME Types, FPTypeOK, [FPNext]_fpVars
    PROVE  \/ toClient' \in {toClient, <<>>}
           \/ Taken
           \/ /\ CloudHandles /\ toBroker # <<>>
              /\ \/ toBroker[1].type = "subscribe" /\ Added("suback", Empty)
                 \/ toBroker[1].type = "unsubscribe" /\ Added("unsuback", Empty)
                 \/ toBroker[1].type = "publish" /\ Added("puback", Empty)
              /\ toClient'[Len(toClient) + 1].id = toBroker[1].id
           \/ \E r \in responses : CloudResponds(r) /\ Added("publish", r)
<1>0. /\ toClient \in Seq(AckPackets \cup MessagePackets)
      /\ toBroker \in Seq(RequestPackets)
  BY DEF Types
<1>1. ASSUME NEW m \in AckPackets \cup MessagePackets, toClient' = Append(toClient, m)
      PROVE  Added(m.type, m.data) /\ toClient'[Len(toClient) + 1] = m
  <2>1. /\ DOMAIN toClient' = DOMAIN toClient \cup {Len(toClient) + 1}
        /\ Len(toClient) + 1 \notin DOMAIN toClient
        /\ \A i \in DOMAIN toClient : toClient'[i] = toClient[i]
        /\ toClient'[Len(toClient) + 1] = m
    BY <1>0, <1>1, AppendOf
  <2>2. \A i \in DOMAIN toClient : i < Len(toClient) + 1
    BY Sent
  <2>. QED  BY <2>1, <2>2 DEF Added
<1>2. CASE Receive
  BY <1>0, <1>2, TailOf DEF Receive, ReceivePacket, Taken
<1>3. CASE CloudHandles
  <2>. DEFINE ack == [subscribe |-> "suback", unsubscribe |-> "unsuback",
                      publish |-> "puback"]
  <2>1. /\ toBroker # <<>> /\ Head(toBroker) = toBroker[1]
        /\ Head(toBroker) \in RequestPackets
    BY <1>0, <1>3, TailOf DEF CloudHandles, BrokerHandles
  <2>2. PICK q \in RequestPackets : q = toBroker[1] /\ q = Head(toBroker)
    BY <2>1
  <2>3. \/ toClient' = Append(toClient, Packet(ack[q.type], q.id, q.number, Empty))
        \/ UNCHANGED toClient
    BY <1>3, <2>2 DEF CloudHandles, BrokerHandles
  <2>4. Packet(ack[q.type], q.id, q.number, Empty) \in AckPackets
    BY DEF Packet, RequestPackets, AckPackets
  <2>5. PICK m \in AckPackets : m = Packet(ack[q.type], q.id, q.number, Empty)
    BY <2>4
  <2>6. /\ m.id = q.id /\ m.data = Empty
        /\ \/ q.type = "subscribe" /\ m.type = "suback"
           \/ q.type = "unsubscribe" /\ m.type = "unsuback"
           \/ q.type = "publish" /\ m.type = "puback"
    BY <2>5 DEF Packet, RequestPackets
  <2>. HIDE DEF ack
  <2>7. CASE toClient' = Append(toClient, m)
    <3>1. Added(m.type, Empty) /\ toClient'[Len(toClient) + 1] = m
      BY <1>1, <2>6, <2>7
    <3>. QED  BY <1>3, <2>1, <2>2, <2>6, <3>1
  <2>. QED  BY <2>3, <2>5, <2>7
<1>4. ASSUME NEW r \in responses, CloudResponds(r)
      PROVE  Added("publish", r)
  <2>1. Packet("publish", 0, 0, r) \in MessagePackets
    BY ContentsAssumption DEF Packet, MessagePackets, FPTypeOK
  <2>2. PICK m \in MessagePackets : m = Packet("publish", 0, 0, r)
    BY <2>1
  <2>3. m.type = "publish" /\ m.data = r
    BY <2>2 DEF Packet
  <2>. QED  BY <1>1, <1>4, <2>2, <2>3 DEF CloudResponds, BrokerSends
<1>5. CASE ~Receive /\ ~CloudHandles /\ ~\E r \in responses : CloudResponds(r)
  BY <1>5 DEF FPNext, ClaimEstablish, MqttCall, AwaitResponse, StepReturns, ParseKeys,
              LoadKey, LoadCertificate, WriteCertificate, Generate, ParseRegister, Close,
              DeviceEstablish, DeviceReturns, Retry, SkipSteps, Restart, LibraryWorks,
              CloudDrops, ConnectFails, SessionFails, Establish, ProcessLoopWithTimeout,
              FillBuffer, Disconnect, SubscribeToTopic, UnsubscribeFromTopic, Request,
              PublishToTopic, PublishRefused, ResendOne, ResendEnds, WaitEnds,
              ProcessEnds, ConnectionBreaks, fpVars, vars, broker
<1>. QED  BY <1>2, <1>3, <1>4, <1>5

(* What it does to the packets for the broker.                             *)
Put(type, data) ==
    LET last == Len(toBroker) + 1
    IN  /\ last \notin DOMAIN toBroker /\ DOMAIN toBroker' = DOMAIN toBroker \cup {last}
        /\ \A i \in DOMAIN toBroker : toBroker'[i] = toBroker[i]
        /\ toBroker'[last].type = type
        /\ toBroker'[last].data = data

LEMMA RequestPut ==
    ASSUME Types, FPTypeOK, MqttCall, Asks, toBroker' # toBroker
    PROVE  /\ Put(IF Step.run = "subscribe" THEN "subscribe" ELSE "unsubscribe", Step.topic)
           /\ toBroker'[Len(toBroker) + 1].id = nextPacketId
           /\ connection = "up" /\ globalAckPacketIdentifier' = 0
           /\ expected' = nextPacketId
           /\ call' = IF Step.run = "subscribe" THEN "subscribe" ELSE "unsubscribe"
<1>1. PICK type \in {"subscribe", "unsubscribe"} :
         /\ Request(type, Step.topic)
         /\ type = IF Step.run = "subscribe" THEN "subscribe" ELSE "unsubscribe"
  BY DEF MqttCall, AtStep, Asks, SubscribeToTopic, UnsubscribeFromTopic
<1>2. Step.topic \in Filters
  BY StepFacts, FiltersAssumption DEF ProvisioningFilters
<1>3. Packet(type, nextPacketId, number', Step.topic) \in RequestPackets
  BY <1>1, <1>2, BoundsAssumption
  DEF Request, MayRequest, Types, TypeOK, Packet, RequestPackets, PacketIds, Numbers
<1>4. PICK m \in RequestPackets : m = Packet(type, nextPacketId, number', Step.topic)
  BY <1>3
<1>5. m.type = type /\ m.id = nextPacketId /\ m.data = Step.topic
  BY <1>4 DEF Packet
<1>6. /\ toBroker' = Append(toBroker, m)
      /\ connection = "up" /\ globalAckPacketIdentifier' = 0
      /\ expected' = nextPacketId /\ call' = type
  BY <1>1, <1>4 DEF Request
<1>. QED  BY <1>1, <1>5, <1>6, AppendOf DEF Put, Types

LEMMA PublishPut ==
    ASSUME Types, FPTypeOK, LibraryWorks \/ (MqttCall /\ ~Asks)
    PROVE  toBroker' = toBroker \/ \E data : Put("publish", data)
<1>1. ASSUME NEW p \in [packetId : PacketIds, pointer : {"constant", "buffer"},
                        number : Numbers],
             NEW dup \in BOOLEAN, PublishSent(p, dup)
      PROVE  \E data : Put("publish", data)
  <2>1. Packet("publish", p.packetId, p.number, Content(p.pointer)) \in RequestPackets
    BY DEF Packet, Content, RequestPackets, Types, TypeOK
  <2>2. PICK m \in RequestPackets :
                m = Packet("publish", p.packetId, p.number, Content(p.pointer))
    BY <2>1
  <2>3. m.type = "publish" /\ toBroker' = Append(toBroker, m)
    BY <1>1, <2>2 DEF PublishSent, Packet
  <2>4. Put("publish", m.data)
    BY <2>3, AppendOf DEF Put, Types
  <2>. QED  BY <2>4
<1>2. CASE LibraryWorks
  <2>1. CASE ResendOne /\ index \in Occupied
    <3>1. outgoingPublishPackets[index] \in Stored
      BY <2>1, SlotFacts DEF Types
    <3>2. PublishSent(outgoingPublishPackets[index], TRUE)
      BY <2>1 DEF ResendOne
    <3>. QED  BY <1>1, <3>1, <3>2 DEF Stored
  <2>2. CASE ~(ResendOne /\ index \in Occupied)
    BY <1>2, <2>2 DEF LibraryWorks, ResendOne, ResendEnds, WaitEnds, ProcessEnds,
                      ConnectionBreaks, broker
  <2>. QED  BY <2>1, <2>2
<1>3. CASE MqttCall /\ ~Asks
  <2>1. Step.run = "publish" /\ Step.pointer \in {"constant", "buffer"}
    BY <1>3, StepFacts DEF MqttCall, AtStep, Asks
  <2>2. PublishToTopic(Step.pointer) \/ PublishRefused
    BY <1>3, <2>1 DEF MqttCall, AtStep
  <2>3. CASE PublishRefused
    BY <2>3 DEF PublishRefused, broker
  <2>4. CASE PublishToTopic(Step.pointer)
    <3>. DEFINE p == [packetId |-> nextPacketId, pointer |-> Step.pointer,
                      number |-> number']
    <3>1. PublishSent(p, FALSE) \/ toBroker' = toBroker
      BY <2>4 DEF PublishToTopic
    <3>2. nextPacketId \in PacketIds /\ number' \in Numbers
      BY <2>4, BoundsAssumption
      DEF PublishToTopic, MayRequest, Types, TypeOK, PacketIds, Numbers
    <3>3. p \in [packetId : PacketIds, pointer : {"constant", "buffer"}, number : Numbers]
      BY <2>1, <3>2
    <3>. HIDE DEF p
    <3>. QED  BY <1>1, <3>1, <3>3
  <2>. QED  BY <2>2, <2>3, <2>4
<1>. QED  BY <1>2, <1>3

-----------------------------------------------------------------------------
(* One control packet at a time.                                           *)
Idents == <<globalSubscribePacketIdentifier, globalUnsubscribePacketIdentifier>>

\* The step puts no packet on the wire and takes none but all.
LEMMA QuietControl ==
    ASSUME Controlled, UNCHANGED Idents,
           toBroker' \in {toBroker, <<>>}, toClient' \in {toClient, <<>>},
           call' \in {"subscribe", "unsubscribe"} => UNCHANGED <<call, expected>>,
           Running' /\ Outstanding => Waits' /\ Running /\ Step' = Step
    PROVE  Controlled'
<1>1. /\ toBroker' = <<>> => CtlUp' = {} /\ Up' = {}
      /\ toBroker' = toBroker => CtlUp' = CtlUp /\ Up' = Up
      /\ toClient' = <<>> => CtlDown' = {} /\ Down' = {}
      /\ toClient' = toClient => CtlDown' = CtlDown /\ Down' = Down
  BY DEF CtlUp, CtlDown, Up, Down
<1>2. Outstanding' => Outstanding
  BY <1>1 DEF Outstanding
<1>3. CtlUp' # {} => Outstanding
  BY <1>2 DEF Outstanding
<1>. QED  BY <1>1, <1>2, <1>3 DEF Controlled, Idents

\* The wire after a packet of the broker, and after one for it.
LEMMA AddedControl ==
    ASSUME NEW type, NEW data, Added(type, data)
    PROVE  /\ CtlDown' = IF type \in {"suback", "unsuback"}
                         THEN CtlDown \cup {Len(toClient) + 1} ELSE CtlDown
           /\ Down' = IF type = "puback" THEN Down \cup {Len(toClient) + 1} ELSE Down
           /\ \A i \in DOMAIN toClient : toClient'[i] = toClient[i]
           /\ toClient'[Len(toClient) + 1].type = type
BY DEF Added, CtlDown, Down

LEMMA PutControl ==
    ASSUME NEW type, NEW data, Put(type, data)
    PROVE  /\ CtlUp' = IF type # "publish" THEN CtlUp \cup {Len(toBroker) + 1} ELSE CtlUp
           /\ Up' = IF type = "publish" THEN Up \cup {Len(toBroker) + 1} ELSE Up
           /\ \A i \in DOMAIN toBroker : toBroker'[i] = toBroker[i]
           /\ toBroker'[Len(toBroker) + 1].type = type
           /\ toBroker'[Len(toBroker) + 1].data = data
BY DEF Put, CtlUp, Up

LEMMA CallControl ==
    ASSUME Types, First, FPTypeOK, Shape, Controlled, MqttCall
    PROVE  Controlled'
<1>1. /\ Running /\ ~started /\ started' /\ UNCHANGED <<pc, at, status>> /\ at # 1
      /\ Step' = Step /\ Running'
  BY StepFacts DEF MqttCall, AtStep, Running, Step
<1>2. ~Outstanding /\ CtlUp = {} /\ CtlDown = {}
  BY <1>1 DEF Controlled, Waits, Outstanding
<1>3. UNCHANGED toClient
  BY DEF MqttCall, SubscribeToTopic, UnsubscribeFromTopic, Request, PublishToTopic,
         PublishRefused, broker
<1>4. CtlDown' = {} /\ Down' = Down
  BY <1>2, <1>3 DEF CtlDown, Down
<1>5. CASE toBroker' = toBroker
  <2>1. CtlUp' = {} /\ Up' = Up
    BY <1>2, <1>5 DEF CtlUp, Up
  <2>2. call' = "idle"
    <3>1. CASE Asks
      <4>1. \E type \in {"subscribe", "unsubscribe"} : Request(type, Step.topic)
        BY <3>1 DEF MqttCall, AtStep, Asks, SubscribeToTopic, UnsubscribeFromTopic
      <4>2. PICK type \in {"subscribe", "unsubscribe"} : Request(type, Step.topic)
        BY <4>1
      <4>3. CASE toBroker' = Append(toBroker, Packet(type, nextPacketId, number', Step.topic))
        <5>1. Step.topic \in Filters
          BY <3>1, StepFacts, FiltersAssumption DEF ProvisioningFilters
        <5>2. Packet(type, nextPacketId, number', Step.topic) \in RequestPackets
          BY <4>2, <5>1, BoundsAssumption
          DEF Request, MayRequest, Types, TypeOK, Packet, RequestPackets, PacketIds,
              Numbers
        <5>. QED  BY <1>5, <4>3, <5>2, AppendOf DEF Types
      <4>. QED  BY <4>2, <4>3 DEF Request, Return
    <3>2. CASE ~Asks
      BY <3>2 DEF MqttCall, AtStep, Asks, PublishToTopic, PublishRefused, Return
    <3>. QED  BY <3>1, <3>2
  <2>. QED  BY <1>4, <2>1, <2>2 DEF Controlled, Outstanding
<1>6. CASE toBroker' # toBroker /\ ~Asks
  <2>1. CtlUp' = {}
    <3>1. PICK data : Put("publish", data)
      BY <1>6, PublishPut
    <3>. QED  BY <1>2, <3>1, PutControl
  <2>2. call' = "idle"
    BY <1>6 DEF MqttCall, AtStep, Asks, PublishToTopic, PublishRefused, Return
  <2>. QED  BY <1>4, <2>1, <2>2 DEF Controlled, Outstanding
<1>7. CASE toBroker' # toBroker /\ Asks
  <2>. DEFINE last == Len(toBroker) + 1
              type == IF Step.run = "subscribe" THEN "subscribe" ELSE "unsubscribe"
  <2>1. /\ Put(type, Step.topic) /\ toBroker'[last].id = nextPacketId
        /\ connection = "up" /\ globalAckPacketIdentifier' = 0
        /\ expected' = nextPacketId /\ call' = type
    BY <1>7, RequestPut
  <2>2. /\ CtlUp' = {last} /\ Up' = Up
        /\ toBroker'[last].type = type /\ toBroker'[last].data = Step.topic
        /\ \A i \in Up : toBroker'[i] = toBroker[i]
    BY <1>2, <2>1, PutControl DEF Up
  <2>3. /\ toBroker'[last].type = "subscribe" =>
                   globalSubscribePacketIdentifier' = nextPacketId
        /\ toBroker'[last].type # "subscribe" =>
                   globalUnsubscribePacketIdentifier' = nextPacketId
    BY <1>7, <2>2 DEF MqttCall, AtStep, Asks, SubscribeToTopic, UnsubscribeFromTopic
  <2>4. connections = 1
    BY <1>1, <2>1, BoundsAssumption DEF Shape, First, Types, TypeOK
  <2>5. /\ \A i \in Up' : toBroker'[i].id # expected'
        /\ \A i \in Down' : toClient'[i].id # expected'
        /\ globalAckPacketIdentifier' # expected'
    <3>1. nextPacketId \in Nat /\ nextPacketId # 0
      BY <2>1, BoundsAssumption DEF Types, TypeOK
    <3>2. /\ \A i \in DOMAIN toBroker : toBroker[i].id \in Nat
          /\ \A i \in DOMAIN toClient : toClient[i].id \in Nat
      BY Sent DEF PacketIds
    <3>3. /\ \A i \in DOMAIN toBroker : toBroker[i].id < nextPacketId
          /\ \A i \in DOMAIN toClient : toClient[i].id < nextPacketId
      BY <2>4 DEF First
    <3>. QED  BY <1>3, <1>4, <2>1, <2>2, <3>1, <3>2, <3>3 DEF Up, Down
  <2>6. Waits'
    <3>1. call' # "idle" /\ Asks'
      BY <1>1, <1>7, <2>1 DEF Asks
    <3>. QED  BY <1>1, <2>5, <3>1 DEF Waits
  <2>7. toBroker'[last].type = "unsubscribe" <=> Step.run # "subscribe"
    BY <2>2
  <2>. HIDE DEF last, type
  <2>. QED  BY <1>1, <1>4, <2>2, <2>3, <2>1, <2>5, <2>6, <2>7 DEF Controlled
<1>. QED  BY <1>5, <1>6, <1>7

\* While a request waits, no other function of MqttOperations is running.
LEMMA WaitCalls ==
    ASSUME FPTypeOK, Shape, Running, Waits
    PROVE  call \in {"idle", "subscribe", "unsubscribe"}
BY StepFacts DEF Shape, Waits, CallsOf, Asks

LEMMA LibraryControl ==
    ASSUME Types, FPTypeOK, Shape, Controlled, LibraryWorks
    PROVE  Controlled'
<1>1. /\ UNCHANGED <<toClient, pc, at, status, started, Idents, expected>>
      /\ globalAckPacketIdentifier' = globalAckPacketIdentifier
      /\ Step' = Step /\ call' \in {call, "idle"}
  BY DEF LibraryWorks, ResendOne, ResendEnds, WaitEnds, ProcessEnds, ConnectionBreaks,
         Return, client, caller, broker, flow, Step, Idents
<1>2. ASSUME Running' /\ Outstanding
      PROVE  Waits' /\ Running
  <2>1. Running /\ Waits /\ call \in {"idle", "subscribe", "unsubscribe"}
    BY <1>1, <1>2, WaitCalls DEF Running, Controlled
  <2>2. UNCHANGED <<call, result>> \/ WaitEnds
    BY <2>1 DEF LibraryWorks, ResendOne, ResendEnds, ProcessEnds, ConnectionBreaks, caller
  <2>3. CASE WaitEnds
    <3>1. /\ call # "idle" /\ call' = "idle"
          /\ result'.ok => globalAckPacketIdentifier = expected
      BY <2>3 DEF WaitEnds, Return
    <3>. QED  BY <1>1, <2>1, <3>1 DEF Waits, Asks
  <2>4. CASE UNCHANGED <<call, result>>
    BY <1>1, <2>1, <2>4 DEF Waits, Asks
  <2>. QED  BY <2>1, <2>2, <2>3, <2>4
<1>3. CASE toBroker' = toBroker
  BY <1>1, <1>2, <1>3, QuietControl
<1>4. CASE toBroker' # toBroker
  <2>1. PICK data : Put("publish", data)
    BY <1>4, PublishPut
  <2>2. CtlUp' = CtlUp /\ (\A i \in CtlUp : toBroker'[i] = toBroker[i])
        /\ CtlDown' = CtlDown /\ Outstanding' = Outstanding
    BY <1>1, <2>1, PutControl DEF CtlUp, CtlDown, Outstanding
  <2>3. call' = "resend"
    BY <1>4 DEF LibraryWorks, ResendOne, ResendEnds, WaitEnds, ProcessEnds,
                ConnectionBreaks, broker
  <2>4. Running' => Running
    BY <1>1 DEF Running
  <2>5. Running' /\ Outstanding' => Waits'
    BY <1>2, <2>2
  <2>. QED  BY <1>1, <2>2, <2>3, <2>4, <2>5 DEF Controlled, Idents
<1>. QED  BY <1>3, <1>4

\* An acknowledgement of another request than the one awaited changes nothing.
LEMMA ReceiveControl ==
    ASSUME Types, FPTypeOK, Shape, Controlled, Receive
    PROVE  Controlled'
<1>1. /\ UNCHANGED <<toBroker, pc, at, status, started, Idents, expected, result>>
      /\ Step' = Step
  BY DEF Receive, ReceivePacket, Step, Idents
<1>2. call' = call /\ call # "idle"
  BY Matches DEF Receive, ReceivePacket, Waiting
<1>3. /\ Taken /\ toClient # <<>> /\ toClient \in Seq(AckPackets \cup MessagePackets)
      /\ Head(toClient) = toClient[1] /\ 1 \in DOMAIN toClient
      /\ toClient[1] \in AckPackets \cup MessagePackets
  BY TailOf DEF Receive, ReceivePacket, Types, Taken
<1>4. /\ CtlUp' = CtlUp /\ Up' = Up
      /\ \A i \in CtlDown' : i + 1 \in CtlDown /\ toClient'[i] = toClient[i + 1]
      /\ \A i \in Down' : i + 1 \in Down /\ toClient'[i] = toClient[i + 1]
      /\ CtlDown' \subseteq Nat \ {0}
  BY <1>1, <1>3 DEF Taken, CtlUp, Up, CtlDown, Down
<1>5. \A i, j \in CtlDown' : i = j
  <2>. SUFFICES ASSUME NEW i \in CtlDown', NEW j \in CtlDown'
                PROVE  i = j
    OBVIOUS
  <2>1. i + 1 = j + 1 /\ i \in Nat /\ j \in Nat
    BY <1>4 DEF Controlled
  <2>. QED  BY <2>1
<1>6. ASSUME Running', Outstanding'
      PROVE  Waits' /\ Running
  <2>1. Running /\ Outstanding
    BY <1>1, <1>4, <1>6 DEF Running, Outstanding
  <2>2. Waits /\ call \in {"subscribe", "unsubscribe"}
    BY <1>2, <2>1, WaitCalls DEF Controlled
  <2>3. globalAckPacketIdentifier # expected /\ started /\ Asks
    BY <1>2, <2>2 DEF Waits
  <2>4. toClient[1].type \notin {"suback", "unsuback"}
    <3>1. ASSUME 1 \in CtlDown
          PROVE  FALSE
      <4>1. CtlUp' = {} /\ CtlDown' = {}
        <5>1. \A i \in CtlDown' : i + 1 = 1 /\ i \in Nat \ {0}
          BY <1>4, <3>1 DEF Controlled
        <5>. QED  BY <1>4, <3>1, <5>1 DEF Controlled
      <4>. QED  BY <1>6, <4>1 DEF Outstanding
    <3>. QED  BY <1>3, <3>1 DEF CtlDown
  <2>5. globalAckPacketIdentifier' # expected
    <3>1. PICK q \in AckPackets \cup MessagePackets : q = toClient[1]
      BY <1>3
    <3>2. IF q.type = "publish" THEN Incoming(q) ELSE Acknowledge(q)
      BY <1>3, <3>1 DEF Receive, ReceivePacket
    <3>3. CASE q.type = "publish"
      BY <2>3, <3>2, <3>3 DEF Incoming
    <3>4. CASE q.type = "puback"
      <4>1. 1 \in Down
        BY <1>3, <3>1, <3>4 DEF Down
      <4>2. q.id # expected
        BY <2>2, <3>1, <4>1 DEF Controlled
      <4>. QED  BY <3>2, <3>4, <4>2 DEF Acknowledge
    <3>. QED  BY <2>4, <3>1, <3>3, <3>4 DEF AckPackets, MessagePackets
  <2>. QED  BY <1>1, <1>2, <2>1, <2>3, <2>5 DEF Waits, Asks
<1>7. Running' => Running
  BY <1>1 DEF Running
<1>. QED  BY <1>1, <1>2, <1>4, <1>5, <1>6, <1>7 DEF Controlled, Idents, CtlUp

\* What the broker has acknowledged is no longer on the wire to it.
LEMMA HandledUp ==
    ASSUME Types, CloudHandles
    PROVE  /\ 1 \in DOMAIN toBroker /\ Head(toBroker) = toBroker[1]
           /\ toBroker[1] \in RequestPackets
           /\ \A i \in DOMAIN toBroker' : /\ i \in Nat \ {0} /\ i + 1 \in DOMAIN toBroker
                                          /\ toBroker'[i] = toBroker[i + 1]
           /\ \A i \in CtlUp' : i + 1 \in CtlUp
           /\ \A i \in Up' : i + 1 \in Up
<1>1. toBroker # <<>> /\ toBroker \in Seq(RequestPackets) /\ toBroker' = Tail(toBroker)
  BY DEF CloudHandles, BrokerHandles, Types
<1>. QED  BY <1>1, TailOf DEF CtlUp, Up

LEMMA CloudControl ==
    ASSUME Types, FPTypeOK, Controlled, CloudHandles, [FPNext]_fpVars
    PROVE  Controlled'
<1>1. /\ UNCHANGED <<pc, at, status, started, call, expected, result, Idents,
                     globalAckPacketIdentifier>>
      /\ Step' = Step
  BY DEF CloudHandles, BrokerHandles, flow, client, caller, Step, Idents
<1>2. (Running' => Running) /\ (Waits => Waits')
  BY <1>1 DEF Running, Waits, Asks
<1>3. \A i, j \in CtlUp' : i = j
  <2>. SUFFICES ASSUME NEW i \in CtlUp', NEW j \in CtlUp'
                PROVE  i = j
    OBVIOUS
  <2>1. i + 1 = j + 1 /\ i \in Nat /\ j \in Nat
    BY HandledUp DEF Controlled, CtlUp
  <2>. QED  BY <2>1
<1>4. ASSUME toBroker[1].type # "publish"
      PROVE  CtlUp' = {} /\ CtlDown = {} /\ 1 \in CtlUp
  <2>1. 1 \in CtlUp
    BY <1>4, HandledUp DEF CtlUp
  <2>2. \A i \in CtlUp' : i \in Nat \ {0} /\ i + 1 = 1
    BY <2>1, HandledUp DEF Controlled, CtlUp
  <2>. QED  BY <2>1, <2>2 DEF Controlled
<1>5. ASSUME NEW data, toBroker[1].type = "publish",
             toClient' = toClient \/ (Added("puback", data)
                              /\ toClient'[Len(toClient) + 1].id = toBroker[1].id)
      PROVE  Controlled'
  <2>1. /\ CtlDown' = CtlDown /\ (\A i \in CtlDown : toClient'[i] = toClient[i])
        /\ \A i \in Down' : \/ i \in Down /\ toClient'[i] = toClient[i]
                            \/ toClient'[i].id = toBroker[1].id
    BY <1>5, AddedControl DEF CtlDown, Down
  <2>2. 1 \in Up
    BY <1>5, HandledUp DEF Up
  <2>3. Outstanding' => Outstanding
    BY <2>1, HandledUp DEF Outstanding
  <2>4. call' \in {"subscribe", "unsubscribe"} =>
          /\ \A i \in Up' : toBroker'[i].id # expected'
          /\ \A i \in Down' : toClient'[i].id # expected'
    BY <1>1, <2>1, <2>2, HandledUp DEF Controlled, Up
  <2>5. /\ \A i \in CtlUp' :
             toBroker'[i].id = IF toBroker'[i].type = "subscribe"
                               THEN globalSubscribePacketIdentifier'
                               ELSE globalUnsubscribePacketIdentifier'
        /\ Running' => \A i \in CtlUp' :
                          /\ toBroker'[i].type = "unsubscribe" <=> Step'.run # "subscribe"
                          /\ toBroker'[i].data = Step'.topic
    BY <1>1, <1>2, HandledUp DEF Controlled, Idents, CtlUp
  <2>6. CtlUp' = {} \/ CtlDown' = {}
    BY <2>1, HandledUp DEF Controlled
  <2>7. \A i \in CtlDown' :
          toClient'[i].id = IF toClient'[i].type = "suback"
                            THEN globalSubscribePacketIdentifier'
                            ELSE globalUnsubscribePacketIdentifier'
    BY <1>1, <2>1 DEF Controlled, Idents
  <2>8. Running' /\ Outstanding' => Waits'
    BY <1>2, <2>3 DEF Controlled
  <2>9. \A i, j \in CtlDown' : i = j
    BY <2>1 DEF Controlled
  <2>. QED  BY <1>3, <2>4, <2>5, <2>6, <2>7, <2>8, <2>9 DEF Controlled
<1>6. ASSUME NEW data, NEW type,
             Added(type, data), toClient'[Len(toClient) + 1].id = toBroker[1].id,
             \/ toBroker[1].type = "subscribe" /\ type = "suback"
             \/ toBroker[1].type = "unsubscribe" /\ type = "unsuback"
      PROVE  Controlled'
  <2>. DEFINE last == Len(toClient) + 1
  <2>1. CtlUp' = {} /\ CtlDown' = {last} /\ 1 \in CtlUp
    BY <1>4, <1>6, AddedControl
  <2>2. Down' = Down /\ (\A i \in Down : toClient'[i] = toClient[i])
        /\ toClient'[last].type = type
    BY <1>6, AddedControl DEF Down
  <2>3. toClient'[last].id = IF toClient'[last].type = "suback"
                             THEN globalSubscribePacketIdentifier'
                             ELSE globalUnsubscribePacketIdentifier'
    BY <1>1, <1>6, <2>1, <2>2 DEF Controlled, Idents
  <2>4. call' \in {"subscribe", "unsubscribe"} =>
          /\ \A i \in Up' : toBroker'[i].id # expected'
          /\ \A i \in Down' : toClient'[i].id # expected'
    BY <1>1, <2>2, HandledUp DEF Controlled, Up
  <2>5. Running' => Waits'
    BY <1>2, <2>1 DEF Controlled, Outstanding
  <2>. HIDE DEF last
  <2>. QED  BY <2>1, <2>3, <2>4, <2>5 DEF Controlled
<1>7. CASE toClient' = toClient
  <2>1. toBroker[1].type = "publish"
    <3>1. toBroker[1].type # "publish" =>
             \E t, i, n : toClient' = Append(toClient, Packet(t, i, n, Empty))
      BY HandledUp DEF CloudHandles, BrokerHandles
    <3>2. \A m : toClient # Append(toClient, m)
      <4>1. Len(toClient) \in Nat /\ toClient \in Seq(AckPackets \cup MessagePackets)
        BY Sent DEF Types
      <4>. QED  BY <4>1
    <3>. QED  BY <1>7, <3>1, <3>2
  <2>. QED  BY <1>5, <1>7, <2>1
<1>8. toClient' # <<>> \/ toClient' = toClient
  <2>1. \/ toClient' = toClient
        \/ \E t, i, n : toClient' = Append(toClient, Packet(t, i, n, Empty))
    BY DEF CloudHandles, BrokerHandles
  <2>2. \A m : Append(toClient, m) # <<>>
    <3>1. Len(toClient) \in Nat /\ toClient \in Seq(AckPackets \cup MessagePackets)
      BY Sent DEF Types
    <3>. QED  BY <3>1
  <2>. QED  BY <2>1, <2>2
<1>9. ~Taken /\ ~\E r \in responses : CloudResponds(r)
  <2>1. toBroker' # toBroker
    BY HandledUp, Sent DEF Types
  <2>. QED  BY <2>1 DEF Taken, Receive, ReceivePacket, CloudResponds, BrokerSends
<1>. QED  BY <1>5, <1>6, <1>7, <1>8, <1>9, Deliveries

LEMMA ControlledStep ==
    ASSUME Types, First, FPTypeOK, Shape, Controlled, [FPNext]_fpVars
    PROVE  Controlled'
<1>1. CASE Restart
  <2>1. toBroker' = <<>> /\ toClient' = <<>> /\ call' = "idle"
    BY <1>1 DEF Restart
  <2>2. CtlUp' = {} /\ CtlDown' = {}
    BY <2>1 DEF CtlUp, CtlDown
  <2>. QED  BY <2>1, <2>2 DEF Controlled, Outstanding
<1>2. CASE Ends
  <2>1. UNCHANGED Idents /\ (call' # "idle" => UNCHANGED <<call, expected>>)
    BY <1>2 DEF Ends, Close, DeviceReturns, Retry, SkipSteps, Disconnect, Return, vars,
                client, caller, Idents
  <2>. QED  BY <1>2, <2>1, EndsKeep, QuietControl
<1>3. CASE Own
  <2>1. /\ Running /\ call' = "idle" /\ UNCHANGED <<toBroker, toClient, Idents>>
        /\ Running' => Proceed
    <3>1. UNCHANGED Idents
      BY <1>3 DEF Own, StepReturns, ParseKeys, LoadKey, LoadCertificate, WriteCertificate,
                  Generate, ParseRegister, FillBuffer, vars, client, Idents
    <3>. QED  BY <1>3, <3>1, OwnKeep DEF broker
  <2>2. Running' => ~Outstanding
    <3>. SUFFICES ASSUME Running', Outstanding
                  PROVE  FALSE
      OBVIOUS
    <3>1. Waits
      BY <2>1 DEF Controlled
    <3>2. call = "idle" /\ ~result.ok
      BY <1>3, <3>1, OwnKeep DEF Waits
    <3>3. StepReturns
      BY <1>3, <3>1, StepFacts DEF Own, Waits, ParseKeys, LoadKey, LoadCertificate,
         WriteCertificate, Generate, ParseRegister, AtStep
    <3>4. ~Succeeded
      BY <3>1, <3>2, StepFacts DEF Succeeded, Waits, Asks
    <3>5. pc' = "close"
      BY <3>3, <3>4 DEF StepReturns, Abandon
    <3>. QED  BY <3>5 DEF Running
  <2>. QED  BY <2>1, <2>2, QuietControl
<1>4. CASE MqttCall
  BY <1>4, CallControl
<1>5. CASE LibraryWorks
  BY <1>5, LibraryControl
<1>6. CASE Receive
  BY <1>6, ReceiveControl
<1>7. CASE CloudHandles
  BY <1>7, CloudControl
<1>8. ASSUME NEW r \in responses, CloudResponds(r)
      PROVE  Controlled'
  <2>1. /\ UNCHANGED <<toBroker, pc, at, status, started, call, expected, result, Idents,
                       globalAckPacketIdentifier>>
        /\ Step' = Step
    BY <1>8 DEF CloudResponds, BrokerSends, flow, client, caller, Step, Idents
  <2>2. /\ CtlUp' = CtlUp /\ Up' = Up /\ (Running' => Running) /\ (Waits => Waits')
    BY <2>1 DEF CtlUp, Up, Running, Waits, Asks
  <2>3. Added("publish", r) \/ toClient' \in {toClient, <<>>}
    <3>1. ~Taken /\ ~CloudHandles
      <4>1. CloudHandles => toBroker' # toBroker
        BY HandledUp, Sent DEF Types
      <4>2. toClient' = Append(toClient, Packet("publish", 0, 0, r))
        BY <1>8 DEF CloudResponds, BrokerSends
      <4>3. Receive => Len(toClient') = Len(toClient) - 1
        BY HeadTailProperties DEF Receive, ReceivePacket, Types
      <4>4. Len(toClient') = Len(toClient) + 1 /\ Len(toClient) \in Nat
        BY <4>2, Sent DEF Types
      <4>. QED  BY <2>1, <4>1, <4>3, <4>4 DEF Taken
    <3>2. \A q \in responses : Added("publish", q) => Added("publish", r)
      <4>1. toClient' = Append(toClient, Packet("publish", 0, 0, r))
        BY <1>8 DEF CloudResponds, BrokerSends
      <4>2. Packet("publish", 0, 0, r) \in MessagePackets
        BY ContentsAssumption DEF Packet, MessagePackets, FPTypeOK
      <4>3. PICK m \in MessagePackets : m = Packet("publish", 0, 0, r)
        BY <4>2
      <4>4. toClient'[Len(toClient) + 1] = m /\ m.data = r
        BY <4>1, <4>3, AppendOf DEF Types, Packet
      <4>. QED  BY <4>4 DEF Added
    <3>. QED  BY <3>1, <3>2, Deliveries
  <2>4. CASE Added("publish", r)
    <3>1. /\ CtlDown' = CtlDown /\ Down' = Down /\ Outstanding' = Outstanding
          /\ \A i \in DOMAIN toClient : toClient'[i] = toClient[i]
      BY <2>2, <2>4, AddedControl DEF Outstanding
    <3>. QED  BY <2>1, <2>2, <3>1 DEF Controlled, Idents, CtlDown, Down
  <2>5. CASE toClient' \in {toClient, <<>>}
    BY <2>1, <2>2, <2>5, QuietControl DEF Controlled
  <2>. QED  BY <2>3, <2>4, <2>5
<1>9. CASE ClaimEstablish \/ AwaitResponse \/ DeviceEstablish
  <2>1. /\ UNCHANGED <<pc, at, status, Idents>> /\ ~started
        /\ toBroker' \in {toBroker, <<>>} /\ toClient' \in {toClient, <<>>}
        /\ call' \in {"idle", "resend", "process"} /\ Step' = Step
    BY <1>9 DEF ClaimEstablish, AwaitResponse, DeviceEstablish, ConnectFails, SessionFails,
                Establish, ProcessLoopWithTimeout, Return, broker, client, Step, Idents
  <2>2. ~(Running' /\ Outstanding)
    BY <2>1 DEF Running, Controlled, Waits
  <2>. QED  BY <2>1, <2>2, QuietControl
<1>10. CASE UNCHANGED fpVars \/ \E r \in responses : CloudDrops(r)
  <2>1. UNCHANGED <<vars, flow>>
    BY <1>10 DEF fpVars, CloudDrops
  <2>. QED  BY <2>1 DEF vars, client, caller, broker, flow, Controlled, Outstanding,
                        Waits, Asks, Running, Step, CtlUp, CtlDown, Up, Down
<1>. QED  BY <1>1, <1>2, <1>3, <1>4, <1>5, <1>6, <1>7, <1>8, <1>9, <1>10, AllSteps
          DEF Others

-----------------------------------------------------------------------------
(* After the unsubscribe from the responses to the first request.           *)
LEMMA SubscriptionStays ==
    ASSUME Types, FPTypeOK, Controlled, [FPNext]_fpVars, Running, at >= 10,
           "keysAccepted" \in subscriptions'
    PROVE  "keysAccepted" \in subscriptions
<1>1. CASE CloudHandles
  <2>1. PICK q \in RequestPackets : q = toBroker[1] /\ q = Head(toBroker)
    BY <1>1, HandledUp
  <2>2. subscriptions' \in
            CASE q.type = "subscribe" -> {subscriptions, subscriptions \cup {q.data}}
              [] q.type = "unsubscribe" -> {subscriptions \ {q.data}}
              [] OTHER -> {subscriptions}
    BY <1>1, <2>1 DEF CloudHandles, BrokerHandles
  <2>3. q.type = "subscribe" => q.data # "keysAccepted"
    <3>1. q.type = "subscribe" => 1 \in CtlUp
      BY <1>1, <2>1, HandledUp DEF CtlUp
    <3>2. q.type = "subscribe" => Step.run = "subscribe" /\ q.data = Step.topic
      BY <2>1, <3>1 DEF Controlled
    <3>. QED  BY <3>2, StepFacts
  <2>. QED  BY <2>2, <2>3
<1>2. CASE ~CloudHandles
  <2>1. subscriptions' \in {subscriptions, {}}
    BY <1>2 DEF FPNext, ClaimEstablish, MqttCall, AwaitResponse, StepReturns, ParseKeys,
                LoadKey, LoadCertificate, WriteCertificate, Generate, ParseRegister, Close,
                DeviceEstablish, DeviceReturns, Retry, SkipSteps, Restart, LibraryWorks,
                Receive, ReceivePacket, CloudResponds, BrokerSends, CloudDrops,
                ConnectFails, SessionFails, Establish, ProcessLoopWithTimeout, FillBuffer,
                Disconnect, SubscribeToTopic, UnsubscribeFromTopic, Request,
                PublishToTopic, PublishRefused, ResendOne, ResendEnds, WaitEnds,
                ProcessEnds, ConnectionBreaks, fpVars, vars, broker
  <2>. QED  BY <2>1
<1>. QED  BY <1>1, <1>2

(* A step delivers no response that the session is not subscribed to.       *)
LEMMA NewDelivery ==
    ASSUME Types, FPTypeOK, [FPNext]_fpVars, NEW kind,
           NEW i \in DOMAIN toClient', Delivers(toClient'[i], kind)
    PROVE  \/ \E j \in DOMAIN toClient : toClient'[i] = toClient[j]
           \/ kind \in subscriptions /\ \E r \in responses : r.kind = kind
<1>1. CASE toClient' \in {toClient, <<>>} \/ Taken
  BY <1>1 DEF Taken
<1>2. ASSUME NEW type, NEW data, Added(type, data), type # "publish"
      PROVE  \E j \in DOMAIN toClient : toClient'[i] = toClient[j]
  BY <1>2 DEF Added, Delivers
<1>3. ASSUME NEW r \in responses, CloudResponds(r), Added("publish", r)
      PROVE  \/ \E j \in DOMAIN toClient : toClient'[i] = toClient[j]
             \/ kind \in subscriptions /\ r.kind = kind
  BY <1>3 DEF Added, Delivers, CloudResponds
<1>. QED  BY <1>1, <1>2, <1>3, Deliveries

LEMMA KeysStayGone ==
    ASSUME Types, FPTypeOK, Controlled, [FPNext]_fpVars, Running, at >= 10, KeysGone
    PROVE  KeysGone'
BY SubscriptionStays, NewDelivery DEF KeysGone, Delivers

(* The acknowledgement of the unsubscribe follows all the responses.        *)
LEMMA UnsubscribeOrder ==
    ASSUME Types, FPTypeOK, Shape, Controlled, KeysGoing, [FPNext]_fpVars,
           Running, at = 10, started
    PROVE  \A i \in CtlDown' :
              /\ "keysAccepted" \notin subscriptions'
              /\ \A j \in DOMAIN toClient' : Delivers(toClient'[j], "keysAccepted") => j < i
<1>1. \A i \in CtlDown :
         /\ "keysAccepted" \notin subscriptions
         /\ \A j \in DOMAIN toClient : Delivers(toClient[j], "keysAccepted") => j < i
  BY DEF KeysGoing
<1>2. ASSUME "keysAccepted" \notin subscriptions
      PROVE  "keysAccepted" \notin subscriptions'
  BY <1>2, SubscriptionStays
<1>3. CASE toClient' = toClient
  BY <1>1, <1>2, <1>3 DEF CtlDown
<1>4. CASE toClient' = <<>>
  BY <1>4 DEF CtlDown
<1>5. CASE Taken
  <2>1. /\ \A i \in CtlDown' : i + 1 \in CtlDown /\ i \in Nat
        /\ \A j \in DOMAIN toClient' :
              /\ j + 1 \in DOMAIN toClient /\ toClient'[j] = toClient[j + 1] /\ j \in Nat
    BY <1>5 DEF Taken, CtlDown
  <2>2. ASSUME NEW i \in CtlDown', NEW j \in DOMAIN toClient',
               Delivers(toClient'[j], "keysAccepted")
        PROVE  j < i
    <3>1. j + 1 < i + 1
      BY <1>1, <2>1, <2>2 DEF Delivers
    <3>. QED  BY <2>1, <3>1
  <2>. QED  BY <1>1, <1>2, <2>1, <2>2
<1>6. ASSUME NEW type, NEW data, Added(type, data), type \in {"puback", "publish"},
             type = "publish" => data.kind \in subscriptions
      PROVE  \A i \in CtlDown' :
              /\ "keysAccepted" \notin subscriptions'
              /\ \A j \in DOMAIN toClient' : Delivers(toClient'[j], "keysAccepted") => j < i
  <2>1. CtlDown' = CtlDown
    BY <1>6, AddedControl
  <2>. QED  BY <1>1, <1>2, <1>6, <2>1 DEF Added, Delivers
<1>7. ASSUME CloudHandles, toBroker[1].type \in {"subscribe", "unsubscribe"},
             NEW type, NEW data, Added(type, data), type \in {"suback", "unsuback"}
      PROVE  \A i \in CtlDown' :
              /\ "keysAccepted" \notin subscriptions'
              /\ \A j \in DOMAIN toClient' : Delivers(toClient'[j], "keysAccepted") => j < i
  <2>1. 1 \in CtlUp /\ Head(toBroker) = toBroker[1]
    BY <1>7, HandledUp DEF CtlUp
  <2>2. toBroker[1].type = "unsubscribe" /\ toBroker[1].data = "keysAccepted"
    BY <2>1, StepFacts DEF Controlled
  <2>3. "keysAccepted" \notin subscriptions'
    BY <1>7, <2>1, <2>2 DEF CloudHandles, BrokerHandles
  <2>4. CtlDown' = {Len(toClient) + 1}
    BY <1>7, <2>1, AddedControl DEF Controlled
  <2>. QED  BY <1>7, <2>3, <2>4 DEF Added, Delivers
<1>8. \A r \in responses : CloudResponds(r) => r.kind \in subscriptions
  BY DEF CloudResponds
<1>. QED  BY <1>3, <1>4, <1>5, <1>6, <1>7, <1>8, Deliveries

LEMMA KeysGoingStep ==
    ASSUME Types, FPTypeOK, Shape, Controlled, KeysGoing, [FPNext]_fpVars
    PROVE  KeysGoing'
<1>1. CASE Restart \/ Ends
  <2>1. ~Running' \/ at' = 1
    BY <1>1, EndsKeep DEF Restart, Running
  <2>. QED  BY <2>1 DEF KeysGoing
<1>2. CASE Own
  <2>1. /\ Running /\ call = "idle" /\ ~started' /\ UNCHANGED <<toClient, subscriptions>>
        /\ (Running' => at' = at + 1 /\ Proceed) /\ at \in 1 .. 19
    BY <1>2, OwnKeep, StepFacts DEF broker
  <2>2. Running' /\ at = 10 => KeysGone
    <3>. SUFFICES ASSUME Running', at = 10
                  PROVE  KeysGone
      OBVIOUS
    <3>1. StepReturns
      BY <1>2, StepFacts DEF Own, ParseKeys, LoadKey, LoadCertificate, WriteCertificate,
                             Generate, ParseRegister, AtStep
    <3>2. started /\ Succeeded
      BY <3>1 DEF StepReturns, Abandon, Running
    <3>3. result.ok
      BY <3>2, StepFacts DEF Succeeded
    <3>. QED  BY <2>1, <3>2, <3>3 DEF KeysGoing
  <2>3. Running' /\ at' >= 11 => KeysGone
    BY <2>1, <2>2 DEF KeysGoing
  <2>. QED  BY <2>1, <2>3 DEF KeysGoing, KeysGone
<1>3. CASE Others
  <2>1. UNCHANGED <<pc, at, status>> /\ (Running' => Running) /\ at \in 1 .. 19
    BY <1>3, OthersKeep, StepFacts DEF Running
  <2>2. Running' /\ at' >= 11 => KeysGone'
    <3>1. ASSUME Running, at >= 11
          PROVE  KeysGone'
      <4>1. KeysGone /\ at >= 10
        BY <2>1, <3>1 DEF KeysGoing
      <4>. QED  BY <3>1, <4>1, KeysStayGone
    <3>. QED  BY <2>1, <3>1
  <2>3. ASSUME Running, at = 10, started
        PROVE  IF call' = "idle" THEN result'.ok => KeysGone'
               ELSE globalAckPacketIdentifier' = expected' => KeysGone'
    <3>0. KeysGone => KeysGone'
      BY <2>3, KeysStayGone
    <3>1. call \in {"idle", "unsubscribe"}
      BY <2>3, StepFacts DEF Shape, CallsOf
    <3>2. CASE UNCHANGED <<call, result, globalAckPacketIdentifier, expected>>
      BY <2>3, <3>0, <3>2 DEF KeysGoing
    <3>3. CASE WaitEnds
      <4>1. /\ call # "idle" /\ call' = "idle"
            /\ result'.ok => globalAckPacketIdentifier = expected
        BY <3>3 DEF WaitEnds, Return
      <4>. QED  BY <2>3, <3>0, <4>1 DEF KeysGoing
    <3>4. CASE Receive
      <4>1. /\ call = "unsubscribe" /\ call' = call /\ UNCHANGED expected
            /\ globalAckPacketIdentifier # expected
            /\ toClient # <<>> /\ Head(toClient) = toClient[1] /\ 1 \in DOMAIN toClient
            /\ toClient[1] \in AckPackets \cup MessagePackets
        BY <3>1, <3>4, Matches, TailOf DEF Receive, ReceivePacket, Waiting, Types
      <4>2. PICK q \in AckPackets \cup MessagePackets : q = toClient[1]
        BY <4>1
      <4>3. IF q.type = "publish" THEN Incoming(q) ELSE Acknowledge(q)
        BY <3>4, <4>1, <4>2 DEF Receive, ReceivePacket
      <4>4. CASE q.type = "publish"
        BY <4>1, <4>3, <4>4 DEF Incoming
      <4>5. CASE q.type = "puback"
        <5>1. 1 \in Down
          BY <4>1, <4>2, <4>5 DEF Down
        <5>2. q.id # expected
          BY <4>1, <4>2, <5>1 DEF Controlled
        <5>. QED  BY <4>1, <4>3, <4>5, <5>2 DEF Acknowledge
      <4>6. CASE q.type \in {"suback", "unsuback"}
        <5>1. 1 \in CtlDown
          BY <4>1, <4>2, <4>6 DEF CtlDown
        <5>2. /\ "keysAccepted" \notin subscriptions
              /\ \A j \in DOMAIN toClient : Delivers(toClient[j], "keysAccepted") => j < 1
          BY <2>3, <5>1 DEF KeysGoing
        <5>3. \A j \in DOMAIN toClient : ~(j < 1)
          BY Sent
        <5>. QED  BY <3>0, <4>1, <5>2, <5>3 DEF KeysGone
      <4>. QED  BY <4>4, <4>5, <4>6 DEF AckPackets, MessagePackets
    <3>5. CASE ~WaitEnds /\ ~Receive
      <4>1. ~ClaimEstablish /\ ~MqttCall /\ ~AwaitResponse /\ ~DeviceEstablish
        BY <2>3 DEF ClaimEstablish, MqttCall, AwaitResponse, DeviceEstablish
      <4>2. UNCHANGED <<call, result, globalAckPacketIdentifier, expected>>
        BY <1>3, <3>1, <3>5, <4>1
        DEF Others, LibraryWorks, ResendOne, ResendEnds, ProcessEnds, ConnectionBreaks,
            CloudHandles, BrokerHandles, CloudResponds, BrokerSends, CloudDrops, fpVars,
            vars, client, caller
      <4>. QED  BY <3>2, <4>2
    <3>. QED  BY <3>3, <3>4, <3>5
  <2>4. ASSUME Running, at = 10, ~started, started'
        PROVE  /\ CtlDown' = {}
               /\ IF call' = "idle" THEN ~result'.ok
                  ELSE globalAckPacketIdentifier' # expected'
    <3>1. MqttCall
      BY <1>3, <2>4, OthersKeep, StepFacts
      DEF ClaimEstablish, AwaitResponse, DeviceEstablish, AtStep, Running
    <3>2. UnsubscribeFromTopic(Step.topic)
      BY <2>4, <3>1, StepFacts DEF MqttCall, AtStep
    <3>3. CtlDown = {} /\ CtlDown' = {}
      BY <2>4, <3>2 DEF Controlled, Waits, Outstanding, UnsubscribeFromTopic, Request,
                        CtlDown
    <3>4. connection # "none" => nextPacketId # 0
      BY BoundsAssumption DEF Types, TypeOK
    <3>. QED  BY <3>2, <3>3, <3>4 DEF UnsubscribeFromTopic, Request, MayRequest, Return
  <2>5. ASSUME Running', at' = 10, started'
        PROVE  /\ \A i \in CtlDown' :
                     /\ "keysAccepted" \notin subscriptions'
                     /\ \A j \in DOMAIN toClient' :
                           Delivers(toClient'[j], "keysAccepted") => j < i
               /\ IF call' = "idle" THEN result'.ok => KeysGone'
                  ELSE globalAckPacketIdentifier' = expected' => KeysGone'
    <3>1. CASE started
      BY <2>1, <2>3, <2>5, <3>1, UnsubscribeOrder
    <3>2. CASE ~started
      BY <2>1, <2>4, <2>5, <3>2
    <3>. QED  BY <3>1, <3>2
  <2>. QED  BY <2>2, <2>5 DEF KeysGoing, Delivers
<1>. QED  BY <1>1, <1>2, <1>3, AllSteps

-----------------------------------------------------------------------------
(* Until the device restarts.                                              *)

(* The store's key changes, and the flow goes on, by the script's own steps. *)
LEMMA OwnStore ==
    ASSUME FPTypeOK, Shape, Own
    PROVE  /\ storedKey' # storedKey => at = 7
           /\ at = 12 /\ Running' => payloadBuffer'.kind = "request"
           /\ at # 12 => payloadBuffer' = payloadBuffer
           /\ at = 16 /\ Running' => started /\ responseStatus = "Accepted"
           /\ UNCHANGED <<session, responses, active>>
<1>1. CASE StepReturns
  <2>1. call \in CallsOf(Step.run) /\ at # 12
    <3>1. call \in CallsOf(Step.run)
      BY <1>1 DEF StepReturns, Shape, Running
    <3>. QED  BY <3>1, StepFacts DEF CallsOf
  <2>2. at = 16 /\ Running' => started /\ responseStatus = "Accepted"
    BY <1>1, StepFacts DEF StepReturns, Succeeded, Abandon, Running
  <2>. QED  BY <1>1, <2>1, <2>2 DEF StepReturns, vars, caller, broker, store, cloud
<1>2. CASE ParseKeys \/ ParseRegister
  BY <1>2, StepFacts DEF ParseKeys, ParseRegister, AtStep, Fails, vars, caller, broker, store,
                         cloud
<1>3. CASE LoadKey \/ LoadCertificate \/ WriteCertificate
  BY <1>3, StepFacts DEF LoadKey, LoadCertificate, WriteCertificate, AtStep, Fails, vars,
                         caller, broker, store, cloud
<1>4. CASE Generate
  <2>1. Response("request", certificate).kind = "request"
    BY DEF Response
  <2>. QED  BY <1>4, <2>1, StepFacts DEF Generate, AtStep, FillBuffer, Abandon, Running, vars,
                                        caller, broker, store, cloud
<1>. QED  BY <1>1, <1>2, <1>3, <1>4 DEF Own

(* The registrations of a step are asked for, and answered.                 *)
LEMMA Registrations ==
    ASSUME Types, FPTypeOK, Asked, [FPNext]_fpVars
    PROVE  /\ active \subseteq active'
           /\ active' # active =>
                 /\ CloudHandles /\ active' = active \cup {storedKey}
                 /\ Same(storedKey)
                 /\ \E i \in DOMAIN toBroker : Registers(toBroker[i])
           /\ \A r \in responses' : r.kind = "registerAccepted" =>
                 r \in responses \/ (CloudHandles /\ storedKey \in active')
<1>1. CASE CloudHandles
  <2>1. PICK q \in RequestPackets : q = toBroker[1] /\ q = Head(toBroker)
    BY <1>1, HandledUp
  <2>2. CASE /\ q.type = "publish" /\ q.data # Empty
             /\ q.data.kind = "request" /\ q.data.id \in issued
             /\ active' = active \cup {q.data.id}
             /\ responses' = responses \cup {Response("registerAccepted", q.data.id)}
    <3>1. 1 \in DOMAIN toBroker /\ Registers(toBroker[1]) /\ Same(q.data.id)
      BY <1>1, <2>1, <2>2, HandledUp DEF Registers, Asked
    <3>. QED  BY <1>1, <2>2, <3>1 DEF Same
  <2>3. CASE /\ active' = active
             /\ \E n : responses' \subseteq responses \cup
                  {Response("keysAccepted", n), Response("keysRejected", Nothing),
                   Response("registerRejected", Nothing)}
    BY <2>3 DEF Response
  <2>. QED  BY <1>1, <2>1, <2>2, <2>3 DEF CloudHandles
<1>2. CASE ~CloudHandles
  <2>1. active' = active /\ responses' \subseteq responses
    BY <1>2 DEF FPNext, ClaimEstablish, MqttCall, AwaitResponse, StepReturns, ParseKeys,
                LoadKey, LoadCertificate, WriteCertificate, Generate, ParseRegister, Close,
                DeviceEstablish, DeviceReturns, Retry, SkipSteps, Restart, LibraryWorks,
                Receive, CloudResponds, CloudDrops, fpVars, cloud
  <2>. QED  BY <1>2, <2>1
<1>. QED  BY <1>1, <1>2

\* The parts of Fresh.
FreshCloud ==
    /\ active \subseteq {storedKey}
    /\ \A r \in responses : r.kind = "registerAccepted" => storedKey \in active
    /\ \A i \in DOMAIN toClient :
          Delivers(toClient[i], "registerAccepted") => storedKey \in active
FreshBefore ==
    /\ Before => /\ active = {}
                 /\ \A i \in DOMAIN toBroker : ~Registers(toBroker[i])
    /\ Running /\ at \in 13 .. 15 /\ (at = 15 => ~started) =>
          payloadBuffer.kind = "request"
FreshAfter ==
    /\ Running /\ \/ at = 16 /\ started /\ responseStatus = "Accepted"
                  \/ at >= 17
       =>
          storedKey \in active
    /\ pc # "script" /\ status => storedKey \in active
FreshSession ==
    /\ Running /\ at = 1 /\ ~started => ~session
    /\ pc = "script" => call # "resend"

LEMMA FreshCloudStep ==
    ASSUME Types, FPTypeOK, Shape, Asked, FreshCloud, FreshBefore, [FPNext]_fpVars, ~Restart
    PROVE  FreshCloud'
<1>1. CASE storedKey' # storedKey
  <2>1. Own
    BY <1>1, OthersKeep, EndsKeep, AllSteps DEF store
  <2>2. Before /\ active = {} /\ active' = {} /\ responses' = responses
        /\ toClient' = toClient
    <3>1. Before
      BY <1>1, <2>1, OwnStore, OwnKeep DEF Before
    <3>. QED  BY <2>1, <3>1, OwnStore, OwnKeep DEF FreshBefore, broker
  <2>. QED  BY <2>2 DEF FreshCloud, Delivers
<1>2. CASE storedKey' = storedKey
  <2>1. storedKey \in active => storedKey' \in active'
    BY <1>2, Registrations
  <2>2. active' \subseteq {storedKey'}
    BY <1>2, Registrations DEF FreshCloud
  <2>3. \A r \in responses' : r.kind = "registerAccepted" => storedKey' \in active'
    BY <1>2, <2>1, Registrations DEF FreshCloud
  <2>4. ASSUME NEW i \in DOMAIN toClient', Delivers(toClient'[i], "registerAccepted")
        PROVE  storedKey' \in active'
    BY <2>1, <2>4, NewDelivery DEF FreshCloud, Delivers
  <2>. QED  BY <2>2, <2>3, <2>4 DEF FreshCloud, Delivers
<1>. QED  BY <1>1, <1>2

LEMMA FreshBeforeStep ==
    ASSUME Types, FPTypeOK, Shape, Asked, KeysGoing, FreshCloud, FreshBefore, FreshSession,
           [FPNext]_fpVars, ~Restart
    PROVE  FreshBefore'
<1>1. CASE Ends
  BY <1>1, EndsKeep DEF FreshBefore, Before, Running
<1>2. CASE Own
  <2>1. /\ Running /\ ~started' /\ at \in 1 .. 19 /\ toBroker' = toBroker
        /\ Running' => at' = at + 1
    BY <1>2, OwnKeep, StepFacts DEF broker
  <2>2. Before' => Before
    BY <2>1 DEF Before, Running
  <2>3. Running' /\ at' \in 13 .. 15 => payloadBuffer'.kind = "request"
    BY <1>2, <2>1, OwnStore DEF FreshBefore
  <2>. QED  BY <1>2, <2>1, <2>2, <2>3, OwnStore DEF FreshBefore, Registers
<1>3. CASE Others
  <2>1. UNCHANGED <<pc, at, status>> /\ (started => started') /\ (Running' => Running)
    BY <1>3, OthersKeep DEF Running
  <2>2. Before' => Before
    BY <2>1 DEF Before
  <2>3. Before' => active' = {}
    BY <2>2, Registrations DEF FreshBefore
  <2>4. ASSUME Before', NEW i \in DOMAIN toBroker'
        PROVE  ~Registers(toBroker'[i])
    <3>1. ~(MqttCall /\ at = 15)
      BY <2>4 DEF Before, MqttCall
    <3>2. ~(LibraryWorks /\ call = "resend")
      BY <2>2, <2>4 DEF Before, Running, FreshSession
    <3>. QED  BY <2>2, <2>4, <3>1, <3>2, Additions DEF FreshBefore, Registers
  <2>5. ASSUME Running', at' \in 13 .. 15, at' = 15 => ~started'
        PROVE  payloadBuffer'.kind = "request"
    <3>1. payloadBuffer.kind = "request" /\ Before /\ Running /\ KeysGone /\ active = {}
      BY <2>1, <2>5 DEF FreshBefore, Before, KeysGoing
    <3>2. CASE payloadBuffer' = payloadBuffer
      BY <3>1, <3>2
    <3>3. CASE Generate /\ payloadBuffer' = Response("request", certificate)
      BY <3>3 DEF Response
    <3>4. ASSUME Receive, toClient # <<>>, toClient[1].type = "publish",
                 payloadBuffer' = toClient[1].data, payloadBuffer' \in Accepted
          PROVE  FALSE
      <4>1. 1 \in DOMAIN toClient
        BY <3>4, TailOf DEF Types
      <4>2. toClient[1].data.kind \in {"keysAccepted", "registerAccepted"}
        BY <3>4 DEF Accepted
      <4>. QED  BY <3>1, <3>4, <4>1, <4>2 DEF KeysGone, FreshCloud, Delivers
    <3>. QED  BY <3>2, <3>3, <3>4, BufferKept
  <2>. QED  BY <2>3, <2>4, <2>5 DEF FreshBefore, Registers
<1>. QED  BY <1>1, <1>2, <1>3, AllSteps

LEMMA FreshAfterStep ==
    ASSUME Types, FPTypeOK, Shape, Asked, KeysGoing, FreshCloud, FreshAfter,
           [FPNext]_fpVars, ~Restart
    PROVE  FreshAfter'
<1>0. storedKey' = storedKey /\ storedKey \in active => storedKey' \in active'
  BY Registrations
<1>1. CASE Ends
  BY <1>0, <1>1, EndsKeep DEF FreshAfter, Running, store
<1>2. CASE Own
  <2>1. /\ Running /\ ~started' /\ at \in 1 .. 19
        /\ Running' => at' = at + 1
        /\ pc' # "script" /\ status' => at >= 18
    BY <1>2, OwnKeep, StepFacts
  <2>2. ASSUME at >= 16, Running' \/ at >= 18
        PROVE  storedKey' \in active'
    <3>1. storedKey' = storedKey
      BY <1>2, <2>2, OwnStore
    <3>2. storedKey \in active
      <4>1. CASE at = 16
        BY <1>2, <2>1, <2>2, <4>1, OwnStore DEF FreshAfter
      <4>2. CASE at # 16
        BY <2>1, <2>2, <4>2 DEF FreshAfter
      <4>. QED  BY <4>1, <4>2
    <3>. QED  BY <1>0, <3>1, <3>2
  <2>. QED  BY <2>1, <2>2 DEF FreshAfter
<1>3. CASE Others
  <2>1. UNCHANGED <<pc, at, status, storedKey>> /\ (Running' => Running)
        /\ at \in 1 .. 19
    BY <1>3, OthersKeep, StepFacts DEF Running, store
  <2>2. ASSUME Running, at = 16, started', responseStatus' = "Accepted"
        PROVE  storedKey \in active
    <3>1. CASE started /\ responseStatus' = responseStatus
      BY <2>2, <3>1 DEF FreshAfter
    <3>2. CASE ~started
      <4>1. AwaitResponse
        BY <1>3, <2>2, <3>2, OthersKeep, StepFacts
        DEF ClaimEstablish, MqttCall, DeviceEstablish, AtStep, Running
      <4>. QED  BY <2>2, <4>1 DEF AwaitResponse
    <3>3. CASE started /\ responseStatus' # responseStatus
      <4>1. Receive
        BY <1>3, <3>3 DEF Others, ClaimEstablish, MqttCall, AwaitResponse, DeviceEstablish,
              LibraryWorks, CloudHandles, CloudResponds, CloudDrops, fpVars, flow
      <4>2. /\ 1 \in DOMAIN toClient /\ Head(toClient) = toClient[1]
            /\ responseStatus' = ResponseOf(toClient[1])
        BY <4>1, TailOf DEF Receive, ReceivePacket, Types
      <4>3. toClient[1].type = "publish" /\ toClient[1].data \in Accepted
        <5>1. toClient[1].type # "publish" => responseStatus' = responseStatus
          <6>1. toClient[1].type # "publish" => toClient[1].data \notin Accepted
            BY <4>2, Sent, PayloadsAssumption, ContentsAssumption DEF AckPackets
          <6>. QED  BY <4>2, <6>1 DEF ResponseOf
        <5>2. toClient[1].type = "publish" /\ toClient[1].data \notin Accepted
                 => responseStatus' = "Rejected"
          BY <4>2 DEF ResponseOf
        <5>. QED  BY <2>2, <3>3, <5>1, <5>2
      <4>4. toClient[1].data.kind \in {"keysAccepted", "registerAccepted"}
        BY <4>3 DEF Accepted
      <4>. QED  BY <2>2, <4>2, <4>3, <4>4 DEF KeysGoing, KeysGone, FreshCloud, Delivers
    <3>. QED  BY <3>1, <3>2, <3>3
  <2>3. Running' /\ at' = 16 /\ started' /\ responseStatus' = "Accepted"
           => storedKey' \in active'
    BY <1>0, <2>1, <2>2
  <2>4. Running' /\ at' >= 17 => storedKey' \in active'
    BY <1>0, <2>1 DEF FreshAfter
  <2>5. pc' # "script" /\ status' => storedKey' \in active'
    BY <1>0, <2>1 DEF FreshAfter
  <2>. QED  BY <2>3, <2>4, <2>5 DEF FreshAfter
<1>. QED  BY <1>1, <1>2, <1>3, AllSteps

LEMMA FreshSessionStep ==
    ASSUME Types, FPTypeOK, Shape, FreshSession, [FPNext]_fpVars, ~Restart
    PROVE  FreshSession'
<1>1. CASE Ends
  <2>1. pc' = "script" => pc = "retry" /\ call' = call
    BY <1>1 DEF Ends, Close, DeviceReturns, Retry, SkipSteps, vars, caller
  <2>2. pc = "retry" => call = "idle"
    BY DEF Shape, Running
  <2>. QED  BY <1>1, <2>1, <2>2, EndsKeep DEF FreshSession
<1>2. CASE Own
  <2>1. /\ call' = "idle" /\ at \in 1 .. 19
        /\ Running' => at' = at + 1
    BY <1>2, OwnKeep, StepFacts
  <2>. QED  BY <2>1 DEF FreshSession
<1>3. CASE Others
  <2>1. UNCHANGED <<pc, at, status>> /\ (started => started') /\ (Running' => Running)
    BY <1>3, OthersKeep DEF Running
  <2>2. CASE ClaimEstablish
    <3>1. Running /\ at = 1 /\ ~started /\ started' /\ ~session
      BY <2>2, StepFacts DEF ClaimEstablish, AtStep, Running, FreshSession
    <3>2. call' = "idle"
      BY <2>2, <3>1 DEF ClaimEstablish, ConnectFails, SessionFails, Establish, Return
    <3>. QED  BY <3>1, <3>2 DEF FreshSession
  <2>3. CASE DeviceEstablish
    BY <2>1, <2>3 DEF DeviceEstablish, FreshSession, Running
  <2>4. CASE ~ClaimEstablish /\ ~DeviceEstablish
    <3>1. session' = session /\ (call' = "resend" => call = "resend")
      BY <1>3, <2>4
      DEF Others, MqttCall, AwaitResponse, Receive, LibraryWorks, CloudHandles,
          CloudResponds, CloudDrops, fpVars, vars, caller, broker, SubscribeToTopic,
          UnsubscribeFromTopic, Request, PublishToTopic, PublishRefused,
          ProcessLoopWithTimeout, ReceivePacket, Incoming, Acknowledge, ResendOne,
          ResendEnds, WaitEnds, ProcessEnds, ConnectionBreaks, BrokerHandles,
          BrokerSends, Return
    <3>. QED  BY <2>1, <3>1 DEF FreshSession
  <2>. QED  BY <2>2, <2>3, <2>4
<1>. QED  BY <1>1, <1>2, <1>3, AllSteps

LEMMA FreshStep ==
    ASSUME Types, FPTypeOK, Shape, Asked, KeysGoing, Fresh, [FPNext]_fpVars
    PROVE  Fresh'
<1>1. restarts' = 0 => restarts = 0 /\ ~Restart
  <2>1. CASE Restart
    BY <2>1 DEF Restart, FPTypeOK
  <2>2. CASE ~Restart
    BY <2>2 DEF FPNext, ClaimEstablish, MqttCall, AwaitResponse, StepReturns, ParseKeys,
                LoadKey, LoadCertificate, WriteCertificate, Generate, ParseRegister, Close,
                DeviceEstablish, DeviceReturns, Retry, SkipSteps, LibraryWorks,
                CloudHandles, Receive, CloudResponds, CloudDrops, fpVars
  <2>. QED  BY <2>1, <2>2
<1>2. ASSUME restarts' = 0
      PROVE  FreshCloud' /\ FreshBefore' /\ FreshAfter' /\ FreshSession'
  <2>1. FreshCloud /\ FreshBefore /\ FreshAfter /\ FreshSession /\ ~Restart
    BY <1>1, <1>2 DEF Fresh, FreshCloud, FreshBefore, FreshAfter, FreshSession
  <2>. QED  BY <2>1, FreshCloudStep, FreshBeforeStep, FreshAfterStep, FreshSessionStep
<1>. QED  BY <1>2 DEF Fresh, FreshCloud, FreshBefore, FreshAfter, FreshSession

-----------------------------------------------------------------------------
LEMMA FlowStep == FPInv /\ [FPNext]_fpVars => FPInv'
<1>. SUFFICES ASSUME FPInv, [FPNext]_fpVars PROVE FPInv'
  OBVIOUS
<1>1. Types /\ First /\ StoredOnce
  BY DEF FPInv, IndInv
<1>2. IndInv' /\ TypeOK'
  BY MqttStep DEF FPInv
<1>3. FPTypeOK' /\ Shape' /\ Reached' /\ Asked'
  BY <1>1, <1>2, FlowTypes, ShapeStep, ReachedStep, AskedStep DEF FPInv
<1>4. Controlled' /\ KeysGoing' /\ Fresh' /\ Past'
  BY <1>1, ControlledStep, KeysGoingStep, FreshStep, PastStep DEF FPInv
<1>. QED  BY <1>2, <1>3, <1>4 DEF FPInv

(* The inductive invariant holds in every state.                           *)
THEOREM FPInvariance == FPSpec => []FPInv
BY FlowInit, FlowStep, PTL DEF FPSpec

(* Every variable keeps its type, over any number of power losses.          *)
THEOREM FPTypeCorrect == FPSpec => []FPTypeOK
<1>1. FPInv => FPTypeOK
  BY DEF FPInv
<1>. QED  BY FPInvariance, <1>1, PTL

(* ProvisionDevicePKCS11WithFP returns success only for a device that can   *)
(* connect with what it has stored.                                        *)
THEOREM SuccessesAreUsable == FPSpec => []SuccessIsUsable
<1>1. FPInv => SuccessIsUsable
  BY DEF FPInv, Reached, SuccessIsUsable
<1>. QED  BY FPInvariance, <1>1, PTL

(* The response that the flow takes for the answer to its registration      *)
(* tells that the credentials in the store are registered, as long as the   *)
(* device has not restarted.                                               *)
THEOREM ResponsesAreAnswers == FPSpec => []ResponseIsAnswer
<1>1. FPInv => ResponseIsAnswer
  BY DEF FPInv, Fresh, Shape, ResponseIsAnswer
<1>. QED  BY FPInvariance, <1>1, PTL

(* The assertions of mqttCallback on the identifiers of SUBACK and UNSUBACK *)
(* (mqtt_operations.c:586-588) never fail in the flow.                      *)
THEOREM AssertionsAlwaysHold == FPSpec => []AssertionsHold
<1>1. FPInv => AssertionsHold
  <2>. SUFFICES ASSUME FPInv, call = "aborted" PROVE FALSE
    BY DEF AssertionsHold
  <2>1. started /\ FPTypeOK /\ Shape
    BY DEF FPInv, Shape
  <2>2. ~Running
    BY <2>1 DEF Shape, CallsOf
  <2>. QED  BY <2>1, <2>2 DEF Shape
<1>. QED  BY FPInvariance, <1>1, PTL

(* The cloud registers only the certificate that the device has stored with *)
(* its own key, whatever responses come late or again.                     *)
THEOREM RegistrationsAreStored == FPSpec => RegisteredIsStored
<1>1. FPInv /\ [FPNext]_fpVars =>
         [\A n \in active' \ active : storedKey = n /\ storedCertificate = n]_fpVars
  <2>. SUFFICES ASSUME FPInv, [FPNext]_fpVars, NEW n \in active' \ active
                PROVE  storedKey = n /\ storedCertificate = n
    OBVIOUS
  <2>1. Types /\ FPTypeOK /\ Asked
    BY DEF FPInv, IndInv
  <2>2. active' = active \cup {storedKey} /\ Same(storedKey)
    BY <2>1, Registrations
  <2>. QED  BY <2>2 DEF Same
<1>. QED  BY FPInvariance, <1>1, PTL DEF FPSpec, RegisteredIsStored

(* What PublishToTopic sends of the buffer shared with the responses is the *)
(* request generated into it (fleet_provisioning_keys_cert_demo.c:635), as  *)
(* long as the device has not restarted.                                   *)
THEOREM RequestsAreIntact == FPSpec => RequestIntact
<1>. DEFINE Intact ==
         restarts' = 0 =>
            \A n \in 1 .. Len(toBroker') :
               LET p == toBroker'[n]
               IN  number' # number /\ p.number = number' /\ p.type = "publish"
                      => p.data = Empty \/ p.data.kind = "request"
<1>1. FPInv /\ FPInv' /\ [FPNext]_fpVars => [Intact]_fpVars
  <2>. SUFFICES ASSUME FPInv, FPInv', [FPNext]_fpVars, restarts' = 0,
                       NEW n \in 1 .. Len(toBroker'),
                       number' # number, toBroker'[n].number = number',
                       toBroker'[n].type = "publish"
                PROVE  toBroker'[n].data = Empty \/ toBroker'[n].data.kind = "request"
    OBVIOUS
  <2>1. Types /\ FPTypeOK /\ Past /\ Fresh /\ Types'
    BY DEF FPInv, IndInv
  <2>2. ~Restart /\ restarts = 0
    <3>1. MqttCall \/ Restart
      BY <2>1, NumberGrows
    <3>2. ~Restart
      BY <2>1 DEF Restart, FPTypeOK
    <3>. QED  BY <3>1, <3>2 DEF MqttCall
  <2>3. n \in DOMAIN toBroker'
    <3>1. toBroker' \in Seq(RequestPackets)
      BY <2>1 DEF Types, RequestPackets, PacketIds, Numbers
    <3>. QED  BY <3>1
  <2>4. CASE MqttCall /\ at = 15 /\ toBroker'[n].data = payloadBuffer
    <3>1. Running /\ ~started
      BY <2>4 DEF MqttCall, AtStep, Running
    <3>. QED  BY <2>1, <2>2, <2>4, <3>1 DEF Fresh
  <2>. QED  BY <2>1, <2>2, <2>3, <2>4, NewPublish
<1>. QED  BY FPInvariance, <1>1, PTL DEF FPSpec, RequestIntact
==============================================================================
