-------------------------- MODULE FleetProvisioning --------------------------
(***************************************************************************)
(* ProvisionDevicePKCS11WithFP: the device connects with the claim         *)
(* credentials, asks the cloud for a key pair and a certificate, stores    *)
(* them with PKCS #11, registers them and connects with them.  It calls    *)
(* the functions of MqttOperations one after the other; the device may     *)
(* lose power at any time, which its PKCS #11 store and the broker's       *)
(* session survive.                                                        *)
(*                                                                         *)
(* The cloud is external.  A key pair, its certificate and its ownership   *)
(* token are one number; a topic filter is named like the kind of the      *)
(* payloads published to it.                                               *)
(***************************************************************************)
EXTENDS MqttOperations

CONSTANTS
    MaxLoopCount,       \* FLEET_PROV_MAX_DEMO_LOOP_COUNT
    MaxKeys,            \* bound: key pairs the cloud creates
    MaxRepeats,         \* bound: responses the broker delivers again
    MaxRestarts         \* bound: power losses

Ids == 1 .. MaxKeys
Nothing == 0            \* no credential, or an uninitialised buffer

VARIABLES
    pc, at,             \* the phase, and the step of Script it is at
    started,            \* the MQTT function of the step has been called
    status,
    connectionEstablished,
    demoRunCount,
    responseStatus,
    certificate,        \* the credentials and the token parsed from a response
    returned            \* what ProvisionDevicePKCS11WithFP returned

flow == <<pc, at, started, status, connectionEstablished, demoRunCount,
          responseStatus, certificate, returned>>

VARIABLES
    storedKey, storedCertificate,   \* the PKCS #11 objects of the device labels
    issued, active,                 \* key pairs the cloud created, registered
    responses,                      \* publishes of the cloud not yet delivered
    repeats,
    restarts

store == <<storedKey, storedCertificate>>
cloud == <<issued, active, responses, repeats>>

fpVars == <<vars, flow, store, cloud, restarts>>

Response(kind, n) == [kind |-> kind, id |-> n]

ProvisioningFilters ==
    {"keysAccepted", "keysRejected", "registerAccepted", "registerRejected"}
Accepted == [kind : {"keysAccepted", "registerAccepted"}, id : Ids]
Rejected == [kind : {"keysRejected", "registerRejected"}, id : {Nothing}]
Requests == [kind : {"request"}, id : Ids \cup {Nothing}]
Zeroed == Response("zero", Nothing)

ASSUME FiltersAssumption == Filters = ProvisioningFilters
ASSUME ContentsAssumption ==
    /\ Payloads = Accepted \cup Rejected \cup Requests \cup {Zeroed}
    /\ Copied = Accepted
ASSUME LimitsAssumption ==
    /\ MaxLoopCount \in Nat \ {0}
    /\ MaxKeys \in Nat /\ MaxRepeats \in Nat /\ MaxRestarts \in Nat

\* The steps of an iteration up to the disconnection, each run only while
\* status is true.
Script == <<
    [run |-> "establish"],
    [run |-> "subscribe", topic |-> "keysAccepted"],
    [run |-> "subscribe", topic |-> "keysRejected"],
    [run |-> "publish", pointer |-> "constant"],
    [run |-> "respond"],
    [run |-> "parseKeys"],
    [run |-> "loadKey"],
    [run |-> "loadCertificate"],
    [run |-> "writeCertificate"],
    [run |-> "unsubscribe", topic |-> "keysAccepted"],
    [run |-> "unsubscribe", topic |-> "keysRejected"],
    [run |-> "generate"],
    [run |-> "subscribe", topic |-> "registerAccepted"],
    [run |-> "subscribe", topic |-> "registerRejected"],
    [run |-> "publish", pointer |-> "buffer"],
    [run |-> "respond"],
    [run |-> "parseRegister"],
    [run |-> "lastUnsubscribe", topic |-> "registerAccepted"],
    [run |-> "lastUnsubscribe", topic |-> "registerRejected"] >>

FPTypeOK ==
    /\ TypeOK
    /\ pc \in {"script", "close", "device", "closeDevice", "retry", "returned"}
    /\ at \in 1 .. Len(Script)
    /\ {started, status, connectionEstablished} \subseteq BOOLEAN
    /\ demoRunCount \in 0 .. MaxLoopCount
    /\ responseStatus \in {"NotReceived", "Accepted", "Rejected"}
    /\ {certificate, storedKey, storedCertificate} \subseteq Ids \cup {Nothing}
    /\ returned \in {"no", "success", "failure"}
    /\ issued \subseteq Ids /\ active \subseteq issued
    /\ responses \subseteq Accepted \cup Rejected
    /\ repeats \in 0 .. MaxRepeats /\ restarts \in 0 .. MaxRestarts

FPInit ==
    /\ Init /\ payloadBuffer = Zeroed
    /\ pc = "script" /\ at = 1
    /\ started = FALSE
    /\ status = TRUE
    /\ connectionEstablished = FALSE
    /\ demoRunCount = 0
    /\ responseStatus = "NotReceived"
    /\ certificate = Nothing
    /\ returned = "no"
    /\ storedKey = Nothing /\ storedCertificate = Nothing
    /\ issued = {} /\ active = {} /\ responses = {}
    /\ repeats = 0 /\ restarts = 0

-----------------------------------------------------------------------------
(* Running the script. *)

Step == Script[at]
AtStep(run) == pc = "script" /\ Step.run = run /\ status

ProceedPast ==
    /\ started' = FALSE
    /\ at' = at + 1 /\ pc' = "script"

\* The step has succeeded.
Proceed ==
    /\ started' = FALSE
    /\ IF at < Len(Script) THEN at' = at + 1 /\ pc' = "script"
                           ELSE at' = at /\ pc' = "close"

\* The step has failed: the others are skipped.
Abandon ==
    /\ started' = FALSE
    /\ pc' = "close"
    /\ UNCHANGED at

\* EstablishMqttSession with the claim credentials.
ClaimEstablish ==
    /\ AtStep("establish") /\ ~started
    /\ \/ ConnectFails \/ SessionFails
       \/ \E sessionPresent \in BOOLEAN : Establish(sessionPresent)
    /\ started' = TRUE
    /\ UNCHANGED <<pc, at, status, connectionEstablished, demoRunCount,
                   responseStatus, certificate, returned, store, cloud, restarts>>

MqttCall ==
    /\ ~started
    /\ \/ AtStep("subscribe") /\ SubscribeToTopic(Step.topic)
       \/ (AtStep("unsubscribe") \/ AtStep("lastUnsubscribe"))
             /\ UnsubscribeFromTopic(Step.topic)
       \/ AtStep("publish") /\ (PublishToTopic(Step.pointer) \/ PublishRefused)
    /\ started' = TRUE
    /\ UNCHANGED <<pc, at, status, connectionEstablished, demoRunCount,
                   responseStatus, certificate, returned, store, cloud,
                   restarts>>

\* waitForResponse.
AwaitResponse ==
    /\ AtStep("respond") /\ ~started
    /\ ProcessLoopWithTimeout
    /\ responseStatus' = "NotReceived"
    /\ started' = TRUE
    /\ UNCHANGED <<pc, at, status, connectionEstablished, demoRunCount,
                   certificate, returned, store, cloud, restarts>>

SucceededAlways == TRUE
Succeeded == IF Step.run = "respond" THEN responseStatus = "Accepted" ELSE result.ok

\* What the function of the step made of its call; only the result of the last
\* two unsubscribes is ignored.
StepReturns ==
    /\ pc = "script" /\ started /\ call = "idle"
    /\ status' = (Succeeded \/ Step.run = "lastUnsubscribe")
    /\ connectionEstablished' =
           (connectionEstablished \/ (Step.run = "establish" /\ Succeeded))
    /\ IF Succeeded THEN Proceed ELSE Abandon
    /\ UNCHANGED <<vars, demoRunCount, responseStatus, certificate, returned,
                   store, cloud, restarts>>

FailsUnnoticed == Proceed /\ UNCHANGED <<status, store>>
Fails ==
    /\ status' = FALSE
    /\ Abandon
    /\ UNCHANGED store

\* parseKeyCertResponse finds the credentials in the response it expects; a
\* map without the keys it looks for is no error, and leaves the buffers as
\* they are. It fails on what is not CBOR or does not fit a buffer, perhaps
\* after it has copied the certificate.
ParseKeys ==
    LET parsed == IF payloadBuffer.kind = "keysAccepted"
                  THEN payloadBuffer.id ELSE certificate
    IN
    /\ AtStep("parseKeys")
    /\ \/ Fails /\ certificate' \in {certificate, parsed}
       \/ Proceed /\ certificate' = parsed /\ UNCHANGED <<status, store>>
    /\ UNCHANGED <<vars, connectionEstablished, demoRunCount, responseStatus,
                   returned, cloud, restarts>>

\* loadPrivateKey replaces the key object; the key may not parse, and the
\* object may not be created.
LoadKey ==
    /\ AtStep("loadKey")
    /\ \/ Fails
       \/ /\ certificate # Nothing
          /\ storedKey' = certificate
          /\ Proceed
          /\ UNCHANGED <<status, storedCertificate>>
    /\ UNCHANGED <<vars, connectionEstablished, demoRunCount, responseStatus,
                   certificate, returned, cloud, restarts>>

\* loadCertificate converts the certificate and destroys the old object, ...
LoadCertificate ==
    /\ AtStep("loadCertificate")
    /\ \/ Fails
       \/ /\ certificate # Nothing
          /\ storedCertificate' = Nothing
          /\ Proceed
          /\ UNCHANGED <<status, storedKey>>
    /\ UNCHANGED <<vars, connectionEstablished, demoRunCount, responseStatus,
                   certificate, returned, cloud, restarts>>

\* ... and creates the new one.
WriteCertificate ==
    /\ AtStep("writeCertificate")
    /\ \/ Fails
       \/ /\ storedCertificate' = certificate
          /\ Proceed
          /\ UNCHANGED <<status, storedKey>>
    /\ UNCHANGED <<vars, connectionEstablished, demoRunCount, responseStatus,
                   certificate, returned, cloud, restarts>>

\* generateRegisterThingRequest writes into the buffer of the responses.
Generate ==
    /\ AtStep("generate")
    /\ \/ FillBuffer(Response("request", certificate)) /\ Proceed /\ UNCHANGED status
       \/ status' = FALSE /\ Abandon /\ UNCHANGED vars
    /\ UNCHANGED <<connectionEstablished, demoRunCount, responseStatus,
                   certificate, returned, store, cloud, restarts>>

\* parseRegisterThingResponse; a response without a thing name is no error.
ParseRegister ==
    /\ AtStep("parseRegister")
    /\ \/ Fails
       \/ Proceed /\ UNCHANGED <<status, store>>
    /\ UNCHANGED <<vars, connectionEstablished, demoRunCount, responseStatus,
                   certificate, returned, cloud, restarts>>

-----------------------------------------------------------------------------
(* The end of an iteration. *)

\* A session is closed only if it was established.
Close ==
    /\ pc \in {"close", "closeDevice"}
    /\ IF connectionEstablished THEN Disconnect ELSE UNCHANGED vars
    /\ connectionEstablished' = FALSE
    /\ pc' = IF pc = "close" /\ status THEN "device" ELSE "retry"
    /\ UNCHANGED <<at, started, status, demoRunCount, responseStatus,
                   certificate, returned, store, cloud, restarts>>

\* The credentials with which the broker accepts a connection.
Usable == storedKey # Nothing /\ storedKey = storedCertificate /\ storedKey \in active

DeviceEstablish ==
    /\ pc = "device" /\ ~started
    /\ \/ ConnectFails \/ SessionFails
       \/ Usable /\ \E sessionPresent \in BOOLEAN : Establish(sessionPresent)
    /\ started' = TRUE
    /\ UNCHANGED <<pc, at, status, connectionEstablished, demoRunCount,
                   responseStatus, certificate, returned, store, cloud,
                   restarts>>

DeviceIgnored ==
    /\ pc = "device" /\ started /\ call = "idle"
    /\ connectionEstablished' = result.ok
    /\ started' = FALSE
    /\ pc' = "closeDevice"
    /\ UNCHANGED <<vars, at, status, demoRunCount, responseStatus, certificate,
                   returned, store, cloud, restarts>>

DeviceReturns ==
    /\ pc = "device" /\ started /\ call = "idle"
    /\ status' = result.ok
    /\ connectionEstablished' = result.ok
    /\ started' = FALSE
    /\ pc' = "closeDevice"
    /\ UNCHANGED <<vars, at, demoRunCount, responseStatus, certificate, returned,
                   store, cloud, restarts>>

\* status keeps its value into the next iteration, which then skips its steps.
Retry ==
    /\ pc = "retry"
    /\ demoRunCount' = demoRunCount + 1
    /\ IF status \/ demoRunCount' = MaxLoopCount
       THEN /\ pc' = "returned"
            /\ returned' = IF status THEN "success" ELSE "failure"
            /\ UNCHANGED at
       ELSE /\ pc' = "script" /\ at' = 1
            /\ UNCHANGED returned
    /\ UNCHANGED <<vars, started, status, connectionEstablished, responseStatus,
                   certificate, store, cloud, restarts>>

SkipSteps ==
    /\ pc = "script" /\ ~status
    /\ pc' = "close"
    /\ UNCHANGED <<vars, at, started, status, connectionEstablished, demoRunCount,
                   responseStatus, certificate, returned, store, cloud,
                   restarts>>

\* Power is lost: the memory of the process starts anew, and what was on the
\* wire is gone; the store, the cloud and the broker's session remain.
\* Requests are numbered anew.
Restart ==
    /\ restarts < MaxRestarts
    /\ restarts' = restarts + 1
    /\ connection' = "none" /\ mqttSessionEstablished' = FALSE
    /\ nextPacketId' = 1 /\ records' = {}
    /\ outgoingPublishPackets' = [i \in Slots |-> NoPublish]
    /\ globalAckPacketIdentifier' = 0
    /\ globalSubscribePacketIdentifier' = 0 /\ globalUnsubscribePacketIdentifier' = 0
    /\ payloadBuffer' = Zeroed /\ call' = "idle" /\ expected' = 0 /\ index' = 0
    /\ result' = [function |-> "none", ok |-> FALSE]
    /\ toBroker' = <<>> /\ toClient' = <<>>
    /\ number' = 0 /\ connections' = 0 /\ stored' = {} /\ answered' = {}
    /\ heard' = {}
    /\ pc' = "script" /\ at' = 1 /\ started' = FALSE /\ status' = TRUE
    /\ connectionEstablished' = FALSE /\ demoRunCount' = 0
    /\ responseStatus' = "NotReceived" /\ certificate' = Nothing
    /\ returned' = "no"
    /\ UNCHANGED <<session, subscriptions, store, cloud>>

-----------------------------------------------------------------------------
(* The functions of MqttOperations at work, and the cloud. *)

ResponseAny(p) == IF p.type = "publish" THEN "Accepted" ELSE responseStatus
ResponseOf(p) ==
    CASE p.type # "publish" -> responseStatus
      [] p.data \in Accepted -> "Accepted"
      [] OTHER -> "Rejected"

\* provisioningPublishCallback takes any response for the one awaited.
Receive ==
    /\ ReceivePacket
    /\ responseStatus' = ResponseOf(Head(toClient))
    /\ UNCHANGED <<pc, at, started, status, connectionEstablished, demoRunCount,
                   certificate, returned, store, cloud, restarts>>

LibraryWorks ==
    /\ \/ ResendOne \/ ResendEnds \/ WaitEnds \/ ProcessEnds \/ ConnectionBreaks
    /\ UNCHANGED <<flow, store, cloud, restarts>>

\* The cloud answers a request to create keys, and one to register a thing
\* that carries the token of keys it has created.
CloudHandles ==
    /\ BrokerHandles
    /\ LET p == Head(toBroker)
           creates == p.type = "publish" /\ p.data = Empty
           registers == p.type = "publish" /\ p.data # Empty
       IN  \/ /\ p.type # "publish"
              /\ UNCHANGED <<issued, active, responses>>
           \/ /\ creates /\ issued # Ids
              /\ \E n \in Ids \ issued :
                    /\ \A m \in Ids \ issued : n <= m
                    /\ issued' = issued \cup {n}
                    /\ responses' = responses \cup {Response("keysAccepted", n)}
              /\ UNCHANGED active
           \/ /\ creates
              /\ responses' = responses \cup {Response("keysRejected", Nothing)}
              /\ UNCHANGED <<issued, active>>
           \/ /\ registers /\ p.data.kind = "request" /\ p.data.id \in issued
              /\ active' = active \cup {p.data.id}
              /\ responses' = responses \cup {Response("registerAccepted", p.data.id)}
              /\ UNCHANGED issued
           \/ /\ registers
              /\ responses' = responses \cup {Response("registerRejected", Nothing)}
              /\ UNCHANGED <<issued, active>>
    /\ UNCHANGED <<flow, store, repeats, restarts>>

\* A response reaches the client when its session is subscribed to the topic;
\* it may come late, after the client has gone and come back, and again.
CloudResponds(r) ==
    /\ r \in responses /\ r.kind \in subscriptions
    /\ BrokerSends(r)
    /\ \/ responses' = responses \ {r} /\ UNCHANGED repeats
       \/ repeats < MaxRepeats /\ repeats' = repeats + 1 /\ UNCHANGED responses
    /\ UNCHANGED <<flow, store, issued, active, restarts>>

CloudDrops(r) ==
    /\ r \in responses /\ r.kind \notin subscriptions
    /\ responses' = responses \ {r}
    /\ UNCHANGED <<vars, flow, store, issued, active, repeats, restarts>>

FPNext ==
    \/ ClaimEstablish \/ MqttCall \/ AwaitResponse \/ StepReturns
    \/ ParseKeys \/ LoadKey \/ LoadCertificate \/ WriteCertificate
    \/ Generate \/ ParseRegister
    \/ Close \/ DeviceEstablish \/ DeviceReturns \/ Retry \/ SkipSteps \/ Restart
    \/ Receive \/ LibraryWorks \/ CloudHandles
    \/ \E r \in responses : CloudResponds(r) \/ CloudDrops(r)

FPSpec == FPInit /\ [][FPNext]_fpVars

-----------------------------------------------------------------------------
(* Safety. *)

\* Success is returned only for a device that can connect with the key and
\* certificate it has stored, although the callback takes any response for
\* the one awaited and the parsers pass over responses of the wrong kind.
SuccessIsUsable == returned = "success" => Usable

\* The cloud registers a certificate only while the device has stored it with
\* its own key: not with the key of an earlier or a later response, and not
\* after a load that failed half way.
RegisteredIsStored ==
    [][\A n \in active' \ active : storedKey = n /\ storedCertificate = n]_fpVars

\* Publish the RegisterThing request
\* (fleet_provisioning_keys_cert_demo.c:635): as long as the device has not
\* restarted, what is published with the buffer of the responses is the request
\* generated into it, although a response that comes again, or late, is copied
\* into the same buffer.
RequestIntact ==
    [][restarts' = 0 =>
       \A n \in 1 .. Len(toBroker') :
          LET p == toBroker'[n]
          IN  number' # number /\ p.number = number' /\ p.type = "publish"
                 => p.data = Empty \/ p.data.kind = "request"]_fpVars

\* Get the response to the RegisterThing request
\* (fleet_provisioning_keys_cert_demo.c:651): as long as the device has not
\* restarted, the response taken for the answer tells that the credentials in
\* the store are registered.
ResponseIsAnswer == restarts = 0 /\ pc = "device" => storedKey \in active
=============================================================================
