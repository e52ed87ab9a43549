-------------------------- MODULE Connections_proofs --------------------------
(***************************************************************************)
(* Proofs about Connections, for any key pairs, any number of attempts and *)
(* any number of iterations.                                               *)
(***************************************************************************)
EXTENDS Connections, TLAPS

Released(c) == held[c] = {} /\ tls[c] = "none"
Complete(c) == held[c] = Parts /\ tls[c] # "none"

\* The connection of c was made with the objects its labels name.
KeyNamed(c) == key[c] = store[label].key
CertificateNamed(c) == certificate[c] = store[label].certificate
Secured(c) == Complete(c) /\ KeyNamed(c) /\ CertificateNamed(c)

(* Who uses the transport, and what the flow knows of its connection.      *)
Control ==
    /\ at # "connect" => stage = "idle"
    /\ at \in FlowPoints \cup {"load", "store", "resend", "application"}
          => pParams = "flow"
    /\ at = "loop" => pParams = "agent"
    /\ pParams = "agent" => label = "device"
    /\ pParams = "flow" /\ at # "application"
          => demoRunCount < FLEET_PROV_MAX_DEMO_LOOP_COUNT
    /\ connectionEstablished => at \in {"provision", "disconnect", "finish"}
    /\ connectionEstablished /\ at # "finish" => label = "claim"
    /\ status /\ at \in {"provision", "disconnect"} => connectionEstablished
    /\ session["agent"] => at = "loop"

(* What the context holds while it is being connected.                     *)
Building ==
    /\ stage = "idle" => held[pParams] = {}
    /\ stage = "rootCa" => held[pParams] = {"config"}
    /\ stage \in {"key", "certificate"} => held[pParams] = {"config", "rootCa"}
    /\ stage = "sni" => held[pParams] = {"config", "rootCa", "clientCert"}
    /\ stage \in {"ssl", "tcp"} => held[pParams] = Parts \ {"socket"}
    /\ stage = "handshake" => held[pParams] = Parts
    /\ stage \notin {"success", "failure"} => tls[pParams] = "none"
    /\ stage = "failure" => Released(pParams)
    /\ stage = "success" => Complete(pParams)
    /\ stage \in {"certificate", "sni", "ssl", "tcp", "handshake", "success"}
          => KeyNamed(pParams)
    /\ stage \in {"sni", "ssl", "tcp", "handshake", "success"}
          => CertificateNamed(pParams)

(* What the contexts hold otherwise.                                       *)
Resting ==
    /\ \A c \in Contexts :
          c # pParams \/ at # "connect" => Released(c) \/ Complete(c)
    /\ pParams = "flow" => Released("agent")
    /\ at \in {"load", "store"} \/ (status /\ at \in {"claim", "device"})
          => Released("flow")

(* Where a connection is relied on.                                        *)
Linked ==
    /\ at = "mqtt" => Secured(pParams) \/ (pParams = "agent" /\ Released("agent"))
    /\ at = "resend" \/ connectionEstablished => Secured("flow")
    /\ session["agent"] => Secured("agent")

IndInv ==
    /\ TypeOK
    /\ NothingLeaks
    /\ Control
    /\ at = "connect" => Building
    /\ Resting
    /\ Linked

-----------------------------------------------------------------------------
LEMMA InitInv == Init => IndInv
<1>. SUFFICES ASSUME Init PROVE IndInv
  OBVIOUS
<1>. USE MissingAssumption, LabelsAssumption, ContextsAssumption, ClaimAssumption,
         LoopsAssumption
<1>1. TypeOK
  <2>1. store \in [Labels -> [key : Objects, certificate : Objects]]
    <3>1. PICK old \in Leftovers({Claim}), older \in Leftovers(Pairs \ {Claim}) :
              store = [l \in Labels |-> IF l = "claim" THEN old ELSE older]
      BY DEF Init
    <3>2. old \in [key : Objects, certificate : Objects]
          /\ older \in [key : Objects, certificate : Objects]
      BY DEF Leftovers, Objects
    <3>. QED  BY <3>1, <3>2
  <2>2. TransportTypeOK
    BY <2>1 DEF Init, TransportInit, TransportTypeOK, Objects, Stages
  <2>3. session \in [Contexts -> BOOLEAN] /\ status \in BOOLEAN
        /\ connectionEstablished \in BOOLEAN /\ command \in BOOLEAN
    BY Zenon DEF Init
  <2>4. /\ at \in Points /\ pParams \in Contexts /\ label \in Labels
        /\ attemptsDone \in 0 .. CONNECTION_RETRY_MAX_ATTEMPTS
        /\ demoRunCount \in 0 .. FLEET_PROV_MAX_DEMO_LOOP_COUNT
    BY DEF Init, Points
  <2>. QED  BY <2>2, <2>3, <2>4, Zenon DEF TypeOK
<1>2. Control /\ Resting /\ Linked
  BY DEF Init, TransportInit, Control, Resting, Linked, Released
<1>. QED  BY <1>1, <1>2 DEF IndInv, NothingLeaks, Init, TransportInit

(* Storing credentials leaves objects under the label, whatever fails.     *)
LEMMA WrittenType ==
    ASSUME TypeOK, NEW l \in Labels, NEW p \in Pairs, NEW o \in Written(l, p)
    PROVE  o \in [key : Objects, certificate : Objects]
<1>1. store[l] \in [key : Objects, certificate : Objects]
  BY DEF TypeOK, TransportTypeOK
<1>2. p \in Objects /\ Missing \in Objects
  BY DEF Objects
<1>3. [store[l] EXCEPT !.key = p] \in [key : Objects, certificate : Objects]
  BY <1>1, <1>2
<1>4. [[store[l] EXCEPT !.key = p] EXCEPT !.certificate = Missing]
         \in [key : Objects, certificate : Objects]
  BY <1>2, <1>3
<1>5. [key |-> p, certificate |-> p] \in [key : Objects, certificate : Objects]
  BY <1>2
<1>. QED  BY <1>1, <1>3, <1>4, <1>5, Zenon DEF Written, destroyProvidedObjects

LEMMA HoldAdds ==
    ASSUME TypeOK, NEW c \in Contexts, NEW parts \in SUBSET Parts, Hold(c, parts)
    PROVE  /\ held' \in [Contexts -> SUBSET Parts]
           /\ held'[c] = held[c] \cup parts
           /\ \A d \in Contexts : d # c => held'[d] = held[d]
BY DEF TypeOK, TransportTypeOK, Hold

-----------------------------------------------------------------------------
(* No stage of connecting disturbs the invariant.                          *)
LEMMA ConnectKeeps == IndInv /\ ConnectStep => IndInv'
<1>. SUFFICES ASSUME IndInv, ConnectStep PROVE IndInv'
  OBVIOUS
<1>0. /\ at = "connect" /\ Mbedtls_Pkcs11_Connect(pParams, label)
      /\ UNCHANGED <<objects, main>>
  BY DEF ConnectStep
<1>. DEFINE holds(parts) ==
         /\ held' \in [Contexts -> SUBSET Parts]
         /\ held'[pParams] = held[pParams] \cup parts
         /\ \A d \in Contexts : d # pParams => held'[d] = held[d]
<1>h. ASSUME NEW parts \in SUBSET Parts, Hold(pParams, parts)
      PROVE  holds(parts)
  BY <1>h, HoldAdds DEF IndInv, TypeOK
<1>. USE DEF Goto
<1>. USE MissingAssumption, LabelsAssumption, ContextsAssumption,
         ClaimAssumption, LoopsAssumption
     DEF IndInv, TypeOK, TransportTypeOK, NothingLeaks, Control, Building,
         Resting, Linked, Released, Complete, Secured, KeyNamed,
         CertificateNamed, Objects, Points, FlowPoints, Stages, Parts,
         transport, objects, main
<1>1. CASE ConfigureDefaults(pParams)
  BY <1>0, <1>1 DEF ConfigureDefaults
<1>2. CASE ParseRootCa(pParams)
  <2>1. /\ stage = "rootCa" /\ UNCHANGED <<key, tls, leaked>>
        /\ \/ /\ Hold(pParams, {"rootCa"}) /\ stage' = "key"
             /\ UNCHANGED certificate
           \/ /\ \E read \in SUBSET {"rootCa"} : Hold(pParams, read)
              /\ stage' = "failed" /\ UNCHANGED certificate
    BY <1>2 DEF ParseRootCa
  <2>2. CASE stage' = "key"
    <3>1. Hold(pParams, {"rootCa"})
      BY <2>1, <2>2
    <3>2. holds({"rootCa"})
      BY <1>h, <3>1
    <3>. QED  BY <1>0, <2>1, <2>2, <3>2
  <2>3. CASE stage' = "failed"
    <3>1. PICK read \in SUBSET {"rootCa"} : Hold(pParams, read)
      BY <2>1, <2>3
    <3>2. holds(read)
      BY <1>h, <3>1
    <3>. QED  BY <1>0, <2>1, <2>3, <3>2
  <2>. QED  BY <2>1, <2>2, <2>3
<1>3. CASE initializeClientKeys(pParams, label)
  BY <1>0, <1>3 DEF initializeClientKeys
<1>4. CASE readCertificateIntoContext(pParams, label)
  <2>1. /\ stage = "certificate" /\ UNCHANGED <<key, tls, leaked>>
        /\ \/ /\ Hold(pParams, {"clientCert"}) /\ stage' = "sni"
             /\ store[label].certificate # Missing
             /\ certificate' = [certificate EXCEPT ![pParams] = store[label].certificate]
           \/ /\ \E read \in SUBSET {"clientCert"} : Hold(pParams, read)
              /\ stage' = "failed" /\ UNCHANGED certificate
    BY <1>4 DEF readCertificateIntoContext
  <2>2. CASE stage' = "sni"
    <3>1. Hold(pParams, {"clientCert"})
      BY <2>1, <2>2
    <3>2. holds({"clientCert"})
      BY <1>h, <3>1
    <3>. QED  BY <1>0, <2>1, <2>2, <3>2
  <2>3. CASE stage' = "failed"
    <3>1. PICK read \in SUBSET {"clientCert"} : Hold(pParams, read)
      BY <2>1, <2>3
    <3>2. holds(read)
      BY <1>h, <3>1
    <3>. QED  BY <1>0, <2>1, <2>3, <3>2
  <2>. QED  BY <2>1, <2>2, <2>3
<1>5. CASE configureMbedtlsSniAlpn(pParams)
  <2>1. /\ stage = "sni" /\ UNCHANGED <<key, tls, leaked>>
        /\ \/ /\ Hold(pParams, {"ssl"}) /\ stage' = "ssl"
             /\ UNCHANGED certificate
           \/ /\ \E read \in SUBSET {"ssl"} : Hold(pParams, read)
              /\ stage' = "failed" /\ UNCHANGED certificate
    BY <1>5 DEF configureMbedtlsSniAlpn
  <2>2. CASE stage' = "ssl"
    <3>1. Hold(pParams, {"ssl"})
      BY <2>1, <2>2
    <3>2. holds({"ssl"})
      BY <1>h, <3>1
    <3>. QED  BY <1>0, <2>1, <2>2, <3>2
  <2>3. CASE stage' = "failed"
    <3>1. PICK read \in SUBSET {"ssl"} : Hold(pParams, read)
      BY <2>1, <2>3
    <3>2. holds(read)
      BY <1>h, <3>1
    <3>. QED  BY <1>0, <2>1, <2>3, <3>2
  <2>. QED  BY <2>1, <2>2, <2>3
<1>6. CASE SetUpSsl(pParams)
  BY <1>0, <1>6 DEF SetUpSsl
<1>7. CASE NetConnect(pParams)
  BY <1>0, <1>7, <1>h DEF NetConnect, Hold
<1>8. CASE HandshakeSucceeds(pParams)
  BY <1>0, <1>8 DEF HandshakeSucceeds, privateKeySigningCallback
<1>9. CASE HandshakeFails(pParams)
  BY <1>0, <1>9 DEF HandshakeFails
<1>10. CASE CleanUp(pParams)
  BY <1>0, <1>10 DEF CleanUp
<1>. QED  BY <1>0, <1>1, <1>2, <1>3, <1>4, <1>5, <1>6, <1>7, <1>8, <1>9, <1>10
          DEF Mbedtls_Pkcs11_Connect

LEMMA Preserved == IndInv /\ [Next]_vars => IndInv'
<1>. SUFFICES ASSUME IndInv, [Next]_vars PROVE IndInv'
  OBVIOUS
<1>. USE MissingAssumption, LabelsAssumption, ContextsAssumption,
         ClaimAssumption, LoopsAssumption
     DEF IndInv, TypeOK, TransportTypeOK, NothingLeaks, Control, Building,
         Resting, Linked, Released, Complete, Secured, KeyNamed,
         CertificateNamed, Objects, Points, FlowPoints, Stages, Parts,
         transport, objects, main
<1>0. CASE UNCHANGED vars
  BY <1>0 DEF vars
<1>1. CASE ReadFiles
  BY <1>1 DEF ReadFiles
<1>2. CASE LoadClaimCredentials
  <2>1. PICK o \in Written("claim", Claim) : store' = [store EXCEPT !["claim"] = o]
    BY <1>2 DEF LoadClaimCredentials
  <2>2. o \in [key : Objects, certificate : Objects]
    BY <2>1, WrittenType
  <2>3. TypeOK'
    BY <1>2, <2>1, <2>2 DEF LoadClaimCredentials
  <2>. QED  BY <1>2, <2>3 DEF LoadClaimCredentials
<1>3. CASE ConnectStep
  BY <1>3, ConnectKeeps
<1>4. CASE Retry
  BY <1>4 DEF Retry
<1>5. CASE Exhausted
  BY <1>5 DEF Exhausted, AfterEstablish
<1>6. CASE Connected
  BY <1>6 DEF Connected
<1>7. CASE Accepted
  BY <1>7 DEF Accepted, Mbedtls_Pkcs11_Send, Mbedtls_Pkcs11_Recv
<1>8. CASE Refused
  BY <1>8 DEF Refused, AfterEstablish
<1>9. ASSUME NEW l \in Labels, Establish(l)
      PROVE  IndInv'
  BY <1>9 DEF Establish, StartConnect
<1>10. CASE Resend
  BY <1>10 DEF Resend, AfterEstablish
<1>11. CASE Provision
  <2>1. PICK p \in Pairs \ {Claim} : \E o \in Written("device", p) :
           /\ store' = [store EXCEPT !["device"] = o]
           /\ \/ status' = FALSE /\ UNCHANGED registered
              \/ registered' = registered \cup {p} /\ status' \in BOOLEAN
    BY <1>11 DEF Provision
  <2>2. PICK o \in Written("device", p) :
           /\ store' = [store EXCEPT !["device"] = o]
           /\ \/ status' = FALSE /\ UNCHANGED registered
              \/ registered' = registered \cup {p} /\ status' \in BOOLEAN
    BY <2>1
  <2>3. o \in [key : Objects, certificate : Objects]
    BY <2>2, WrittenType
  <2>4. TypeOK'
    BY <1>11, <2>2, <2>3 DEF Provision
  <2>5. store'["claim"] = store["claim"]
    BY <2>2
  <2>. QED  BY <1>11, <2>4, <2>5 DEF Provision
<1>12. CASE Skip
  BY <1>12 DEF Skip, FollowsIn
<1>13. CASE Disconnect
  <2>1. CASE connectionEstablished
    <3>1. pParams = "flow"
      BY <1>13, <2>1 DEF Disconnect
    <3>2. /\ held' = [held EXCEPT !["flow"] = {}]
          /\ tls' = [tls EXCEPT !["flow"] = "none"]
          /\ session' = [session EXCEPT !["flow"] = FALSE]
          /\ UNCHANGED <<key, certificate, leaked, stage>>
      BY <1>13, <2>1, <3>1 DEF Disconnect, Mbedtls_Pkcs11_Disconnect
    <3>3. TypeOK'
      BY <1>13, <3>2 DEF Disconnect
    <3>4. Control' /\ NothingLeaks'
      BY <1>13, <2>1, <3>2 DEF Disconnect
    <3>. QED  BY <1>13, <2>1, <3>1, <3>2, <3>3, <3>4 DEF Disconnect
  <2>2. CASE ~connectionEstablished
    BY <1>13, <2>2 DEF Disconnect
  <2>. QED  BY <2>1, <2>2
<1>14. CASE NextIteration
  BY <1>14 DEF NextIteration
<1>15. CASE AgentStarts
  BY <1>15 DEF AgentStarts, StartConnect
<1>16. CASE Reconnect
  <2>1. /\ at = "loop" /\ pParams' = "agent" /\ label' = "device"
        /\ attemptsDone' = 0 /\ at' = "connect" /\ command' = FALSE
        /\ held' = [held EXCEPT !["agent"] = {}]
        /\ tls' = [tls EXCEPT !["agent"] = "none"]
        /\ session' = [session EXCEPT !["agent"] = FALSE]
        /\ UNCHANGED <<key, certificate, leaked, stage>>
        /\ UNCHANGED <<objects, status, connectionEstablished, demoRunCount>>
    BY <1>16 DEF Reconnect, StartConnect, Mbedtls_Pkcs11_Disconnect
  <2>2. TransportTypeOK'
    BY <2>1
  <2>3. session' \in [Contexts -> BOOLEAN]
    BY <2>1, Zenon
  <2>4. TypeOK'
    <3>1. /\ at' \in Points /\ pParams' \in Contexts /\ label' \in Labels
          /\ attemptsDone' \in 0 .. CONNECTION_RETRY_MAX_ATTEMPTS
          /\ demoRunCount' \in 0 .. FLEET_PROV_MAX_DEMO_LOOP_COUNT
      BY <2>1
    <3>2. status' \in BOOLEAN /\ connectionEstablished' \in BOOLEAN
          /\ command' \in BOOLEAN
      BY <2>1
    <3>. QED  BY <2>2, <2>3, <3>1, <3>2, Zenon DEF TypeOK
  <2>5. Control' /\ Building' /\ NothingLeaks'
    BY <2>1
  <2>6. Resting' /\ Linked'
    BY <2>1
  <2>. QED  BY <2>4, <2>5, <2>6
<1>17. CASE CommandDone
  BY <1>17 DEF CommandDone
<1>18. CASE CommandArrives
  BY <1>18 DEF CommandArrives
<1>19. CASE PeerStep
  BY <1>19 DEF PeerStep, PeerLeaves
<1>. QED
  <2>. HIDE DEF IndInv
  <2>. QED  BY <1>0, <1>1, <1>2, <1>3, <1>4, <1>5, <1>6, <1>7, <1>8, <1>9,
               <1>10, <1>11, <1>12, <1>13, <1>14, <1>15, <1>16, <1>17, <1>18, <1>19
            DEF Next, Thread, Flow, LoopFails, LoopFailsEarly

THEOREM Invariance == Spec => []IndInv
BY InitInv, Preserved, PTL DEF Spec

-----------------------------------------------------------------------------
(* The types hold, for any bounds on attempts and iterations.              *)
THEOREM TypeCorrect == Spec => []TypeOK
BY Invariance, PTL DEF IndInv

(* Whatever fails, and however often, contextInit only ever finds a context *)
(* that has been released (mbedtls_pkcs11_posix.c:202-213).                *)
THEOREM NeverLeaks == Spec => []NothingLeaks
BY Invariance, PTL DEF IndInv

(* A failure at any stage of any attempt leaves nothing behind.            *)
THEOREM ConnectIsAllOrNothing == Spec => []AllOrNothing
<1>1. IndInv => AllOrNothing
  BY DEF IndInv, Resting, Building, Control, Released, Complete, AllOrNothing
<1>. QED  BY <1>1, Invariance, PTL

(* The sessions the flow and the agent use go over connections made with   *)
(* the credentials their labels name now.                                  *)
THEOREM SessionsAreSecured == Spec => []SessionIsSecured
<1>1. IndInv => SessionIsSecured
  BY ContextsAssumption DEF IndInv, Control, FlowPoints, Linked, Secured,
     KeyNamed, CertificateNamed, Complete, SessionIsSecured
<1>. QED  BY <1>1, Invariance, PTL
==============================================================================
