----------------------------- MODULE Connections -----------------------------
(***************************************************************************)
(* The connections of main(): it loads the claim credentials, then the     *)
(* provisioning flow connects with them, provisions, disconnects, and      *)
(* connects with the new device credentials to try them; then, whatever    *)
(* came of it, the agent connects with the device credentials and          *)
(* reconnects for ever.                                                    *)
(*                                                                         *)
(* All run in the main thread, one after the other, on one                 *)
(* NetworkContext_t, which mqtt_operations.c ("flow") and mqtt_agent.c      *)
(* ("agent") point to a static TLS context of their own.  What the flow    *)
(* does over its connections is FleetProvisioning, what the agent does      *)
(* over its own is MqttAgent; here it is only how it ends.  coreMQTT and    *)
(* the command loop of coreMQTT-Agent are external.                        *)
(***************************************************************************)
EXTENDS TlsTransport, Naturals

CONSTANTS
    Claim,                          \* the pair of the claim credentials
    CONNECTION_RETRY_MAX_ATTEMPTS,
    FLEET_PROV_MAX_DEMO_LOOP_COUNT

ASSUME LabelsAssumption == Labels = {"claim", "device"}
ASSUME ContextsAssumption == Contexts = {"flow", "agent"}
ASSUME ClaimAssumption == Claim \in Pairs
ASSUME LoopsAssumption ==
    CONNECTION_RETRY_MAX_ATTEMPTS \in Nat /\ FLEET_PROV_MAX_DEMO_LOOP_COUNT \in Nat \ {0}

VARIABLES
    at,                     \* where the main thread is
    pParams,                \* the TLS context of the network context: its owner
    label,                  \* the credentials of the current connection
    attemptsDone,           \* of the back-off
    session,                \* each MQTT context: connected to the broker
    status,                 \* of the flow
    connectionEstablished,  \* of the flow
    demoRunCount,           \* of the flow
    command                 \* a command waits in the agent's queue

main == <<at, pParams, label, attemptsDone, session, status,
          connectionEstablished, demoRunCount, command>>
objects == <<store, registered>>
vars == <<transport, objects, main>>

FlowPoints == {"claim", "provision", "disconnect", "device", "finish", "next"}
Points == FlowPoints \cup {"load", "store", "connect", "mqtt", "resend", "application", "loop"}

TypeOK ==
    /\ TransportTypeOK
    /\ at \in Points
    /\ pParams \in Contexts
    /\ label \in Labels
    /\ attemptsDone \in 0 .. CONNECTION_RETRY_MAX_ATTEMPTS
    /\ session \in [Contexts -> BOOLEAN]
    /\ status \in BOOLEAN
    /\ connectionEstablished \in BOOLEAN
    /\ demoRunCount \in 0 .. FLEET_PROV_MAX_DEMO_LOOP_COUNT
    /\ command \in BOOLEAN

\* The labels may name what an earlier run left there.
Leftovers(pairs) == [key : pairs \cup {Missing}, certificate : pairs \cup {Missing}]
Init ==
    /\ TransportInit
    /\ store \in {[l \in Labels |-> IF l = "claim" THEN old ELSE older] :
                     old \in Leftovers({Claim}), older \in Leftovers(Pairs \ {Claim})}
    /\ registered \in {R \in SUBSET Pairs : Claim \in R}
    /\ at = "load"
    /\ pParams = "flow"
    /\ label = "claim"
    /\ attemptsDone = 0
    /\ session = [c \in Contexts |-> FALSE]
    /\ status = TRUE
    /\ connectionEstablished = FALSE
    /\ demoRunCount = 0
    /\ command = FALSE

-----------------------------------------------------------------------------
(* loadClaimCredentials, at the start of main(), which goes on if it fails. *)

\* Each of the two files may be missing, unreadable or too long.
ReadFiles ==
    /\ at = "load"
    /\ at' \in {"store", "claim"}
    /\ UNCHANGED <<transport, objects, pParams, label, attemptsDone, session,
                   status, connectionEstablished, demoRunCount, command>>

\* Every certificate of a label is deleted, or at least attempted; the key of
\* the label is left.
destroyProvidedObjects(o) == {o, [o EXCEPT !.certificate = Missing]}

\* What storing the pair p leaves under the label l: nothing new, the key only,
\* with the old certificate or without it, or both.
Written(l, p) ==
    {store[l], [key |-> p, certificate |-> p]}
        \cup destroyProvidedObjects([store[l] EXCEPT !.key = p])

LoadClaimCredentials ==
    /\ at = "store"
    /\ \E o \in Written("claim", Claim) : store' = [store EXCEPT !["claim"] = o]
    /\ at' = "claim"
    /\ UNCHANGED <<transport, registered, pParams, label, attemptsDone, session,
                   status, connectionEstablished, demoRunCount, command>>

-----------------------------------------------------------------------------
(* Connecting, for both. *)

\* connectToBrokerWithBackoffRetries.
StartConnect(owner, l) ==
    /\ pParams' = owner
    /\ label' = l
    /\ attemptsDone' = 0
    /\ at' = "connect"

\* One stage of an attempt.
ConnectStep ==
    /\ at = "connect"
    /\ Mbedtls_Pkcs11_Connect(pParams, label)
    /\ UNCHANGED <<objects, main>>

RetryOnceMore ==
    /\ at = "connect" /\ stage = "failure"
    /\ attemptsDone <= CONNECTION_RETRY_MAX_ATTEMPTS
    /\ attemptsDone' = attemptsDone + 1
    /\ stage' = "idle"
    /\ UNCHANGED <<held, key, certificate, tls, leaked, objects, at, pParams,
                   label, session, status, connectionEstablished, demoRunCount,
                   command>>

\* A failed attempt is followed by another until they are exhausted.
Retry ==
    /\ at = "connect" /\ stage = "failure"
    /\ attemptsDone < CONNECTION_RETRY_MAX_ATTEMPTS
    /\ attemptsDone' = attemptsDone + 1
    /\ stage' = "idle"
    /\ UNCHANGED <<held, key, certificate, tls, leaked, objects, at, pParams,
                   label, session, status, connectionEstablished, demoRunCount,
                   command>>

\* The point of the flow after EstablishMqttSession.
AfterEstablish == IF label = "claim" THEN "provision" ELSE "finish"

\* The flow does not go on to MQTT without TLS; the agent does not look.
Exhausted ==
    /\ at = "connect" /\ stage = "failure"
    /\ attemptsDone = CONNECTION_RETRY_MAX_ATTEMPTS
    /\ stage' = "idle"
    /\ IF pParams = "flow"
       THEN /\ status' = FALSE /\ at' = AfterEstablish
       ELSE /\ UNCHANGED status /\ at' = "mqtt"
    /\ UNCHANGED <<held, key, certificate, tls, leaked, objects, pParams, label,
                   attemptsDone, session, connectionEstablished, demoRunCount,
                   command>>

Connected ==
    /\ at = "connect" /\ stage = "success"
    /\ stage' = "idle"
    /\ at' = "mqtt"
    /\ UNCHANGED <<held, key, certificate, tls, leaked, objects, pParams, label,
                   attemptsDone, session, status, connectionEstablished,
                   demoRunCount, command>>

\* MQTT_Connect sends a CONNECT and reads the CONNACK.
Accepted ==
    /\ at = "mqtt"
    /\ "data" \in Mbedtls_Pkcs11_Send(pParams) \cap Mbedtls_Pkcs11_Recv(pParams)
    /\ session' = [session EXCEPT ![pParams] = TRUE]
    /\ at' = IF pParams = "flow" THEN "resend" ELSE "loop"
    /\ UNCHANGED <<transport, objects, pParams, label, attemptsDone, status,
                   connectionEstablished, demoRunCount, command>>

\* The flow leaves its TLS connection open; the agent ignores the result.
Refused ==
    /\ at = "mqtt"
    /\ IF pParams = "flow"
       THEN /\ status' = FALSE /\ at' = AfterEstablish
       ELSE /\ UNCHANGED status /\ at' = "loop"
    /\ UNCHANGED <<transport, objects, pParams, label, attemptsDone, session,
                   connectionEstablished, demoRunCount, command>>

-----------------------------------------------------------------------------
(* ProvisionDevicePKCS11WithFP. *)

\* EstablishMqttSession clears the MQTT context and the network context.
Establish(l) ==
    /\ at = l /\ status
    /\ StartConnect("flow", l)
    /\ session' = [session EXCEPT !["flow"] = FALSE]
    /\ UNCHANGED <<transport, objects, status, connectionEstablished,
                   demoRunCount, command>>

\* The stored publishes are sent again, or cannot be: then the session is
\* established and the function returns false.
Resend ==
    /\ at = "resend"
    /\ status' \in {ok \in BOOLEAN : ok \/ label = "device" \/ demoRunCount > 0}
    /\ connectionEstablished' = status'
    /\ at' = AfterEstablish
    /\ UNCHANGED <<transport, objects, pParams, label, attemptsDone, session,
                   demoRunCount, command>>

\* The cloud registers a certificate that the flow has stored; a later step
\* may still fail.
Provision ==
    /\ at = "provision" /\ status
    /\ \E p \in Pairs \ {Claim} : \E o \in Written("device", p) :
          /\ store' = [store EXCEPT !["device"] = o]
          /\ \/ status' = FALSE /\ UNCHANGED registered
             \/ /\ o = [key |-> p, certificate |-> p]
                /\ registered' = registered \cup {p}
                /\ status' \in BOOLEAN
    /\ at' = "disconnect"
    /\ UNCHANGED <<transport, pParams, label, attemptsDone, session,
                   connectionEstablished, demoRunCount, command>>

\* A failed step skips the next ones.
FollowsIn == [claim |-> "provision", provision |-> "disconnect", device |-> "finish"]
Skip ==
    /\ at \in DOMAIN FollowsIn /\ ~status
    /\ at' = FollowsIn[at]
    /\ UNCHANGED <<transport, objects, pParams, label, attemptsDone, session,
                   status, connectionEstablished, demoRunCount, command>>

\* DisconnectMqttSession, if the flow knows of a session.
Disconnect ==
    /\ at \in {"disconnect", "finish"}
    /\ at' = IF at = "disconnect" THEN "device" ELSE "next"
    /\ connectionEstablished' = FALSE
    /\ IF connectionEstablished
       THEN /\ Mbedtls_Pkcs11_Disconnect(pParams)
            /\ session' = [session EXCEPT !["flow"] = FALSE]
            /\ UNCHANGED stage
       ELSE UNCHANGED <<transport, session>>
    /\ UNCHANGED <<objects, pParams, label, attemptsDone, status, demoRunCount,
                   command>>

\* The end of an iteration.  main() starts the application whatever the flow
\* returns.
NextIteration ==
    /\ at = "next"
    /\ demoRunCount' = demoRunCount + 1
    /\ at' = IF status \/ demoRunCount' = FLEET_PROV_MAX_DEMO_LOOP_COUNT
             THEN "application" ELSE "claim"
    /\ UNCHANGED <<transport, objects, pParams, label, attemptsDone, session,
                   status, connectionEstablished, command>>

-----------------------------------------------------------------------------
(* iotshdDev_MQTTAgentThreadLoop. *)

AgentStarts ==
    /\ at = "application"
    /\ StartConnect("agent", "device")
    /\ UNCHANGED <<transport, objects, session, status, connectionEstablished,
                   demoRunCount, command>>

\* Nothing that the loop reads can keep the session alive: a read fails, or
\* the answer to a ping does not come.
Dead == session["agent"] /\ "data" \notin Mbedtls_Pkcs11_Recv("agent")

\* Without a session the loop does not read, and ends when a command fails.
CommandFails == ~session["agent"] /\ command

ReconnectOnly ==
    /\ at = "loop"
    /\ session' = [session EXCEPT !["agent"] = FALSE]
    /\ command' = FALSE
    /\ StartConnect("agent", "device")
    /\ UNCHANGED <<transport, objects, status, connectionEstablished, demoRunCount>>

Reconnect ==
    /\ at = "loop"
    /\ Mbedtls_Pkcs11_Disconnect("agent")
    /\ UNCHANGED stage
    /\ session' = [session EXCEPT !["agent"] = FALSE]
    /\ command' = FALSE
    /\ StartConnect("agent", "device")
    /\ UNCHANGED <<objects, status, connectionEstablished, demoRunCount>>

LoopGoesOn ==
    \/ Dead /\ Reconnect
    \/ /\ at = "loop" /\ CommandFails
       /\ command' = FALSE
       /\ UNCHANGED <<transport, objects, at, pParams, label, attemptsDone,
                      session, status, connectionEstablished, demoRunCount>>

\* The command loop returns an error; while the connection is up, for a
\* time-out or a malformed packet.
LoopFails == (Dead \/ CommandFails) /\ Reconnect
LoopFailsEarly == session["agent"] /\ ~Dead /\ Reconnect

CommandDone ==
    /\ at = "loop" /\ session["agent"] /\ command
    /\ command' = FALSE
    /\ UNCHANGED <<transport, objects, at, pParams, label, attemptsDone, session,
                   status, connectionEstablished, demoRunCount>>

-----------------------------------------------------------------------------
(* The environment: the peer and the application threads. *)

CommandArrives ==
    /\ at \in {"connect", "mqtt", "loop"} /\ pParams = "agent" /\ ~command
    /\ command' = TRUE
    /\ UNCHANGED <<transport, objects, at, pParams, label, attemptsDone, session,
                   status, connectionEstablished, demoRunCount>>

PeerStep ==
    /\ \E c \in Contexts : PeerLeaves(c)
    /\ UNCHANGED <<objects, main>>

Flow ==
    \/ \E l \in Labels : Establish(l)
    \/ Resend \/ Provision \/ Skip \/ Disconnect \/ NextIteration

Thread ==
    \/ ReadFiles \/ LoadClaimCredentials
    \/ ConnectStep \/ Retry \/ Exhausted \/ Connected \/ Accepted \/ Refused
    \/ Flow
    \/ AgentStarts \/ LoopFails \/ LoopFailsEarly \/ CommandDone

Next == Thread \/ CommandArrives \/ PeerStep

Spec == Init /\ [][Next]_vars

\* The main thread runs.  Memory, the file of the root certificate and the
\* PKCS #11 module fail only so often; over the network nothing is sure but what
\* is tried again and again succeeds again and again: the TCP connection, the
\* handshake, and the CONNECT, because the peer does not always leave before it.
\* An application goes on giving commands, as the data model handler does.
LocalStages == {"idle", "rootCa", "key", "certificate", "sni", "ssl"}
LocalFault ==
    /\ Missing \notin {store[label].key, store[label].certificate}
    /\ stage \in LocalStages
    /\ ConnectStep /\ stage' = "failed"
StageSucceeds(next) == ConnectStep /\ stage' = next
Fairness ==
    /\ WF_vars(ReadFiles \/ LoadClaimCredentials \/ ConnectStep \/ Retry
               \/ Exhausted \/ Connected \/ Accepted \/ Refused \/ Flow
               \/ AgentStarts \/ LoopFails)
    /\ <>[][~LocalFault]_vars
    /\ \A next \in {"handshake", "success"} : SF_vars(StageSucceeds(next))
    /\ SF_vars(Connected /\ tls[pParams] = "up")
    /\ SF_vars(Accepted)
    /\ WF_vars(CommandArrives)

FairSpec == Spec /\ Fairness

-----------------------------------------------------------------------------
(* Safety. *)

\* contextInit overwrites what the context held.  Through all attempts,
\* failures at any stage, reconnections and iterations it only ever finds a
\* context that has been released, although the flow leaves connections open
\* (mbedtls_pkcs11_posix.c:202-213).
NothingLeaks == leaked = {}

\* An attempt either returns a complete connection or leaves nothing behind.
AllOrNothing ==
    \A c \in Contexts :
        \/ held[c] = {} /\ tls[c] = "none"
        \/ held[c] = Parts /\ tls[c] # "none"
        \/ c = pParams /\ stage \notin {"idle", "success", "failure"}

\* An MQTT session that its owner uses goes over the TLS context that the
\* network context points to, and that connection was made with the key and
\* the certificate its labels name, and not with those of an earlier
\* connection of the same context.
SessionIsSecured ==
    \A c \in Contexts :
        session[c] /\ (c = "agent" \/ connectionEstablished) =>
            /\ tls[c] # "none" /\ held[c] = Parts
            /\ pParams = c
            /\ key[c] = store[label].key
            /\ certificate[c] = store[label].certificate

-----------------------------------------------------------------------------
(* Liveness. *)

Usable ==
    /\ store["device"].key = store["device"].certificate
    /\ store["device"].certificate \in registered

\* The flow ends, and while the device has credentials the peer knows the agent
\* is connected again and again, through lost connections, a peer that left
\* without a word, and exhausted attempts (mqtt_agent.c:334-372).
ComesOnline == []<>(session["agent"] \/ (at = "loop" /\ ~Usable))
=============================================================================
