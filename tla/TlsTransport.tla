---------------------------- MODULE TlsTransport ----------------------------
(***************************************************************************)
(* mbedtls_pkcs11_posix.c: a TLS connection whose client key and           *)
(* certificate are objects of a PKCS #11 module.                           *)
(*                                                                         *)
(* Connecting goes through stages, each of which may fail and leave parts  *)
(* of the context allocated.  One thread uses the transport, so there is   *)
(* one stage.  mbedTLS, the PKCS #11 module and the peer are external.  A   *)
(* pair is a key and the certificate issued for it; the peer refuses a     *)
(* certificate it does not know, and a signature that is not made with the *)
(* key of the certificate.                                                 *)
(***************************************************************************)
CONSTANTS
    Contexts,       \* MbedtlsPkcs11Context_t variables
    Labels,         \* the labels of a key and of its certificate
    Pairs,          \* key pairs
    Missing         \* no object, or none that can be read

ASSUME MissingAssumption == Missing \notin Pairs

VARIABLES
    stage,          \* of Mbedtls_Pkcs11_Connect
    held,           \* the parts of each context that own memory or a socket
    key,            \* p11PrivateKey of each context
    certificate,    \* clientCert of each context
    tls,            \* each connection: "none", "up", "closed" by the peer's
                    \* close-notify, or "gone" without one
    store,          \* what the labels name in the PKCS #11 module
    registered,     \* the certificates the peer knows
    leaked          \* ghost: parts that contextInit overwrote

transport == <<stage, held, key, certificate, tls, leaked>>

Stages == {"idle", "rootCa", "key", "certificate", "sni", "ssl", "tcp",
           "handshake", "failed", "success", "failure"}
Parts == {"config", "rootCa", "clientCert", "ssl", "socket"}
Objects == Pairs \cup {Missing}

TransportTypeOK ==
    /\ stage \in Stages
    /\ held \in [Contexts -> SUBSET Parts]
    /\ key \in [Contexts -> Objects]
    /\ certificate \in [Contexts -> Objects]
    /\ tls \in [Contexts -> {"none", "up", "closed", "gone"}]
    /\ store \in [Labels -> [key : Objects, certificate : Objects]]
    /\ registered \subseteq Pairs
    /\ leaked \subseteq Parts

\* Static variables, zero by default.
TransportInit ==
    /\ stage = "idle"
    /\ held = [c \in Contexts |-> {}]
    /\ key = [c \in Contexts |-> Missing]
    /\ certificate = [c \in Contexts |-> Missing]
    /\ tls = [c \in Contexts |-> "none"]
    /\ leaked = {}

Hold(c, parts) == held' = [held EXCEPT ![c] = @ \cup parts]
Goto(s) == stage' = s

-----------------------------------------------------------------------------
(* Mbedtls_Pkcs11_Connect, stage by stage. *)

\* contextInit and the default configuration.
ConfigureDefaults(c) ==
    /\ stage = "idle"
    /\ leaked' = leaked \cup held[c]
    /\ \E ok \in BOOLEAN :
          /\ held' = [held EXCEPT ![c] = IF ok THEN {"config"} ELSE {}]
          /\ Goto(IF ok THEN "rootCa" ELSE "failed")
    /\ UNCHANGED <<key, certificate, tls>>

\* configureMbedtlsCertificates: the root certificate is parsed from its file,
\* which may leave a part of the chain.
ParseRootCa(c) ==
    /\ stage = "rootCa"
    /\ \/ Hold(c, {"rootCa"}) /\ Goto("key")
       \/ \E read \in SUBSET {"rootCa"} : Hold(c, read) /\ Goto("failed")
    /\ UNCHANGED <<key, certificate, tls, leaked>>

CredentialsCached(c, label) ==
    /\ stage = "key"
    /\ \/ /\ key[c] # Missing
          /\ Hold(c, {"clientCert"})
          /\ Goto("sni")
          /\ UNCHANGED key
       \/ /\ key[c] = Missing
          /\ key' = [key EXCEPT ![c] = store[label].key]
          /\ Goto(IF store[label].key = Missing THEN "failed" ELSE "certificate")
          /\ UNCHANGED held
    /\ UNCHANGED <<certificate, tls, leaked>>

\* The handle of the private key is looked up, and its type, which may not be
\* one that mbedTLS knows.
initializeClientKeys(c, label) ==
    /\ stage = "key"
    /\ \/ /\ store[label].key # Missing
          /\ key' = [key EXCEPT ![c] = store[label].key]
          /\ Goto("certificate")
       \/ /\ key' \in {key, [key EXCEPT ![c] = store[label].key]}
          /\ Goto("failed")
    /\ UNCHANGED <<held, certificate, tls, leaked>>

\* The certificate is exported from the module and parsed.
readCertificateIntoContext(c, label) ==
    /\ stage = "certificate"
    /\ \/ /\ store[label].certificate # Missing
          /\ certificate' = [certificate EXCEPT ![c] = store[label].certificate]
          /\ Hold(c, {"clientCert"})
          /\ Goto("sni")
       \/ /\ \E read \in SUBSET {"clientCert"} : Hold(c, read)
          /\ Goto("failed")
          /\ UNCHANGED certificate
    /\ UNCHANGED <<key, tls, leaked>>

\* The name for SNI, which both callers ask for, is allocated in the SSL
\* context before that is set up.
configureMbedtlsSniAlpn(c) ==
    /\ stage = "sni"
    /\ \/ Hold(c, {"ssl"}) /\ Goto("ssl")
       \/ \E allocated \in SUBSET {"ssl"} : Hold(c, allocated) /\ Goto("failed")
    /\ UNCHANGED <<key, certificate, tls, leaked>>

\* mbedtls_ssl_setup and the maximum fragment length.
SetUpSsl(c) ==
    /\ stage = "ssl"
    /\ stage' \in {"tcp", "failed"}
    /\ UNCHANGED <<held, key, certificate, tls, leaked>>

NetConnect(c) ==
    /\ stage = "tcp"
    /\ \/ Hold(c, {"socket"}) /\ Goto("handshake")
       \/ Hold(c, {}) /\ Goto("failed")
    /\ UNCHANGED <<key, certificate, tls, leaked>>

\* Whatever the PKCS #11 module answers, the callback returns zero: where
\* signing failed, mbedTLS sends what the buffer holds.
privateKeySigningCallback(c) == {key[c], Missing}

\* The peer accepts the certificate and the signature, or it does not, or the
\* handshake fails for another reason.
HandshakeSucceeds(c) ==
    /\ stage = "handshake"
    /\ \E signature \in privateKeySigningCallback(c) :
          signature = certificate[c] /\ signature \in registered
    /\ tls' = [tls EXCEPT ![c] = "up"]
    /\ Goto("success")
    /\ UNCHANGED <<held, key, certificate, leaked>>

HandshakeFails(c) ==
    /\ stage = "handshake"
    /\ Goto("failed")
    /\ UNCHANGED <<held, key, certificate, tls, leaked>>

NoCleanUp(c) ==
    /\ stage = "failed"
    /\ Goto("failure")
    /\ UNCHANGED <<held, key, certificate, tls, leaked>>

\* contextFree.  It is called twice when the configuration fails; mbedTLS
\* clears what it frees.
CleanUp(c) ==
    /\ stage = "failed"
    /\ held' = [held EXCEPT ![c] = {}]
    /\ Goto("failure")
    /\ UNCHANGED <<key, certificate, tls, leaked>>

Mbedtls_Pkcs11_Connect(c, label) ==
    \/ ConfigureDefaults(c)
    \/ ParseRootCa(c)
    \/ initializeClientKeys(c, label)
    \/ readCertificateIntoContext(c, label)
    \/ configureMbedtlsSniAlpn(c)
    \/ SetUpSsl(c)
    \/ NetConnect(c)
    \/ HandshakeSucceeds(c) \/ HandshakeFails(c)
    \/ CleanUp(c)

-----------------------------------------------------------------------------
(* The other functions, and the peer. *)

\* The result of close-notify is ignored; the handle of the key stays.
Mbedtls_Pkcs11_Disconnect(c) ==
    /\ held' = [held EXCEPT ![c] = {}]
    /\ tls' = [tls EXCEPT ![c] = "none"]
    /\ UNCHANGED <<key, certificate, leaked>>

\* What a read may return: bytes, zero, or an error.  A peer that left without
\* a close-notify reads as zero, like a time-out; a context that has been freed
\* is refused by mbedTLS.
Mbedtls_Pkcs11_Recv(c) ==
    CASE tls[c] = "up" -> {"data", "nothing"}
      [] tls[c] = "gone" -> {"nothing", "error"}
      [] OTHER -> {"error"}

Mbedtls_Pkcs11_Send(c) ==
    CASE tls[c] = "none" -> {"error"}
      [] OTHER -> {"data", "nothing", "error"}

PeerLeaves(c) ==
    /\ tls[c] = "up"
    /\ \E how \in {"closed", "gone"} : tls' = [tls EXCEPT ![c] = how]
    /\ UNCHANGED <<stage, held, key, certificate, leaked>>
=============================================================================
