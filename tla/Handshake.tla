----------------------------- MODULE Handshake -----------------------------
(***************************************************************************)
(* The Noise NX handshake of noise.go: initiators and responders that run  *)
(* PerformHandshakeInitiator and PerformHandshakeResponder over            *)
(* connections that may break or damage a message, and the initiator's     *)
(* check of the server's certificate afterwards.                           *)
(*                                                                         *)
(* Which HandshakeState each side of a connection uses is laid down by a   *)
(* plan: a client may use one again for its next connection, and the       *)
(* server of examples/server uses a single one for all its connections.    *)
(* The responder takes one step per call on its HandshakeState and one per *)
(* operation on the connection, so those that share a HandshakeState can   *)
(* come between each other's calls.  An initiator is alone with its own,   *)
(* and runs as one step between two operations on the connection.          *)
(*                                                                         *)
(* Cryptography is symbolic.  The handshake hash is the sequence of what   *)
(* was mixed into it, the chaining key the sequence of the shared secrets, *)
(* a key the chaining key it was derived from, and a ciphertext opens      *)
(* under the key, nonce and additional data it was sealed with.            *)
(***************************************************************************)
EXTENDS Integers, Sequences

CONSTANTS
  Conns,       \* the connections
  Servers,     \* the servers, each with a static key and a certificate
  States,      \* the HandshakeStates
  Plans,       \* for each connection its server and the HandshakeStates used
  Certs,       \* the certificate of each server
  Authority,   \* the authority the clients trust
  TimeMod,     \* number of values of a uint32 timestamp
  None         \* nothing there

ASSUME PlansAssumption ==
  Plans \subseteq [init : [Conns -> States], resp : [Conns -> States], server : [Conns -> Servers]]
ASSUME TimeModAssumption == TimeMod \in Nat \ {0}

Timestamps == 0 .. TimeMod - 1

\* The clock also shows times that no uint32 holds.
Times == 0 .. 2 * TimeMod - 1

VARIABLES
  plan,     \* the plan that is followed
  hs,       \* the HandshakeStates: h, ck, k and n of cs, cert, serverStatic
  ipc,      \* initiator: "idle", "read", "done", "failed", "checked"
  rpc,      \* responder: what it does next, see below
  out,      \* the responder's buffer: the second message without its key
  part1,    \* first message in flight: the initiator's ephemeral key
  part2,    \* second message in flight
  broken,   \* connections that have broken
  damaged,  \* connections on which a message was damaged
  ikeys,    \* transport keys the initiator returned
  rkeys,    \* transport keys the responder returned
  verdict,  \* what VerifyServerCertificate returned, and when
  sealed    \* every ciphertext sealed in a handshake

vars == <<plan, hs, ipc, rpc, out, part1, part2, broken, damaged, ikeys, rkeys, verdict, sealed>>

-----------------------------------------------------------------------------
(* Keys and the symmetric state *)

Ephemeral(role, c) == [t |-> "pub", owner |-> role, of |-> c]
Static(s) == [t |-> "pub", owner |-> "static", of |-> s]
Empty == [t |-> "empty"]
CertificateFormatVersion == 0

\* Public keys, with those that arrive damaged; a shared secret names the
\* initiator's key and the responder's.
PublicKeys ==
  [t : {"pub"}, owner : {"initiator", "responder", "static", "noise"}, of : Conns \cup Servers]
Secrets == PublicKeys \X PublicKeys

\* The two CipherStates that a handshake returns.
TransportKeys == [send : Seq(Secrets) \X {1, 2}, recv : Seq(Secrets) \X {1, 2}]

\* nil is no pair of CipherStates.
ASSUME NoneAssumption == None \notin TransportKeys

\* Every certificate comes from NewSignedCertificate.
ASSUME CertsAssumption ==
  \A s \in Servers : /\ Certs[s].version = CertificateFormatVersion
                     /\ Certs[s].from \in Timestamps /\ Certs[s].until \in Timestamps

\* Mutant: both sides put their own key first.
EcdhOwnFirst(own, remote, initiator) == <<own, remote>>

\* V2Ecdh: the shared secret also depends on which key is the initiator's.
Ecdh(own, remote, initiator) ==
  IF initiator THEN <<own, remote>> ELSE <<remote, own>>

\* handshakeInit and an empty CipherState; cert and serverStatic stay.
HandshakeInit(s) == [s EXCEPT !.h = <<>>, !.ck = <<>>, !.k = <<>>, !.n = 0]

MixHash(s, data) == [s EXCEPT !.h = Append(@, data)]

\* Mutant: the chaining key moves on and the cipher keeps its key.
MixKeyKeepsKey(s, secret) ==
  [s EXCEPT !.ck = Append(@, secret), !.k = IF @ = <<>> THEN <<secret>> ELSE @, !.n = 0]

\* HKDF makes the next chaining key and the key that InitializeKey installs.
MixKey(s, secret) ==
  [s EXCEPT !.ck = Append(@, secret), !.k = Append(s.ck, secret), !.n = 0]

\* The two outputs of HKDF on the final chaining key.
Split(s) == [k1 |-> <<s.ck, 1>>, k2 |-> <<s.ck, 2>>]

Ciphertext(s, plain) ==
  [t |-> "ct", key |-> s.k, n |-> s.n, ad |-> s.h, plain |-> plain, intact |-> TRUE]

\* encryptAndHash: what is sent, and the state afterwards.
Encrypted(s, plain) == IF s.k = <<>> THEN plain ELSE Ciphertext(s, plain)
EncryptAndHash(s, plain) ==
  MixHash(IF s.k = <<>> THEN s ELSE [s EXCEPT !.n = @ + 1], Encrypted(s, plain))

\* decryptAndHash fails when a key is set and the ciphertext does not open.
Opens(s, ct) ==
  \/ s.k = <<>>
  \/ /\ ct.t = "ct"
     /\ ct.intact
     /\ ct.key = s.k /\ ct.n = s.n /\ ct.ad = s.h
DecryptAndHash(s, ct) ==
  MixHash(IF s.k = <<>> THEN s ELSE [s EXCEPT !.n = @ + 1], ct)

-----------------------------------------------------------------------------
(* The initiator *)

Mine(c) == hs[plan.init[c]]
SetMine(c, s) == hs' = [hs EXCEPT ![plan.init[c]] = s]

\* One client goroutine uses its HandshakeState for one connection at a time.
ClientFree(c) ==
  \A d \in Conns \ {c} :
    plan.init[d] = plan.init[c] => ipc[d] \in {"idle", "failed", "checked"}

\* The first message.  Its Write ignores errors: on a broken connection the
\* message is lost and the following read fails.
InitiatorStart(c) ==
  /\ ipc[c] = "idle"
  /\ ClientFree(c)
  /\ LET e == Ephemeral("initiator", c)
         s == EncryptAndHash(MixHash(HandshakeInit(Mine(c)), e), Empty)
     IN  /\ SetMine(c, s)
         /\ part1' = IF c \in broken THEN part1 ELSE [part1 EXCEPT ![c] = e]
  /\ ipc' = [ipc EXCEPT ![c] = "read"]
  /\ UNCHANGED <<rpc, out, part2, broken, damaged, ikeys, rkeys, verdict, sealed>>

\* The state once the server's ephemeral key is mixed in, and once its static
\* key is too.
WithEphemeral(c) ==
  MixKey(MixHash(Mine(c), part2[c].e),
         Ecdh(Ephemeral("initiator", c), part2[c].e, TRUE))

WithStatic(c) ==
  LET s == DecryptAndHash(WithEphemeral(c), part2[c].static)
  IN  MixKey([s EXCEPT !.serverStatic = part2[c].static.plain],
             Ecdh(Ephemeral("initiator", c), part2[c].static.plain, TRUE))

\* Mutant: the certificate of the previous handshake stays.
InitiatorFinishKeepsCert(c) ==
  /\ ipc[c] = "read"
  /\ part2[c] # None
  /\ Opens(WithEphemeral(c), part2[c].static)
  /\ Opens(WithStatic(c), part2[c].cert)
  /\ LET s == DecryptAndHash(WithStatic(c), part2[c].cert)
     IN  /\ SetMine(c, IF s.cert = None THEN [s EXCEPT !.cert = part2[c].cert.plain] ELSE s)
         /\ ikeys' = [ikeys EXCEPT ![c] = [send |-> Split(s).k1, recv |-> Split(s).k2]]
  /\ ipc' = [ipc EXCEPT ![c] = "done"]
  /\ UNCHANGED <<rpc, out, part1, part2, broken, damaged, rkeys, verdict, sealed>>

\* Mutant: the error of the second decryption is dropped.
InitiatorFinishUnchecked(c) ==
  /\ ipc[c] = "read"
  /\ part2[c] # None
  /\ Opens(WithEphemeral(c), part2[c].static)
  /\ LET s == DecryptAndHash(WithStatic(c), part2[c].cert)
     IN  /\ SetMine(c, [s EXCEPT !.cert = part2[c].cert.plain])
         /\ ikeys' = [ikeys EXCEPT ![c] = [send |-> Split(s).k1, recv |-> Split(s).k2]]
  /\ ipc' = [ipc EXCEPT ![c] = "done"]
  /\ UNCHANGED <<rpc, out, part1, part2, broken, damaged, rkeys, verdict, sealed>>

\* The second message is there and both of its ciphertexts open.
InitiatorFinish(c) ==
  /\ ipc[c] = "read"
  /\ part2[c] # None
  /\ Opens(WithEphemeral(c), part2[c].static)
  /\ Opens(WithStatic(c), part2[c].cert)
  /\ LET s == DecryptAndHash(WithStatic(c), part2[c].cert)
     IN  /\ SetMine(c, [s EXCEPT !.cert = part2[c].cert.plain])
         /\ ikeys' = [ikeys EXCEPT ![c] = [send |-> Split(s).k1, recv |-> Split(s).k2]]
  /\ ipc' = [ipc EXCEPT ![c] = "done"]
  /\ UNCHANGED <<rpc, out, part1, part2, broken, damaged, rkeys, verdict, sealed>>

InitiatorError(c, s) ==
  /\ SetMine(c, s)
  /\ ipc' = [ipc EXCEPT ![c] = "failed"]
  /\ UNCHANGED <<rpc, out, part1, part2, broken, damaged, ikeys, rkeys, verdict, sealed>>

\* io.ReadFull fails on the broken connection.
InitiatorReadFails(c) ==
  /\ ipc[c] = "read"
  /\ part2[c] = None
  /\ c \in broken
  /\ InitiatorError(c, Mine(c))

\* The server's static key does not open.
InitiatorStaticFails(c) ==
  /\ ipc[c] = "read"
  /\ part2[c] # None
  /\ ~ Opens(WithEphemeral(c), part2[c].static)
  /\ InitiatorError(c, WithEphemeral(c))

\* The certificate does not open: hs keeps the new static key beside the
\* certificate of an earlier handshake.
InitiatorCertFails(c) ==
  /\ ipc[c] = "read"
  /\ part2[c] # None
  /\ Opens(WithEphemeral(c), part2[c].static)
  /\ ~ Opens(WithStatic(c), part2[c].cert)
  /\ InitiatorError(c, WithStatic(c))

-----------------------------------------------------------------------------
(* The responder *)

Theirs(c) == hs[plan.resp[c]]

\* A call of a method of the HandshakeState; part1 is what io.ReadFull returned
\* once the first message has been read.
ResponderCall(c, from, to, s) ==
  /\ rpc[c] = from
  /\ rpc' = [rpc EXCEPT ![c] = to]
  /\ hs' = [hs EXCEPT ![plan.resp[c]] = s]
  /\ UNCHANGED <<ipc, part1, part2, broken, damaged, ikeys, rkeys, verdict>>

ResponderStart(c) ==
  /\ ResponderCall(c, "idle", "read", HandshakeInit(Theirs(c)))
  /\ UNCHANGED <<out, sealed>>

ReadEphemeral(c) ==
  /\ part1[c] # None
  /\ ResponderCall(c, "read", "payload", MixHash(Theirs(c), part1[c]))
  /\ UNCHANGED <<out, sealed>>

\* decryptAndHash of the empty payload, meant to be called without a key.
ReadPayload(c) ==
  /\ Opens(Theirs(c), Empty)
  /\ ResponderCall(c, "payload", "e", DecryptAndHash(Theirs(c), Empty))
  /\ UNCHANGED <<out, sealed>>

AddEphemeral(c) ==
  /\ ResponderCall(c, "e", "ee", MixHash(Theirs(c), Ephemeral("responder", c)))
  /\ UNCHANGED <<out, sealed>>

MixEphemeral(c) ==
  /\ ResponderCall(c, "ee", "static",
                   MixKey(Theirs(c), Ecdh(Ephemeral("responder", c), part1[c], FALSE)))
  /\ UNCHANGED <<out, sealed>>

\* encryptAndHash seals when the HandshakeState holds a key.
Seals(c, plain) ==
  sealed' = sealed \cup (IF Theirs(c).k = <<>> THEN {} ELSE {Ciphertext(Theirs(c), plain)})

AddStatic(c) ==
  /\ ResponderCall(c, "static", "es", EncryptAndHash(Theirs(c), Static(plan.server[c])))
  /\ out' = [out EXCEPT ![c].static = Encrypted(Theirs(c), Static(plan.server[c]))]
  /\ Seals(c, Static(plan.server[c]))

MixStatic(c) ==
  /\ ResponderCall(c, "es", "cert",
                   MixKey(Theirs(c), Ecdh(Static(plan.server[c]), part1[c], FALSE)))
  /\ UNCHANGED <<out, sealed>>

AddCert(c) ==
  /\ ResponderCall(c, "cert", "write", EncryptAndHash(Theirs(c), Certs[plan.server[c]]))
  /\ out' = [out EXCEPT ![c].cert = Encrypted(Theirs(c), Certs[plan.server[c]])]
  /\ Seals(c, Certs[plan.server[c]])

\* Mutant: the second message is prepared and not written.
WriteNothing(c) ==
  /\ rpc[c] = "write"
  /\ rpc' = [rpc EXCEPT ![c] = "keys"]
  /\ UNCHANGED <<hs, ipc, out, part1, part2, broken, damaged, ikeys, rkeys, verdict, sealed>>

\* The Write ignores errors too: on a broken connection the message is lost.
\* One whose parts are not both sealed lacks bytes, for which the initiator's
\* io.ReadFull waits until the connection breaks.
Write(c) ==
  /\ rpc[c] = "write"
  /\ rpc' = [rpc EXCEPT ![c] = "keys"]
  /\ part2' = IF c \in broken \/ out[c].static.t # "ct" \/ out[c].cert.t # "ct" THEN part2 ELSE
              [part2 EXCEPT ![c] = [e |-> Ephemeral("responder", c),
                                    static |-> out[c].static, cert |-> out[c].cert]]
  /\ UNCHANGED <<hs, ipc, out, part1, broken, damaged, ikeys, rkeys, verdict, sealed>>

\* Mutant: the responder takes the initiator's view of the directions.
ReturnKeysSwapped(c) ==
  /\ rpc[c] = "keys"
  /\ rpc' = [rpc EXCEPT ![c] = "done"]
  /\ rkeys' = [rkeys EXCEPT ![c] = [send |-> Split(Theirs(c)).k1, recv |-> Split(Theirs(c)).k2]]
  /\ UNCHANGED <<hs, ipc, out, part1, part2, broken, damaged, ikeys, verdict, sealed>>

\* The transport keys come from the chaining key as it is after the Write.
ReturnKeys(c) ==
  /\ rpc[c] = "keys"
  /\ rpc' = [rpc EXCEPT ![c] = "done"]
  /\ rkeys' = [rkeys EXCEPT ![c] = [send |-> Split(Theirs(c)).k2, recv |-> Split(Theirs(c)).k1]]
  /\ UNCHANGED <<hs, ipc, out, part1, part2, broken, damaged, ikeys, verdict, sealed>>

\* io.ReadFull fails, or decryptAndHash is called on the empty payload while
\* the HandshakeState holds a key; the caller closes the connection.
RespondFails(c) ==
  /\ \/ rpc[c] = "read" /\ part1[c] = None /\ c \in broken
     \/ rpc[c] = "payload" /\ ~ Opens(Theirs(c), Empty)
  /\ rpc' = [rpc EXCEPT ![c] = "failed"]
  /\ broken' = broken \cup {c}
  /\ UNCHANGED <<hs, ipc, out, part1, part2, damaged, ikeys, rkeys, verdict, sealed>>

-----------------------------------------------------------------------------
(* The network *)

\* The connection breaks; a message that has not been read is lost.
Break(c) ==
  /\ c \notin broken
  /\ broken' = broken \cup {c}
  /\ part1' = IF rpc[c] \in {"idle", "read"} THEN [part1 EXCEPT ![c] = None] ELSE part1
  /\ part2' = IF ipc[c] = "read" THEN [part2 EXCEPT ![c] = None] ELSE part2
  /\ UNCHANGED <<hs, ipc, rpc, out, damaged, ikeys, rkeys, verdict, sealed>>

\* One field of a message in flight arrives with other bytes.
Damage(c) ==
  /\ c \notin damaged
  /\ damaged' = damaged \cup {c}
  /\ \/ /\ part1[c] # None /\ rpc[c] \in {"idle", "read"}
        /\ part1' = [part1 EXCEPT ![c].owner = "noise"]
        /\ UNCHANGED part2
     \/ /\ part2[c] # None /\ ipc[c] = "read"
        /\ \/ part2' = [part2 EXCEPT ![c].e.owner = "noise"]
           \/ part2' = [part2 EXCEPT ![c].static.intact = FALSE]
           \/ part2' = [part2 EXCEPT ![c].cert.intact = FALSE]
        /\ UNCHANGED part1
  /\ UNCHANGED <<hs, ipc, rpc, out, broken, ikeys, rkeys, verdict, sealed>>

-----------------------------------------------------------------------------
(* The certificate *)

NewSignedCertificate(authority, s, validFrom, notValidAfter) ==
  [t |-> "cert", version |-> CertificateFormatVersion, from |-> validFrom,
   until |-> notValidAfter, signer |-> authority, key |-> Static(s)]

VerifyServerCertificate(cert, static, now) ==
  /\ cert.version = CertificateFormatVersion
  /\ cert.from <= now % TimeMod
  /\ cert.until >= now % TimeMod
  /\ cert.signer = Authority
  /\ cert.key = static

\* The client checks the certificate of the handshake it has just finished.
Verify(c, now) ==
  /\ ipc[c] = "done"
  /\ verdict' = [verdict EXCEPT ![c] =
       [valid |-> VerifyServerCertificate(Mine(c).cert, Mine(c).serverStatic, now), at |-> now]]
  /\ ipc' = [ipc EXCEPT ![c] = "checked"]
  /\ UNCHANGED <<hs, rpc, out, part1, part2, broken, damaged, ikeys, rkeys, sealed>>

-----------------------------------------------------------------------------

Init ==
  /\ plan \in Plans
  /\ hs = [x \in States |-> [h |-> <<>>, ck |-> <<>>, k |-> <<>>, n |-> 0,
                             cert |-> None, serverStatic |-> None]]
  /\ ipc = [c \in Conns |-> "idle"]
  /\ rpc = [c \in Conns |-> "idle"]
  /\ out = [c \in Conns |-> [static |-> None, cert |-> None]]
  /\ part1 = [c \in Conns |-> None]
  /\ part2 = [c \in Conns |-> None]
  /\ broken = {}
  /\ damaged = {}
  /\ ikeys = [c \in Conns |-> None]
  /\ rkeys = [c \in Conns |-> None]
  /\ verdict = [c \in Conns |-> None]
  /\ sealed = {}

Initiator(c) ==
  /\ \/ InitiatorStart(c) \/ InitiatorFinish(c)
     \/ InitiatorReadFails(c) \/ InitiatorStaticFails(c) \/ InitiatorCertFails(c)
     \/ \E now \in Times : Verify(c, now)
  /\ UNCHANGED plan

Responder(c) ==
  /\ \/ ResponderStart(c) \/ ReadEphemeral(c) \/ ReadPayload(c) \/ AddEphemeral(c)
     \/ MixEphemeral(c) \/ AddStatic(c) \/ MixStatic(c) \/ AddCert(c)
     \/ Write(c) \/ ReturnKeys(c) \/ RespondFails(c)
  /\ UNCHANGED plan

Network(c) ==
  /\ Break(c) \/ Damage(c)
  /\ UNCHANGED plan

Next == \E c \in Conns : Initiator(c) \/ Responder(c) \/ Network(c)

Spec == Init /\ [][Next]_vars

\* Both goroutines of a connection keep running; nothing is assumed of the
\* network.
FairSpec ==
  Spec /\ \A c \in Conns : WF_vars(Initiator(c)) /\ WF_vars(Responder(c))

-----------------------------------------------------------------------------
(* Properties *)

\* The transport keys match: when the initiator accepts, the responder has
\* answered; once both have returned, each sends with the key the other
\* receives with, and the two directions have different keys.
KeyAgreement ==
  \A c \in Conns : ikeys[c] # None =>
    /\ rpc[c] \in {"keys", "done"}
    /\ rpc[c] = "done" => /\ ikeys[c].send = rkeys[c].recv
                          /\ ikeys[c].recv = rkeys[c].send
    /\ ikeys[c].send # ikeys[c].recv

\* A handshake whose messages were damaged anywhere is never accepted by the
\* initiator: the handshake hash and the keys cover both messages.
DamageDetected == \A c \in damaged : ikeys[c] = None

\* No key and nonce seals two messages of the handshakes, although mixKey
\* sets the nonce back to zero.
HandshakeNoncesFresh ==
  \A x, y \in sealed : x.key = y.key /\ x.n = y.n => x = y

\* The client accepts the server exactly when the server at the other end of
\* this connection has a certificate of the authority, for its own static key
\* and for this time as a uint32 counts it, also when the HandshakeState has served an earlier
\* connection to another server or an earlier handshake that failed halfway.
VerdictIsRight ==
  \A c \in Conns : verdict[c] # None =>
    LET cert == Certs[plan.server[c]]
    IN  verdict[c].valid <=> /\ cert.signer = Authority
                             /\ cert.key = Static(plan.server[c])
                             /\ verdict[c].at % TimeMod \in cert.from .. cert.until

\* A handshake fails only when its own connection broke or damaged a message,
\* whatever the handshakes of other connections are doing meanwhile.
FailsOnlyWhenDisturbed ==
  [][\A c \in Conns :
       \/ rpc[c] # "failed" /\ rpc'[c] = "failed"
       \/ ipc[c] # "failed" /\ ipc'[c] = "failed"
       => c \in broken \cup damaged]_vars

\* Every handshake that an initiator begins comes to an end.
HandshakesEnd ==
  \A c \in Conns : ipc[c] = "read" ~> ipc[c] \in {"done", "checked", "failed"}
=============================================================================
