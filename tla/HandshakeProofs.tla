-------------------------- MODULE HandshakeProofs --------------------------
(***************************************************************************)
(* Theorems about Handshake, for any connections and servers and for every *)
(* plan that gives each responder a HandshakeState of its own: the keys of *)
(* both sides match, a damaged handshake is not accepted, no nonce is used *)
(* twice under a key, the verdict on a certificate is about the server at  *)
(* the other end, and a handshake fails only when its own connection was   *)
(* disturbed.  For responders that share a HandshakeState the keys need    *)
(* not match and handshakes fail undisturbed.                              *)
(***************************************************************************)
EXTENDS Handshake, SequenceTheorems, TLAPS

Me(c) == Ephemeral("initiator", c)
You(c) == Ephemeral("responder", c)

\* A HandshakeState, field by field.
Mk(h, ck, k, n, cert, static) ==
  [h |-> h, ck |-> ck, k |-> k, n |-> n, cert |-> cert, serverStatic |-> static]

FieldNames == {"h", "ck", "k", "n", "cert", "serverStatic"}

IsState(s) ==
  /\ s = Mk(s.h, s.ck, s.k, s.n, s.cert, s.serverStatic)
  /\ s.ck \in Seq(Secrets)

CtNames == {"t", "key", "n", "ad", "plain", "intact"}

\* A ciphertext as it is sealed, always with the nonce 0.
Intact(key, ad, plain) ==
  [t |-> "ct", key |-> key, n |-> 0, ad |-> ad, plain |-> plain, intact |-> TRUE]

\* Every responder has a HandshakeState of its own; initiators may use one
\* again for another connection.
Separate ==
  \A p \in Plans : \A c, d \in Conns : p.init[c] # p.resp[d] /\ (p.resp[c] = p.resp[d] => c = d)

\* The secrets, hashes, keys and ciphertexts of c, as its responder makes them
\* from the first message it read.
RX1(c) == <<part1[c], You(c)>>
RX2(c) == <<part1[c], Static(plan.server[c])>>
RK0 == <<>>
RK1(c) == Append(RK0, RX1(c))
RK2(c) == Append(RK1(c), RX2(c))
RHe(c) == Append(RK0, part1[c])
RHp(c) == Append(RHe(c), Empty)
RH1(c) == Append(RHp(c), You(c))
RStatic(c) == Intact(RK1(c), RH1(c), Static(plan.server[c]))
RH2(c) == Append(RH1(c), RStatic(c))
RCert(c) == Intact(RK2(c), RH2(c), Certs[plan.server[c]])
RH3(c) == Append(RH2(c), RCert(c))

\* The responder's HandshakeState: its chaining key is also its key.
Holds(c, h, k, n) == Theirs(c) = Mk(h, k, k, n, Theirs(c).cert, Theirs(c).serverStatic)

\* Where a responder is that has answered, and one that has sealed something.
Written == {"keys", "done"}
Sealing == {"es", "cert", "write", "keys", "done"}
Before == {"idle", "read", "failed"}

\* A second message made with two keys.
IsPart2(m, server, k1, k2) ==
  /\ DOMAIN m = {"e", "static", "cert"} /\ DOMAIN m.static = CtNames /\ DOMAIN m.cert = CtNames
  /\ m.e \in PublicKeys
  /\ m.static.plain = Static(server) /\ m.cert.plain = Certs[server]
  /\ m.static.key = k1 /\ m.cert.key = k2

Steps == {"idle", "read", "payload", "e", "ee", "static", "es", "cert", "write", "keys", "done", "failed"}

TInv ==
  /\ plan \in Plans
  /\ DOMAIN hs = States
  /\ \A x \in States : IsState(hs[x])
  /\ ipc \in [Conns -> {"idle", "read", "done", "failed", "checked"}]
  /\ rpc \in [Conns -> Steps]
  /\ part1 \in [Conns -> PublicKeys \cup {None}]
  /\ DOMAIN part2 = Conns /\ DOMAIN ikeys = Conns /\ DOMAIN rkeys = Conns /\ DOMAIN verdict = Conns
  /\ DOMAIN out = Conns /\ \A c \in Conns : DOMAIN out[c] = {"static", "cert"}
  /\ damaged \subseteq Conns

\* No step of another connection comes between the responder's calls.
AloneInv ==
  \A c, d \in Conns : plan.init[c] # plan.resp[d] /\ (plan.resp[c] = plan.resp[d] => c = d)

\* What the responder's HandshakeState and its buffer hold between two calls.
StateAt(c) ==
  /\ rpc[c] = "read"    => Holds(c, RK0, RK0, 0)
  /\ rpc[c] = "payload" => Holds(c, RHe(c), RK0, 0)
  /\ rpc[c] = "e"       => Holds(c, RHp(c), RK0, 0)
  /\ rpc[c] = "ee"      => Holds(c, RH1(c), RK0, 0)
  /\ rpc[c] = "static"  => Holds(c, RH1(c), RK1(c), 0)
  /\ rpc[c] = "es"      => Holds(c, RH2(c), RK1(c), 1)
  /\ rpc[c] = "cert"    => Holds(c, RH2(c), RK2(c), 0)
  /\ rpc[c] \in {"write", "keys"} => Holds(c, RH3(c), RK2(c), 1)
BufferAt(c) ==
  /\ rpc[c] \in {"es", "cert", "write"} => out[c].static = RStatic(c)
  /\ rpc[c] = "write" => out[c].cert = RCert(c)
  /\ rpc[c] = "done" => rkeys[c] = [send |-> <<RK2(c), 2>>, recv |-> <<RK2(c), 1>>]
ResponderInv == \A c \in Conns : StateAt(c) /\ BufferAt(c)

Part2At(c) == part2[c] # None => IsPart2(part2[c], plan.server[c], RK1(c), RK2(c))

ControlAt(c) ==
  /\ ipc[c] = "idle" => part1[c] = None /\ ikeys[c] = None /\ c \notin damaged
  /\ part2[c] # None => rpc[c] \in Written
  /\ rpc[c] \notin Before => part1[c] # None
  /\ ikeys[c] # None => rpc[c] \in Written /\ ipc[c] \in {"done", "checked"}

\* The damage is in the first message, or in the second once there is one; or
\* the damaged message was lost.
Spoiled(c) ==
  /\ ipc[c] # "idle"
  /\ \/ part1[c] = None
     \/ part1[c].owner = "noise"
     \/ /\ rpc[c] \in Written
        /\ \/ part2[c] = None
           \/ part2[c].e.owner = "noise" \/ ~ part2[c].static.intact \/ ~ part2[c].cert.intact

DamageAt(c) == c \in damaged => ikeys[c] = None /\ Spoiled(c)

KeysAt(c) == ikeys[c] # None => ikeys[c] = [send |-> <<RK2(c), 1>>, recv |-> <<RK2(c), 2>>]

\* What concerns one connection only.
ConnInv == \A c \in Conns : Part2At(c) /\ ControlAt(c) /\ DamageAt(c) /\ KeysAt(c)

\* A HandshakeState serves one initiator at a time.
ExclusiveInv ==
  \A c, d \in Conns :
    ipc[c] \in {"read", "done"} /\ ipc[d] \in {"read", "done"} /\ plan.init[c] = plan.init[d] => c = d

\* After the handshake and until the check, it holds the certificate and the
\* key of the server at the other end.
CertInv ==
  \A c \in Conns : ipc[c] = "done" =>
    Mine(c).cert = Certs[plan.server[c]] /\ Mine(c).serverStatic = Static(plan.server[c])

\* Everything sealed is a part of the second message of some connection.
SealedInv ==
  \A x \in sealed : \E c \in Conns : rpc[c] \in Sealing /\ x \in {RStatic(c), RCert(c)}

\* The inductive invariant.
IInv == TInv /\ AloneInv /\ ResponderInv /\ ConnInv /\ ExclusiveInv /\ CertInv /\ SealedInv /\ VerdictIsRight

-----------------------------------------------------------------------------
(* The symmetric state *)

LEMMA PlanTypes ==
  ASSUME plan \in Plans, NEW c \in Conns
  PROVE  plan.init[c] \in States /\ plan.resp[c] \in States /\ plan.server[c] \in Servers
  <1>1. plan \in [init : [Conns -> States], resp : [Conns -> States], server : [Conns -> Servers]]
    BY PlansAssumption
  <1> QED
    BY <1>1

LEMMA KeyTypes ==
  ASSUME NEW c \in Conns, NEW s \in Servers
  PROVE  Me(c) \in PublicKeys /\ You(c) \in PublicKeys /\ Static(s) \in PublicKeys
         /\ Me(c).owner = "initiator" /\ You(c).owner = "responder" /\ You(c).of = c
         /\ Static(s).owner = "static"
  BY DEF Me, You, Static, Ephemeral, PublicKeys

LEMMA Fields ==
  ASSUME NEW h, NEW ck, NEW k, NEW n, NEW cert, NEW static
  PROVE  LET s == Mk(h, ck, k, n, cert, static)
         IN  s.h = h /\ s.ck = ck /\ s.k = k /\ s.n = n /\ s.cert = cert /\ s.serverStatic = static
  BY DEF Mk

LEMMA InitFields ==
  ASSUME NEW h, NEW ck, NEW k, NEW n, NEW cert, NEW static
  PROVE  HandshakeInit(Mk(h, ck, k, n, cert, static)) = Mk(<<>>, <<>>, <<>>, 0, cert, static)
  <1> DEFINE s == Mk(h, ck, k, n, cert, static)
             r == HandshakeInit(s)
  <1>1. DOMAIN r = FieldNames /\ r = [x \in FieldNames |-> r[x]]
    BY DEF Mk, HandshakeInit, FieldNames
  <1>2. r.h = <<>> /\ r.ck = <<>>
    BY DEF Mk, HandshakeInit
  <1>3. r.k = <<>> /\ r.n = 0
    BY DEF Mk, HandshakeInit
  <1>4. r.cert = cert /\ r.serverStatic = static
    BY DEF Mk, HandshakeInit
  <1> HIDE DEF r
  <1>5. r = Mk(<<>>, <<>>, <<>>, 0, cert, static)
    BY <1>1, <1>2, <1>3, <1>4 DEF Mk, FieldNames
  <1> QED
    BY <1>5 DEF r

LEMMA MixHashFields ==
  ASSUME NEW h, NEW ck, NEW k, NEW n, NEW cert, NEW static, NEW data
  PROVE  MixHash(Mk(h, ck, k, n, cert, static), data) = Mk(Append(h, data), ck, k, n, cert, static)
  BY DEF Mk, MixHash

LEMMA SetFields ==
  ASSUME NEW h, NEW ck, NEW k, NEW n, NEW cert, NEW static, NEW v
  PROVE  LET s == Mk(h, ck, k, n, cert, static)
         IN  /\ [s EXCEPT !.serverStatic = v] = Mk(h, ck, k, n, cert, v)
             /\ [s EXCEPT !.cert = v] = Mk(h, ck, k, n, v, static)
  BY DEF Mk

LEMMA MixKeyFields ==
  ASSUME NEW h, NEW ck, NEW k, NEW n, NEW cert, NEW static, NEW secret
  PROVE  MixKey(Mk(h, ck, k, n, cert, static), secret)
           = Mk(h, Append(ck, secret), Append(ck, secret), 0, cert, static)
  <1> DEFINE s == Mk(h, ck, k, n, cert, static)
             r == MixKey(s, secret)
  <1>1. DOMAIN r = FieldNames /\ r = [x \in FieldNames |-> r[x]]
    BY DEF Mk, MixKey, FieldNames
  <1>2. r.ck = Append(ck, secret) /\ r.k = Append(ck, secret)
    BY DEF Mk, MixKey
  <1>3. r.h = h /\ r.n = 0
    BY DEF Mk, MixKey
  <1>4. r.cert = cert /\ r.serverStatic = static
    BY DEF Mk, MixKey
  <1> HIDE DEF r
  <1>5. r = Mk(h, Append(ck, secret), Append(ck, secret), 0, cert, static)
    BY <1>1, <1>2, <1>3, <1>4 DEF Mk, FieldNames
  <1> QED
    BY <1>5 DEF r

\* With a key, encryptAndHash and decryptAndHash mix the ciphertext.
LEMMA EncryptFields ==
  ASSUME NEW h, NEW ck, NEW k, NEW cert, NEW static, NEW plain, k # <<>>
  PROVE  LET s == Mk(h, ck, k, 0, cert, static)
         IN  /\ Ciphertext(s, plain) = Intact(k, h, plain)
             /\ EncryptAndHash(s, plain) = Mk(Append(h, Intact(k, h, plain)), ck, k, 1, cert, static)
  <1> DEFINE s == Mk(h, ck, k, 0, cert, static)
  <1>1. Ciphertext(s, plain) = Intact(k, h, plain)
    BY DEF Ciphertext, Intact, Mk
  <1>2. s.k # <<>>
    BY Fields
  <1>3. [s EXCEPT !.n = @ + 1] = Mk(h, ck, k, 1, cert, static)
    BY DEF Mk
  <1>4. Encrypted(s, plain) = Intact(k, h, plain)
    BY <1>1, <1>2 DEF Encrypted
  <1>5. EncryptAndHash(s, plain) = MixHash(Mk(h, ck, k, 1, cert, static), Intact(k, h, plain))
    BY <1>2, <1>3, <1>4 DEF EncryptAndHash
  <1>6. EncryptAndHash(s, plain) = Mk(Append(h, Intact(k, h, plain)), ck, k, 1, cert, static)
    <2> DEFINE ct == Intact(k, h, plain)
    <2>1. EncryptAndHash(s, plain) = MixHash(Mk(h, ck, k, 1, cert, static), ct)
      BY <1>5
    <2> HIDE DEF ct
    <2>2. MixHash(Mk(h, ck, k, 1, cert, static), ct) = Mk(Append(h, ct), ck, k, 1, cert, static)
      BY MixHashFields
    <2>3. EncryptAndHash(s, plain) = Mk(Append(h, ct), ck, k, 1, cert, static)
      BY <2>1, <2>2
    <2> QED
      BY <2>3 DEF ct
  <1> QED
    BY <1>1, <1>6

LEMMA DecryptFields ==
  ASSUME NEW h, NEW ck, NEW k, NEW cert, NEW static, NEW ct, k # <<>>
  PROVE  LET s == Mk(h, ck, k, 0, cert, static)
         IN  DecryptAndHash(s, ct) = Mk(Append(h, ct), ck, k, 1, cert, static)
  <1> DEFINE s == Mk(h, ck, k, 0, cert, static)
  <1>1. s.k # <<>>
    BY Fields
  <1>2. [s EXCEPT !.n = @ + 1] = Mk(h, ck, k, 1, cert, static)
    BY DEF Mk
  <1>3. DecryptAndHash(s, ct) = MixHash(Mk(h, ck, k, 1, cert, static), ct)
    BY <1>1, <1>2 DEF DecryptAndHash
  <1> QED
    BY <1>3, MixHashFields

\* Without one they mix what they are given.
LEMMA NoKeyFields ==
  ASSUME NEW h, NEW ck, NEW n, NEW cert, NEW static, NEW data
  PROVE  LET s == Mk(h, ck, <<>>, n, cert, static)
         IN  /\ EncryptAndHash(s, data) = Mk(Append(h, data), ck, <<>>, n, cert, static)
             /\ DecryptAndHash(s, data) = Mk(Append(h, data), ck, <<>>, n, cert, static)
  <1> DEFINE s == Mk(h, ck, <<>>, n, cert, static)
  <1>1. s.k = <<>>
    BY Fields
  <1>2. EncryptAndHash(s, data) = MixHash(s, data) /\ DecryptAndHash(s, data) = MixHash(s, data)
    BY <1>1 DEF EncryptAndHash, DecryptAndHash, Encrypted
  <1> QED
    BY <1>2, MixHashFields

LEMMA OpensFields ==
  ASSUME NEW h, NEW ck, NEW k, NEW cert, NEW static, NEW ct, k # <<>>
  PROVE  Opens(Mk(h, ck, k, 0, cert, static), ct)
           <=> ct.t = "ct" /\ ct.intact /\ ct.key = k /\ ct.n = 0 /\ ct.ad = h
  BY Fields DEF Opens

\* Only a state without a key takes the empty payload of the first message.
LEMMA EmptyOpens ==
  ASSUME NEW h, NEW ck, NEW k, NEW n, NEW cert, NEW static
  PROVE  Opens(Mk(h, ck, k, n, cert, static), Empty) <=> k = <<>>
  BY Fields DEF Opens, Empty

\* A key after another secret.
LEMMA NextKey ==
  ASSUME NEW ck \in Seq(Secrets), NEW x \in Secrets
  PROVE  /\ Append(ck, x) \in Seq(Secrets) /\ Append(ck, x) # <<>>
         /\ Len(Append(ck, x)) = Len(ck) + 1 /\ Len(ck) \in Nat
         /\ Append(ck, x)[Len(Append(ck, x))] = x
         /\ Append(ck, x)[Len(Append(ck, x)) - 1] = IF ck = <<>> THEN Append(ck, x)[0] ELSE ck[Len(ck)]
  <1>1. /\ Append(ck, x) \in Seq(Secrets) /\ Append(ck, x) # <<>>
        /\ Len(Append(ck, x)) = Len(ck) + 1 /\ Append(ck, x)[Len(ck) + 1] = x
        /\ \A i \in 1 .. Len(ck) : Append(ck, x)[i] = ck[i]
    BY AppendProperties
  <1>2. Len(ck) \in Nat /\ (ck # <<>> => Len(ck) # 0) /\ (ck = <<>> => Len(ck) = 0)
    BY LenProperties, EmptySeq
  <1>3. (Len(ck) + 1) - 1 = Len(ck) /\ (Len(ck) # 0 => Len(ck) \in 1 .. Len(ck))
    BY <1>2
  <1> QED
    BY <1>1, <1>2, <1>3

-----------------------------------------------------------------------------
(* What each side computes *)

LEMMA PartTypes ==
  ASSUME TInv, NEW c \in Conns
  PROVE  /\ IsState(Mine(c)) /\ IsState(Theirs(c))
         /\ plan.init[c] \in States /\ plan.resp[c] \in States /\ plan.server[c] \in Servers
         /\ part1[c] # None => part1[c] \in PublicKeys
  <1>1. plan.init[c] \in States /\ plan.resp[c] \in States /\ plan.server[c] \in Servers
    BY PlanTypes DEF TInv
  <1>2. IsState(Mine(c)) /\ IsState(Theirs(c))
    BY <1>1 DEF TInv, Mine, Theirs
  <1> QED
    BY <1>1, <1>2 DEF TInv

\* The secrets, hashes and keys of c, as its initiator sees them.
IX1(c) == <<Me(c), part2[c].e>>
IX2(c) == <<Me(c), part2[c].static.plain>>
IK1(c) == Append(Mine(c).ck, IX1(c))
IK2(c) == Append(IK1(c), IX2(c))
IH1(c) == Append(Mine(c).h, part2[c].e)
IH2(c) == Append(IH1(c), part2[c].static)

LEMMA InitiatorKeys ==
  ASSUME TInv, NEW c \in Conns, part2[c] # None, Part2At(c)
  PROVE  /\ IX1(c) \in Secrets /\ IX2(c) \in Secrets
         /\ IK1(c) \in Seq(Secrets) /\ IK1(c) # <<>> /\ IK1(c)[Len(IK1(c))] = IX1(c)
         /\ IK2(c) \in Seq(Secrets) /\ IK2(c) # <<>>
  <1>1. part2[c].e \in PublicKeys /\ part2[c].static.plain = Static(plan.server[c])
    BY DEF Part2At, IsPart2
  <1>2. plan.server[c] \in Servers /\ Mine(c).ck \in Seq(Secrets)
    BY PartTypes DEF IsState
  <1>3. IX1(c) \in Secrets /\ IX2(c) \in Secrets
    BY <1>1, <1>2, KeyTypes DEF IX1, IX2, Secrets
  <1>4. IK1(c) \in Seq(Secrets) /\ IK1(c) # <<>> /\ IK1(c)[Len(IK1(c))] = IX1(c)
    BY <1>2, <1>3, NextKey DEF IK1
  <1>5. IK2(c) \in Seq(Secrets) /\ IK2(c) # <<>>
    BY <1>3, <1>4, NextKey DEF IK2
  <1> QED
    BY <1>3, <1>4, <1>5

LEMMA InitiatorStates ==
  ASSUME TInv, NEW c \in Conns, part2[c] # None, Part2At(c)
  PROVE  /\ WithEphemeral(c)
              = Mk(IH1(c), IK1(c), IK1(c), 0, Mine(c).cert, Mine(c).serverStatic)
         /\ WithStatic(c)
              = Mk(IH2(c), IK2(c), IK2(c), 0, Mine(c).cert, part2[c].static.plain)
         /\ DecryptAndHash(WithStatic(c), part2[c].cert)
              = Mk(Append(IH2(c), part2[c].cert), IK2(c), IK2(c), 1, Mine(c).cert, part2[c].static.plain)
  <1> DEFINE m == Mine(c)
             e == part2[c].e
             ct == part2[c].static
  <1>1. m = Mk(m.h, m.ck, m.k, m.n, m.cert, m.serverStatic)
    BY PartTypes DEF IsState
  <1>2. MixHash(m, e) = Mk(IH1(c), m.ck, m.k, m.n, m.cert, m.serverStatic)
    <2> HIDE DEF m, e
    <2>1. MixHash(m, e) = Mk(Append(m.h, e), m.ck, m.k, m.n, m.cert, m.serverStatic)
      BY <1>1, MixHashFields
    <2> QED
      BY <2>1 DEF IH1, m, e
  <1>3. Ecdh(Me(c), e, TRUE) = IX1(c) /\ Ecdh(Me(c), ct.plain, TRUE) = IX2(c)
    BY DEF Ecdh, IX1, IX2
  <1>4. WithEphemeral(c) = Mk(IH1(c), IK1(c), IK1(c), 0, m.cert, m.serverStatic)
    <2>1. WithEphemeral(c) = MixKey(MixHash(m, e), Ecdh(Me(c), e, TRUE))
      BY DEF WithEphemeral, Me
    <2> DEFINE x == IX1(c)
               h == IH1(c)
    <2>2. WithEphemeral(c) = MixKey(Mk(h, m.ck, m.k, m.n, m.cert, m.serverStatic), x)
      BY <1>2, <1>3, <2>1
    <2> HIDE DEF x, h, m
    <2>3. WithEphemeral(c) = Mk(h, Append(m.ck, x), Append(m.ck, x), 0, m.cert, m.serverStatic)
      BY <2>2, MixKeyFields
    <2> QED
      BY <2>3 DEF x, h, m, IK1
  <1>5. WithStatic(c) = Mk(IH2(c), IK2(c), IK2(c), 0, m.cert, ct.plain)
    <2> DEFINE h == IH1(c)
               k == IK1(c)
               y == IX2(c)
               p == ct.plain
               s == DecryptAndHash(WithEphemeral(c), ct)
    <2>1. k # <<>>
      BY InitiatorKeys
    <2>2. WithEphemeral(c) = Mk(h, k, k, 0, m.cert, m.serverStatic)
      BY <1>4
    <2>3. WithStatic(c) = MixKey([s EXCEPT !.serverStatic = p], y)
      BY <1>3 DEF WithStatic, Me
    <2>4. s = Mk(Append(h, ct), k, k, 1, m.cert, m.serverStatic)
      <3> HIDE DEF h, k, m, ct
      <3> QED
        BY <2>1, <2>2, DecryptFields
    <2> HIDE DEF h, k, m, ct, s, y, p
    <2>5. [s EXCEPT !.serverStatic = p] = Mk(Append(h, ct), k, k, 1, m.cert, p)
      BY <2>4, SetFields
    <2>6. WithStatic(c) = Mk(Append(h, ct), Append(k, y), Append(k, y), 0, m.cert, p)
      BY <2>3, <2>5, MixKeyFields
    <2> QED
      BY <2>6 DEF h, k, m, ct, y, p, IH2, IK2
  <1>6. DecryptAndHash(WithStatic(c), part2[c].cert)
          = Mk(Append(IH2(c), part2[c].cert), IK2(c), IK2(c), 1, m.cert, ct.plain)
    <2> DEFINE h == IH2(c)
               k == IK2(c)
               p == ct.plain
               d == part2[c].cert
    <2>1. k # <<>>
      BY InitiatorKeys
    <2>2. WithStatic(c) = Mk(h, k, k, 0, m.cert, p)
      BY <1>5
    <2> HIDE DEF h, k, p, d, m, ct
    <2>3. DecryptAndHash(WithStatic(c), d) = Mk(Append(h, d), k, k, 1, m.cert, p)
      BY <2>1, <2>2, DecryptFields
    <2> QED
      BY <2>3 DEF h, k, p, d, m, ct
  <1> QED
    BY <1>4, <1>5, <1>6

LEMMA ResponderKeys ==
  ASSUME TInv, NEW c \in Conns, part1[c] # None
  PROVE  /\ RX1(c) \in Secrets /\ RX2(c) \in Secrets
         /\ RK1(c) \in Seq(Secrets) /\ RK1(c) # <<>> /\ RK1(c)[Len(RK1(c))] = RX1(c)
         /\ RK2(c) \in Seq(Secrets) /\ RK2(c) # <<>> /\ RK2(c)[Len(RK2(c))] = RX2(c)
         /\ RK2(c)[Len(RK2(c)) - 1] = RX1(c)
  <1>1. part1[c] \in PublicKeys /\ plan.server[c] \in Servers /\ RK0 \in Seq(Secrets)
    BY PartTypes, EmptySeq DEF RK0
  <1>2. RX1(c) \in Secrets /\ RX2(c) \in Secrets
    BY <1>1, KeyTypes DEF RX1, RX2, Secrets
  <1>3. RK1(c) \in Seq(Secrets) /\ RK1(c) # <<>> /\ RK1(c)[Len(RK1(c))] = RX1(c)
    BY <1>1, <1>2, NextKey DEF RK1
  <1>4. RK2(c) \in Seq(Secrets) /\ RK2(c) # <<>> /\ RK2(c)[Len(RK2(c))] = RX2(c)
        /\ RK2(c)[Len(RK2(c)) - 1] = RK1(c)[Len(RK1(c))]
    BY <1>2, <1>3, NextKey DEF RK2
  <1> QED
    BY <1>2, <1>3, <1>4

-----------------------------------------------------------------------------
(* The responder's calls *)

Step(c) == Initiator(c) \/ Responder(c) \/ Network(c)

\* What the responder computes depends on the first message only.
LEMMA SameMessage ==
  ASSUME NEW c \in Conns, plan' = plan, part1'[c] = part1[c]
  PROVE  /\ RK0' = RK0 /\ RK1(c)' = RK1(c) /\ RK2(c)' = RK2(c)
         /\ RHe(c)' = RHe(c) /\ RHp(c)' = RHp(c) /\ RH1(c)' = RH1(c) /\ RH2(c)' = RH2(c) /\ RH3(c)' = RH3(c)
         /\ RStatic(c)' = RStatic(c) /\ RCert(c)' = RCert(c)
  BY DEF RX1, RX2, RK0, RK1, RK2, RHe, RHp, RH1, RH2, RH3, RStatic, RCert

\* A call leaves the certificate and the server's key in the HandshakeState.
LEMMA Called ==
  ASSUME TInv, NEW c \in Conns, plan' = plan, NEW from, NEW to, NEW s, ResponderCall(c, from, to, s),
         NEW h, NEW k, NEW n, s = Mk(h, k, k, n, Theirs(c).cert, Theirs(c).serverStatic)
  PROVE  /\ Theirs(c)' = s
         /\ Theirs(c)' = Mk(h, k, k, n, Theirs(c)'.cert, Theirs(c)'.serverStatic)
         /\ s.cert = Theirs(c).cert /\ s.serverStatic = Theirs(c).serverStatic
         /\ rpc[c] = from /\ rpc'[c] = to
  <1>1. plan.resp[c] \in States /\ hs' = [hs EXCEPT ![plan.resp[c]] = s]
    BY PartTypes DEF ResponderCall
  <1>2. Theirs(c)' = s
    BY <1>1 DEF Theirs, TInv
  <1>3. s.cert = Theirs(c).cert /\ s.serverStatic = Theirs(c).serverStatic
    BY Fields
  <1> QED
    BY <1>2, <1>3 DEF ResponderCall, TInv

\* The HandshakeState that each call leaves.
LEMMA StartState ==
  ASSUME TInv, NEW c \in Conns
  PROVE  /\ HandshakeInit(Mine(c)) = Mk(<<>>, <<>>, <<>>, 0, Mine(c).cert, Mine(c).serverStatic)
         /\ HandshakeInit(Theirs(c)) = Mk(RK0, RK0, RK0, 0, Theirs(c).cert, Theirs(c).serverStatic)
  <1>1. ASSUME NEW m, m = Mk(m.h, m.ck, m.k, m.n, m.cert, m.serverStatic)
        PROVE  HandshakeInit(m) = Mk(<<>>, <<>>, <<>>, 0, m.cert, m.serverStatic)
    BY <1>1, InitFields
  <1> QED
    BY <1>1, PartTypes DEF IsState, RK0

LEMMA ResponderStates ==
  ASSUME TInv, NEW c \in Conns, StateAt(c)
  PROVE  LET T(h, k, n) == Mk(h, k, k, n, Theirs(c).cert, Theirs(c).serverStatic)
         IN  /\ rpc[c] = "read" => MixHash(Theirs(c), part1[c]) = T(RHe(c), RK0, 0)
             /\ rpc[c] = "payload" => /\ Opens(Theirs(c), Empty)
                                      /\ DecryptAndHash(Theirs(c), Empty) = T(RHp(c), RK0, 0)
             /\ rpc[c] = "e" => MixHash(Theirs(c), You(c)) = T(RH1(c), RK0, 0)
             /\ rpc[c] = "ee" => MixKey(Theirs(c), RX1(c)) = T(RH1(c), RK1(c), 0)
             /\ rpc[c] = "static" /\ part1[c] # None =>
                  /\ Theirs(c).k # <<>>
                  /\ Ciphertext(Theirs(c), Static(plan.server[c])) = RStatic(c)
                  /\ EncryptAndHash(Theirs(c), Static(plan.server[c])) = T(RH2(c), RK1(c), 1)
             /\ rpc[c] = "es" => MixKey(Theirs(c), RX2(c)) = T(RH2(c), RK2(c), 0)
             /\ rpc[c] = "cert" /\ part1[c] # None =>
                  /\ Theirs(c).k # <<>>
                  /\ Ciphertext(Theirs(c), Certs[plan.server[c]]) = RCert(c)
                  /\ EncryptAndHash(Theirs(c), Certs[plan.server[c]]) = T(RH3(c), RK2(c), 1)
  <1> DEFINE m == Theirs(c)
             x == m.cert
             y == m.serverStatic
             st == Static(plan.server[c])
             ce == Certs[plan.server[c]]
             p == part1[c]
             o == RK0
  <1>1. ASSUME rpc[c] = "read" PROVE MixHash(m, p) = Mk(RHe(c), o, o, 0, x, y)
    <2>1. m = Mk(o, o, o, 0, x, y)
      BY <1>1 DEF StateAt, Holds
    <2> HIDE DEF m, x, y, p, o
    <2>2. MixHash(m, p) = Mk(Append(o, p), o, o, 0, x, y)
      BY <2>1, MixHashFields
    <2> QED
      BY <2>2 DEF RHe, o, p
  <1>2. ASSUME rpc[c] = "payload"
        PROVE  Opens(m, Empty) /\ DecryptAndHash(m, Empty) = Mk(RHp(c), o, o, 0, x, y)
    <2> DEFINE h == RHe(c)
               z == Empty
    <2>1. m = Mk(h, o, <<>>, 0, x, y)
      BY <1>2 DEF StateAt, Holds, RK0
    <2> HIDE DEF m, x, y, o, h, z
    <2>2. DecryptAndHash(m, z) = Mk(Append(h, z), o, <<>>, 0, x, y)
      BY <2>1, NoKeyFields
    <2>3. Opens(m, Empty)
      BY <2>1, EmptyOpens
    <2> QED
      BY <2>2, <2>3 DEF RHp, o, h, z, RK0
  <1>3. ASSUME rpc[c] = "e" PROVE MixHash(m, You(c)) = Mk(RH1(c), o, o, 0, x, y)
    <2> DEFINE h == RHp(c)
               e == You(c)
    <2>1. m = Mk(h, o, o, 0, x, y)
      BY <1>3 DEF StateAt, Holds
    <2> HIDE DEF m, x, y, o, h, e
    <2>2. MixHash(m, e) = Mk(Append(h, e), o, o, 0, x, y)
      BY <2>1, MixHashFields
    <2> QED
      BY <2>2 DEF RH1, h, e
  <1>4. ASSUME rpc[c] = "ee" PROVE MixKey(m, RX1(c)) = Mk(RH1(c), RK1(c), RK1(c), 0, x, y)
    <2> DEFINE h == RH1(c)
               e == RX1(c)
    <2>1. m = Mk(h, o, o, 0, x, y)
      BY <1>4 DEF StateAt, Holds
    <2> HIDE DEF m, x, y, o, h, e
    <2>2. MixKey(m, e) = Mk(h, Append(o, e), Append(o, e), 0, x, y)
      BY <2>1, MixKeyFields
    <2> QED
      BY <2>2 DEF RK1, h, e, o
  <1>5. ASSUME rpc[c] = "static", part1[c] # None
        PROVE  /\ m.k # <<>> /\ Ciphertext(m, st) = RStatic(c)
               /\ EncryptAndHash(m, st) = Mk(RH2(c), RK1(c), RK1(c), 1, x, y)
    <2> DEFINE h == RH1(c)
               k == RK1(c)
    <2>1. m = Mk(h, k, k, 0, x, y) /\ k # <<>>
      BY <1>5, ResponderKeys DEF StateAt, Holds
    <2> HIDE DEF m, x, y, st, h, k
    <2>2. /\ m.k # <<>> /\ Ciphertext(m, st) = Intact(k, h, st)
          /\ EncryptAndHash(m, st) = Mk(Append(h, Intact(k, h, st)), k, k, 1, x, y)
      BY <2>1, EncryptFields, Fields
    <2> QED
      BY <2>2 DEF RStatic, RH2, h, k, st
  <1>6. ASSUME rpc[c] = "es" PROVE MixKey(m, RX2(c)) = Mk(RH2(c), RK2(c), RK2(c), 0, x, y)
    <2> DEFINE h == RH2(c)
               e == RX2(c)
               k == RK1(c)
    <2>1. m = Mk(h, k, k, 1, x, y)
      BY <1>6 DEF StateAt, Holds
    <2> HIDE DEF m, x, y, k, h, e
    <2>2. MixKey(m, e) = Mk(h, Append(k, e), Append(k, e), 0, x, y)
      BY <2>1, MixKeyFields
    <2> QED
      BY <2>2 DEF RK2, h, e, k
  <1>7. ASSUME rpc[c] = "cert", part1[c] # None
        PROVE  /\ m.k # <<>> /\ Ciphertext(m, ce) = RCert(c)
               /\ EncryptAndHash(m, ce) = Mk(RH3(c), RK2(c), RK2(c), 1, x, y)
    <2> DEFINE h == RH2(c)
               k == RK2(c)
    <2>1. m = Mk(h, k, k, 0, x, y) /\ k # <<>>
      BY <1>7, ResponderKeys DEF StateAt, Holds
    <2> HIDE DEF m, x, y, ce, h, k
    <2>2. /\ m.k # <<>> /\ Ciphertext(m, ce) = Intact(k, h, ce)
          /\ EncryptAndHash(m, ce) = Mk(Append(h, Intact(k, h, ce)), k, k, 1, x, y)
      BY <2>1, EncryptFields, Fields
    <2> QED
      BY <2>2 DEF RCert, RH3, h, k, ce
  <1> HIDE DEF m, x, y, st, ce, p, o
  <1> QED
    BY <1>1, <1>2, <1>3, <1>4, <1>5, <1>6, <1>7 DEF m, x, y, st, ce, p, o
\* The calls on the HandshakeState, and the steps that fail or use no method.
Call(c) ==
  \/ ResponderStart(c) \/ ReadEphemeral(c) \/ ReadPayload(c) \/ AddEphemeral(c)
  \/ MixEphemeral(c) \/ AddStatic(c) \/ MixStatic(c) \/ AddCert(c)

LEMMA CallIsCall ==
  ASSUME NEW c \in Conns, Call(c)
  PROVE  \E from, to, s : /\ ResponderCall(c, from, to, s)
                          /\ from \in {"idle", "read", "payload", "e", "ee", "static", "es", "cert"}
                          /\ to \in Steps \ ({"idle", "failed"} \cup Written)
                          /\ from = "read" => part1[c] # None
                          /\ to = "read" <=> from = "idle"
                          /\ from \in Sealing => to \in Sealing
  <1> DEFINE G(from, to, s) == /\ ResponderCall(c, from, to, s)
                               /\ from \in {"idle", "read", "payload", "e", "ee", "static", "es", "cert"}
                               /\ to \in Steps \ ({"idle", "failed"} \cup Written)
                               /\ from = "read" => part1[c] # None
                               /\ to = "read" <=> from = "idle"
                               /\ from \in Sealing => to \in Sealing
  <1>1. CASE ResponderStart(c)
    <2>1. G("idle", "read", HandshakeInit(Theirs(c)))
      BY <1>1 DEF ResponderStart, Steps, Written, Sealing
    <2> HIDE DEF G
    <2>2. \E from, to, s : G(from, to, s)
      BY <2>1
    <2> QED
      BY <2>2 DEF G
  <1>2. CASE ReadEphemeral(c)
    <2>1. G("read", "payload", MixHash(Theirs(c), part1[c]))
      BY <1>2 DEF ReadEphemeral, Steps, Written, Sealing
    <2> HIDE DEF G
    <2>2. \E from, to, s : G(from, to, s)
      BY <2>1
    <2> QED
      BY <2>2 DEF G
  <1>3. CASE ReadPayload(c)
    <2>1. G("payload", "e", DecryptAndHash(Theirs(c), Empty))
      BY <1>3 DEF ReadPayload, Steps, Written, Sealing
    <2> HIDE DEF G
    <2>2. \E from, to, s : G(from, to, s)
      BY <2>1
    <2> QED
      BY <2>2 DEF G
  <1>4. CASE AddEphemeral(c)
    <2>1. G("e", "ee", MixHash(Theirs(c), Ephemeral("responder", c)))
      BY <1>4 DEF AddEphemeral, Steps, Written, Sealing
    <2> HIDE DEF G
    <2>2. \E from, to, s : G(from, to, s)
      BY <2>1
    <2> QED
      BY <2>2 DEF G
  <1>5. CASE MixEphemeral(c)
    <2>1. G("ee", "static", MixKey(Theirs(c), Ecdh(Ephemeral("responder", c), part1[c], FALSE)))
      BY <1>5 DEF MixEphemeral, Steps, Written, Sealing
    <2> HIDE DEF G
    <2>2. \E from, to, s : G(from, to, s)
      BY <2>1
    <2> QED
      BY <2>2 DEF G
  <1>6. CASE AddStatic(c)
    <2>1. G("static", "es", EncryptAndHash(Theirs(c), Static(plan.server[c])))
      BY <1>6 DEF AddStatic, Steps, Written, Sealing
    <2> HIDE DEF G
    <2>2. \E from, to, s : G(from, to, s)
      BY <2>1
    <2> QED
      BY <2>2 DEF G
  <1>7. CASE MixStatic(c)
    <2>1. G("es", "cert", MixKey(Theirs(c), Ecdh(Static(plan.server[c]), part1[c], FALSE)))
      BY <1>7 DEF MixStatic, Steps, Written, Sealing
    <2> HIDE DEF G
    <2>2. \E from, to, s : G(from, to, s)
      BY <2>1
    <2> QED
      BY <2>2 DEF G
  <1>8. CASE AddCert(c)
    <2>1. G("cert", "write", EncryptAndHash(Theirs(c), Certs[plan.server[c]]))
      BY <1>8 DEF AddCert, Steps, Written, Sealing
    <2> HIDE DEF G
    <2>2. \E from, to, s : G(from, to, s)
      BY <2>1
    <2> QED
      BY <2>2 DEF G
  <1> QED
    BY <1>1, <1>2, <1>3, <1>4, <1>5, <1>6, <1>7, <1>8 DEF Call

\* What every call leaves alone.
LEMMA CallFrame ==
  ASSUME TInv, NEW c \in Conns, Call(c)
  PROVE  /\ UNCHANGED <<ipc, part1, part2, broken, damaged, ikeys, rkeys, verdict>>
         /\ rpc' \in [Conns -> Steps] /\ rpc'[c] \notin {"idle", "failed"} \cup Written
         /\ rpc[c] \notin {"failed"} \cup Written
         /\ rpc[c] = "read" => part1[c] # None
         /\ rpc'[c] = "read" <=> rpc[c] = "idle"
         /\ rpc[c] \in Sealing => rpc'[c] \in Sealing
         /\ \A d \in Conns \ {c} : rpc'[d] = rpc[d]
         /\ \E s : hs' = [hs EXCEPT ![plan.resp[c]] = s]
  <1>1. PICK from, to, s :
            /\ ResponderCall(c, from, to, s)
            /\ from \in {"idle", "read", "payload", "e", "ee", "static", "es", "cert"}
            /\ to \in Steps \ ({"idle", "failed"} \cup Written)
            /\ from = "read" => part1[c] # None
            /\ to = "read" <=> from = "idle"
            /\ from \in Sealing => to \in Sealing
    BY CallIsCall
  <1>2. rpc[c] = from /\ rpc' = [rpc EXCEPT ![c] = to]
        /\ hs' = [hs EXCEPT ![plan.resp[c]] = s]
        /\ UNCHANGED <<ipc, part1, part2, broken, damaged, ikeys, rkeys, verdict>>
    BY <1>1 DEF ResponderCall
  <1>3. rpc'[c] = to /\ rpc' \in [Conns -> Steps] /\ \A d \in Conns \ {c} : rpc'[d] = rpc[d]
    BY <1>1, <1>2 DEF TInv
  <1> QED
    BY <1>1, <1>2, <1>3 DEF Written

\* What the next call seals.
NewlySealed(c) ==
  CASE rpc[c] = "static" -> {RStatic(c)} [] rpc[c] = "cert" -> {RCert(c)} [] OTHER -> {}

\* The HandshakeState and the buffer after a call.
LEMMA CallState ==
  ASSUME TInv, NEW c \in Conns, StateAt(c), BufferAt(c), ControlAt(c), Call(c), plan' = plan
  PROVE  /\ (StateAt(c) /\ BufferAt(c))'
         /\ IsState(Theirs(c)')
         /\ Theirs(c)'.cert = Theirs(c).cert /\ Theirs(c)'.serverStatic = Theirs(c).serverStatic
         /\ sealed' = sealed \cup NewlySealed(c)
         /\ DOMAIN out' = Conns /\ \A d \in Conns : DOMAIN out'[d] = {"static", "cert"}
         /\ \A d \in Conns \ {c} : out'[d] = out[d]
  <1> DEFINE x == Theirs(c).cert
             y == Theirs(c).serverStatic
             T(h, k, n) == Mk(h, k, k, n, x, y)
             Rest == /\ sealed' = sealed \cup NewlySealed(c)
                     /\ DOMAIN out' = Conns /\ \A d \in Conns : DOMAIN out'[d] = {"static", "cert"}
                     /\ \A d \in Conns \ {c} : out'[d] = out[d]
             Kept == IsState(Theirs(c)') /\ Theirs(c)'.cert = x /\ Theirs(c)'.serverStatic = y
  <1>1. part1' = part1 /\ rkeys' = rkeys
    BY CallFrame
  <1>2. /\ RK0' = RK0 /\ RK1(c)' = RK1(c) /\ RK2(c)' = RK2(c)
        /\ RHe(c)' = RHe(c) /\ RHp(c)' = RHp(c) /\ RH1(c)' = RH1(c) /\ RH2(c)' = RH2(c) /\ RH3(c)' = RH3(c)
        /\ RStatic(c)' = RStatic(c) /\ RCert(c)' = RCert(c)
    BY <1>1, SameMessage
  <1>3. rpc[c] \notin Before => part1[c] # None
    BY DEF ControlAt
  <1>4. RK0 \in Seq(Secrets) /\ (part1[c] # None => RK1(c) \in Seq(Secrets) /\ RK2(c) \in Seq(Secrets))
    BY ResponderKeys, EmptySeq DEF RK0
  <1>5. Ecdh(Ephemeral("responder", c), part1[c], FALSE) = RX1(c)
        /\ Ecdh(Static(plan.server[c]), part1[c], FALSE) = RX2(c)
    BY DEF Ecdh, RX1, RX2, You
  <1>6. ASSUME NEW from, NEW to, NEW s, ResponderCall(c, from, to, s),
               NEW h, NEW k \in Seq(Secrets), NEW n, s = T(h, k, n)
        PROVE  /\ Theirs(c)' = Mk(h, k, k, n, Theirs(c)'.cert, Theirs(c)'.serverStatic)
               /\ Kept /\ rpc[c] = from /\ rpc'[c] = to
    <2>1. /\ Theirs(c)' = s
          /\ Theirs(c)' = Mk(h, k, k, n, Theirs(c)'.cert, Theirs(c)'.serverStatic)
          /\ s.cert = x /\ s.serverStatic = y /\ rpc[c] = from /\ rpc'[c] = to
      BY <1>6, Called
    <2>2. s.ck = k /\ s.h = h /\ s.k = k /\ s.n = n
      BY <1>6, Fields
    <2> HIDE DEF x, y
    <2>3. IsState(s)
      BY <1>6, <2>1, <2>2 DEF IsState
    <2> QED
      BY <2>1, <2>3
  <1>7. ASSUME UNCHANGED <<out, sealed>>, rpc[c] # "static", rpc[c] # "cert" PROVE Rest
    BY <1>7 DEF TInv, NewlySealed
  <1> HIDE DEF Kept, x, y
  <1>8. ASSUME NEW from, NEW to, NEW s, ResponderCall(c, from, to, s),
               NEW h, NEW k \in Seq(Secrets), NEW n, s = T(h, k, n), UNCHANGED <<out, sealed>>,
               from # "static", from # "cert"
        PROVE  /\ Theirs(c)' = Mk(h, k, k, n, Theirs(c)'.cert, Theirs(c)'.serverStatic)
               /\ Kept /\ Rest /\ rpc[c] = from /\ rpc'[c] = to
    BY <1>6, <1>7, <1>8
  <1>10. CASE ResponderStart(c)
    <2>1. HandshakeInit(Theirs(c)) = T(RK0, RK0, 0)
      BY StartState DEF x, y
    <2>2. /\ Theirs(c)' = Mk(RK0, RK0, RK0, 0, Theirs(c)'.cert, Theirs(c)'.serverStatic)
          /\ Kept /\ Rest /\ rpc'[c] = "read"
      <3> DEFINE s == HandshakeInit(Theirs(c))
      <3>1. ResponderCall(c, "idle", "read", s) /\ UNCHANGED <<out, sealed>>
        BY <1>10 DEF ResponderStart
      <3>2. s = T(RK0, RK0, 0)
        BY <2>1
      <3> HIDE DEF s, T, Rest
      <3> QED
        BY <1>4, <1>8, <2>1, <3>1, <3>2
    <2> QED
      BY <1>2, <2>2 DEF StateAt, BufferAt, Holds, Kept, x, y
  <1>11. CASE ReadEphemeral(c)
    <2>1. MixHash(Theirs(c), part1[c]) = T(RHe(c), RK0, 0)
      BY <1>11, ResponderStates DEF x, y, ReadEphemeral, ResponderCall
    <2>2. /\ Theirs(c)' = Mk(RHe(c), RK0, RK0, 0, Theirs(c)'.cert, Theirs(c)'.serverStatic)
          /\ Kept /\ Rest /\ rpc'[c] = "payload"
      <3> DEFINE s == MixHash(Theirs(c), part1[c])
      <3>1. ResponderCall(c, "read", "payload", s) /\ UNCHANGED <<out, sealed>>
        BY <1>11 DEF ReadEphemeral
      <3>2. s = T(RHe(c), RK0, 0)
        BY <1>5, <2>1 DEF You
      <3> HIDE DEF s, T, Rest
      <3> QED
        BY <1>4, <1>8, <2>1, <3>1, <3>2
    <2> QED
      BY <1>2, <2>2 DEF StateAt, BufferAt, Holds, Kept, x, y
  <1>12. CASE ReadPayload(c)
    <2>1. DecryptAndHash(Theirs(c), Empty) = T(RHp(c), RK0, 0)
      BY <1>12, ResponderStates DEF x, y, ReadPayload, ResponderCall
    <2>2. /\ Theirs(c)' = Mk(RHp(c), RK0, RK0, 0, Theirs(c)'.cert, Theirs(c)'.serverStatic)
          /\ Kept /\ Rest /\ rpc'[c] = "e"
      <3> DEFINE s == DecryptAndHash(Theirs(c), Empty)
      <3>1. ResponderCall(c, "payload", "e", s) /\ UNCHANGED <<out, sealed>>
        BY <1>12 DEF ReadPayload
      <3>2. s = T(RHp(c), RK0, 0)
        BY <2>1
      <3> HIDE DEF s, T, Rest
      <3> QED
        BY <1>4, <1>8, <2>1, <3>1, <3>2
    <2> QED
      BY <1>2, <2>2 DEF StateAt, BufferAt, Holds, Kept, x, y
  <1>13. CASE AddEphemeral(c)
    <2>1. MixHash(Theirs(c), You(c)) = T(RH1(c), RK0, 0)
      BY <1>13, ResponderStates DEF x, y, AddEphemeral, ResponderCall
    <2>2. /\ Theirs(c)' = Mk(RH1(c), RK0, RK0, 0, Theirs(c)'.cert, Theirs(c)'.serverStatic)
          /\ Kept /\ Rest /\ rpc'[c] = "ee"
      <3> DEFINE s == MixHash(Theirs(c), Ephemeral("responder", c))
      <3>1. ResponderCall(c, "e", "ee", s) /\ UNCHANGED <<out, sealed>>
        BY <1>13 DEF AddEphemeral
      <3>2. s = T(RH1(c), RK0, 0)
        BY <1>5, <2>1 DEF You
      <3> HIDE DEF s, T, Rest
      <3> QED
        BY <1>4, <1>8, <2>1, <3>1, <3>2
    <2> QED
      BY <1>2, <2>2 DEF StateAt, BufferAt, Holds, Kept, x, y
  <1>14. CASE MixEphemeral(c)
    <2>1. rpc[c] = "ee"
      BY <1>14 DEF MixEphemeral, ResponderCall
    <2>2. MixKey(Theirs(c), RX1(c)) = T(RH1(c), RK1(c), 0) /\ RK1(c) \in Seq(Secrets)
      BY <1>3, <1>4, <2>1, ResponderStates DEF x, y, Before
    <2>3. /\ Theirs(c)' = Mk(RH1(c), RK1(c), RK1(c), 0, Theirs(c)'.cert, Theirs(c)'.serverStatic)
          /\ Kept /\ Rest /\ rpc'[c] = "static"
      <3> DEFINE s == MixKey(Theirs(c), Ecdh(Ephemeral("responder", c), part1[c], FALSE))
      <3>1. ResponderCall(c, "ee", "static", s) /\ UNCHANGED <<out, sealed>>
        BY <1>14 DEF MixEphemeral
      <3>2. s = T(RH1(c), RK1(c), 0)
        BY <1>5, <2>2 DEF You
      <3> HIDE DEF s, T, Rest
      <3> QED
        BY <1>4, <1>8, <2>2, <3>1, <3>2
    <2> QED
      BY <1>2, <2>3 DEF StateAt, BufferAt, Holds, Kept, x, y
  <1>15. CASE MixStatic(c)
    <2>1. rpc[c] = "es"
      BY <1>15 DEF MixStatic, ResponderCall
    <2>2. MixKey(Theirs(c), RX2(c)) = T(RH2(c), RK2(c), 0) /\ RK2(c) \in Seq(Secrets)
      BY <1>3, <1>4, <2>1, ResponderStates DEF x, y, Before
    <2>3. /\ Theirs(c)' = Mk(RH2(c), RK2(c), RK2(c), 0, Theirs(c)'.cert, Theirs(c)'.serverStatic)
          /\ Kept /\ Rest /\ rpc'[c] = "cert" /\ out' = out
      <3> DEFINE s == MixKey(Theirs(c), Ecdh(Static(plan.server[c]), part1[c], FALSE))
      <3>1. ResponderCall(c, "es", "cert", s) /\ UNCHANGED <<out, sealed>>
        BY <1>15 DEF MixStatic
      <3>2. s = T(RH2(c), RK2(c), 0)
        BY <1>5, <2>2 DEF You
      <3> HIDE DEF s, T, Rest
      <3> QED
        BY <1>4, <1>8, <2>2, <3>1, <3>2
    <2> QED
      BY <1>2, <2>1, <2>3 DEF StateAt, BufferAt, Holds, Kept, x, y
  <1>16. CASE AddStatic(c)
    <2> DEFINE st == Static(plan.server[c])
    <2>1. rpc[c] = "static" /\ part1[c] # None
      BY <1>3, <1>16 DEF AddStatic, ResponderCall, Before
    <2>2. /\ EncryptAndHash(Theirs(c), st) = T(RH2(c), RK1(c), 1) /\ RK1(c) \in Seq(Secrets)
          /\ Theirs(c).k # <<>> /\ Ciphertext(Theirs(c), st) = RStatic(c)
      BY <1>4, <2>1, ResponderStates DEF x, y
    <2>3. Encrypted(Theirs(c), st) = RStatic(c)
      BY <2>2 DEF Encrypted
    <2>4. /\ Theirs(c)' = Mk(RH2(c), RK1(c), RK1(c), 1, Theirs(c)'.cert, Theirs(c)'.serverStatic)
          /\ Kept /\ rpc'[c] = "es"
      BY <1>6, <1>16, <2>2 DEF AddStatic
    <2>5. sealed' = sealed \cup {RStatic(c)} /\ out' = [out EXCEPT ![c].static = RStatic(c)]
      BY <1>16, <2>2, <2>3 DEF AddStatic, Seals
    <2>6. Rest /\ out'[c].static = RStatic(c)
      BY <2>1, <2>5 DEF TInv, NewlySealed
    <2> QED
      BY <1>2, <2>1, <2>4, <2>6 DEF StateAt, BufferAt, Holds, Kept, x, y
  <1>17. CASE AddCert(c)
    <2> DEFINE ce == Certs[plan.server[c]]
    <2>1. rpc[c] = "cert" /\ part1[c] # None
      BY <1>3, <1>17 DEF AddCert, ResponderCall, Before
    <2>2. /\ EncryptAndHash(Theirs(c), ce) = T(RH3(c), RK2(c), 1) /\ RK2(c) \in Seq(Secrets)
          /\ Theirs(c).k # <<>> /\ Ciphertext(Theirs(c), ce) = RCert(c)
      BY <1>4, <2>1, ResponderStates DEF x, y
    <2>3. Encrypted(Theirs(c), ce) = RCert(c)
      BY <2>2 DEF Encrypted
    <2>4. /\ Theirs(c)' = Mk(RH3(c), RK2(c), RK2(c), 1, Theirs(c)'.cert, Theirs(c)'.serverStatic)
          /\ Kept /\ rpc'[c] = "write"
      BY <1>6, <1>17, <2>2 DEF AddCert
    <2>5. sealed' = sealed \cup {RCert(c)} /\ out' = [out EXCEPT ![c].cert = RCert(c)]
      BY <1>17, <2>2, <2>3 DEF AddCert, Seals
    <2>6. Rest /\ out'[c].cert = RCert(c) /\ out'[c].static = out[c].static
      BY <2>1, <2>5 DEF TInv, NewlySealed
    <2> QED
      BY <1>2, <2>1, <2>4, <2>6 DEF StateAt, BufferAt, Holds, Kept, x, y
  <1> QED
    BY <1>10, <1>11, <1>12, <1>13, <1>14, <1>15, <1>16, <1>17 DEF Call
-----------------------------------------------------------------------------
(* Steps of one connection *)

\* A step of c leaves the rest of the connections alone.
LEMMA OtherConns ==
  ASSUME TInv, NEW c \in Conns, Step(c), NEW d \in Conns, d # c
  PROVE  /\ ipc'[d] = ipc[d] /\ rpc'[d] = rpc[d] /\ part1'[d] = part1[d] /\ part2'[d] = part2[d]
         /\ ikeys'[d] = ikeys[d] /\ rkeys'[d] = rkeys[d] /\ verdict'[d] = verdict[d]
         /\ out'[d] = out[d]
         /\ (d \in damaged' <=> d \in damaged) /\ plan' = plan
  <1> USE DEF TInv
  <1>1. CASE Initiator(c)
    BY <1>1 DEF Initiator, InitiatorStart, InitiatorFinish, InitiatorReadFails, InitiatorStaticFails,
                InitiatorCertFails, InitiatorError, Verify
  <1>2. CASE Responder(c)
    <2>1. plan' = plan
      BY <1>2 DEF Responder
    <2>2. CASE Call(c)
      <3>1. /\ UNCHANGED <<ipc, part1, part2, damaged, ikeys, rkeys, verdict>>
            /\ \A e \in Conns \ {c} : rpc'[e] = rpc[e]
        BY <2>2, CallFrame
      <3>2. out'[d] = out[d]
        BY <2>2 DEF Call, ResponderStart, ReadEphemeral, ReadPayload, AddEphemeral, MixEphemeral,
                    AddStatic, MixStatic, AddCert
      <3> QED
        BY <2>1, <3>1, <3>2
    <2>3. CASE Write(c)
      BY <2>1, <2>3 DEF Write
    <2>4. CASE ReturnKeys(c) \/ RespondFails(c)
      BY <2>1, <2>4 DEF ReturnKeys, RespondFails
    <2> QED
      BY <1>2, <2>2, <2>3, <2>4 DEF Responder, Call
  <1>3. CASE Network(c)
    <2>1. plan' = plan /\ UNCHANGED <<ipc, rpc, out, ikeys, rkeys, verdict>>
      BY <1>3 DEF Network, Break, Damage
    <2>2. CASE Break(c)
      BY <2>1, <2>2 DEF Break
    <2>3. CASE Damage(c)
      BY <2>1, <2>3 DEF Damage
    <2> QED
      BY <1>3, <2>1, <2>2, <2>3 DEF Network
  <1> QED
    BY <1>1, <1>2, <1>3 DEF Step

\* What every step keeps of a connection that is not concerned.
LEMMA ConnKept ==
  ASSUME NEW d \in Conns, Part2At(d) /\ ControlAt(d) /\ DamageAt(d) /\ KeysAt(d),
         ipc'[d] = ipc[d], rpc'[d] = rpc[d], part1'[d] = part1[d], part2'[d] = part2[d],
         ikeys'[d] = ikeys[d], d \in damaged' <=> d \in damaged, plan' = plan
  PROVE  (Part2At(d) /\ ControlAt(d) /\ DamageAt(d) /\ KeysAt(d))'
  <1>1. RK1(d)' = RK1(d) /\ RK2(d)' = RK2(d)
    BY SameMessage
  <1>2. Part2At(d)' /\ KeysAt(d)'
    BY <1>1 DEF Part2At, IsPart2, KeysAt
  <1>3. ControlAt(d)' /\ DamageAt(d)'
    BY DEF ControlAt, DamageAt, Spoiled
  <1> QED
    BY <1>2, <1>3

\* The initiator's call has not returned, and does not now.
LEMMA InitiatorMoves ==
  ASSUME TInv, NEW c \in Conns, Part2At(c) /\ ControlAt(c) /\ DamageAt(c) /\ KeysAt(c),
         InitiatorStart(c) \/ InitiatorReadFails(c) \/ InitiatorStaticFails(c) \/ InitiatorCertFails(c),
         plan' = plan
  PROVE  (Part2At(c) /\ ControlAt(c) /\ DamageAt(c) /\ KeysAt(c))'
  <1>1. CASE InitiatorStart(c)
    <2>1. /\ ipc[c] = "idle" /\ ipc'[c] = "read"
          /\ UNCHANGED <<rpc, part2, damaged, ikeys, rkeys>>
      BY <1>1 DEF InitiatorStart, TInv
    <2>2. rpc[c] \in Before /\ ikeys[c] = None /\ c \notin damaged /\ part2[c] = None
      BY <2>1 DEF ControlAt, Before, Written
    <2> QED
      BY <2>1, <2>2 DEF Part2At, ControlAt, DamageAt, KeysAt, Before, Written
  <1>2. CASE InitiatorReadFails(c) \/ InitiatorStaticFails(c) \/ InitiatorCertFails(c)
    <2>1. /\ ipc[c] = "read" /\ ipc'[c] = "failed"
          /\ UNCHANGED <<rpc, part1, part2, damaged, ikeys, rkeys>>
      BY <1>2 DEF InitiatorReadFails, InitiatorStaticFails, InitiatorCertFails, InitiatorError, TInv
    <2>2. ikeys[c] = None
      BY <2>1 DEF ControlAt
    <2>3. RK1(c)' = RK1(c) /\ RK2(c)' = RK2(c)
      BY <2>1, SameMessage
    <2> QED
      BY <2>1, <2>2, <2>3 DEF Part2At, IsPart2, ControlAt, DamageAt, Spoiled, KeysAt
  <1> QED
    BY <1>1, <1>2

\* Both ciphertexts open: the keys are the responder's and nothing was damaged.
LEMMA Accepted ==
  ASSUME TInv, NEW c \in Conns, Part2At(c), ControlAt(c), DamageAt(c), InitiatorFinish(c)
  PROVE  IK2(c) = RK2(c) /\ c \notin damaged /\ rpc[c] \in Written
  <1>1. /\ ipc[c] = "read" /\ part2[c] # None
        /\ Opens(WithEphemeral(c), part2[c].static) /\ Opens(WithStatic(c), part2[c].cert)
    BY DEF InitiatorFinish
  <1>2. IK1(c) # <<>> /\ IK2(c) # <<>> /\ IK1(c)[Len(IK1(c))] = IX1(c)
    BY <1>1, InitiatorKeys
  <1>3. part2[c].static.intact /\ part2[c].static.key = IK1(c)
    BY <1>1, <1>2, InitiatorStates, OpensFields
  <1>4. part2[c].cert.intact /\ part2[c].cert.key = IK2(c)
    BY <1>1, <1>2, InitiatorStates, OpensFields
  <1>5. <<part1[c], You(c)>> = <<Me(c), part2[c].e>>
    <2>1. part1[c] # None
      BY <1>1 DEF ControlAt, Written, Before
    <2>2. RK1(c)[Len(RK1(c))] = RX1(c)
      BY <2>1, ResponderKeys
    <2>3. IK1(c) = RK1(c)
      BY <1>1, <1>3 DEF Part2At, IsPart2
    <2> QED
      BY <1>2, <2>2, <2>3 DEF IX1, RX1
  <1>6. part1[c] = Me(c) /\ part2[c].e = You(c)
    BY <1>5
  <1>7. part1[c].owner = "initiator" /\ part2[c].e.owner = "responder"
    BY <1>6 DEF Me, You, Ephemeral
  <1>8. rpc[c] \in Written /\ part1[c] # None
    BY <1>1 DEF ControlAt, Written, Before
  <1>9. ~ Spoiled(c)
    BY <1>1, <1>3, <1>4, <1>7, <1>8 DEF Spoiled
  <1> QED
    BY <1>1, <1>4, <1>8, <1>9 DEF DamageAt, Part2At, IsPart2

LEMMA InitiatorFinishes ==
  ASSUME TInv, NEW c \in Conns, Part2At(c) /\ ControlAt(c) /\ DamageAt(c) /\ KeysAt(c),
         InitiatorFinish(c), plan' = plan
  PROVE  (Part2At(c) /\ ControlAt(c) /\ DamageAt(c) /\ KeysAt(c))'
  <1> DEFINE k == IK2(c)
  <1>1. k = RK2(c) /\ c \notin damaged /\ rpc[c] \in Written
    BY Accepted
  <1>2. part2[c] # None /\ ipc[c] = "read" /\ ipc'[c] = "done" /\ UNCHANGED <<rpc, part1, part2, damaged, rkeys>>
    BY DEF InitiatorFinish, TInv
  <1>3. k \in Seq(Secrets)
    BY <1>2, InitiatorKeys
  <1>4. ikeys'[c] = [send |-> <<k, 1>>, recv |-> <<k, 2>>]
    <2> DEFINE s == DecryptAndHash(WithStatic(c), part2[c].cert)
    <2>1. s.ck = k
      BY <1>2, InitiatorStates, Fields
    <2>2. ikeys'[c] = [send |-> <<s.ck, 1>>, recv |-> <<s.ck, 2>>]
      BY DEF InitiatorFinish, Split, TInv
    <2> HIDE DEF s, k
    <2> QED
      BY <2>1, <2>2
  <1> HIDE DEF k
  <1>5. RK1(c)' = RK1(c) /\ RK2(c)' = RK2(c)
    BY <1>2, SameMessage
  <1>6. KeysAt(c)'
    BY <1>1, <1>4, <1>5 DEF KeysAt
  <1>7. Part2At(c)'
    BY <1>2, <1>5 DEF Part2At
  <1> QED
    BY <1>1, <1>2, <1>6, <1>7 DEF ControlAt, DamageAt

LEMMA InitiatorVerifies ==
  ASSUME TInv, NEW c \in Conns, Part2At(c) /\ ControlAt(c) /\ DamageAt(c) /\ KeysAt(c),
         NEW now \in Times, Verify(c, now), plan' = plan
  PROVE  (Part2At(c) /\ ControlAt(c) /\ DamageAt(c) /\ KeysAt(c))'
  <1>1. ipc[c] = "done" /\ ipc'[c] = "checked" /\ UNCHANGED <<rpc, part1, part2, damaged, ikeys, rkeys>>
    BY DEF Verify, TInv
  <1>2. RK1(c)' = RK1(c) /\ RK2(c)' = RK2(c)
    BY <1>1, SameMessage
  <1> QED
    BY <1>1, <1>2 DEF Part2At, IsPart2, ControlAt, DamageAt, Spoiled, KeysAt

LEMMA ResponderMoves ==
  ASSUME TInv, NEW c \in Conns, Part2At(c) /\ ControlAt(c) /\ DamageAt(c) /\ KeysAt(c),
         Call(c) \/ RespondFails(c), plan' = plan
  PROVE  (Part2At(c) /\ ControlAt(c) /\ DamageAt(c) /\ KeysAt(c))'
  <1>1. /\ rpc[c] \notin Written /\ rpc'[c] \notin Written
        /\ rpc'[c] \notin Before => part1[c] # None
        /\ UNCHANGED <<ipc, part1, part2, damaged, ikeys>>
    <2>1. CASE Call(c)
      BY <2>1, CallFrame DEF Before, ControlAt
    <2>2. CASE RespondFails(c)
      BY <2>2 DEF RespondFails, TInv, Before, Written
    <2> QED
      BY <2>1, <2>2
  <1>2. part2[c] = None /\ ikeys[c] = None
    BY <1>1 DEF ControlAt
  <1> QED
    BY <1>1, <1>2 DEF Part2At, ControlAt, DamageAt, Spoiled, KeysAt

\* What Write puts on the connection when it still stands.
LEMMA Writes ==
  ASSUME TInv, NEW c \in Conns, BufferAt(c), Write(c)
  PROVE  part2'[c] = IF c \in broken THEN part2[c]
                     ELSE [e |-> You(c), static |-> RStatic(c), cert |-> RCert(c)]
  <1>1. out[c].static = RStatic(c) /\ out[c].cert = RCert(c)
    BY DEF BufferAt, Write
  <1>2. RStatic(c).t = "ct" /\ RCert(c).t = "ct"
    BY DEF RStatic, RCert, Intact
  <1>3. part2' = IF c \in broken THEN part2
                 ELSE [part2 EXCEPT ![c] = [e |-> You(c), static |-> RStatic(c), cert |-> RCert(c)]]
    BY <1>1, <1>2 DEF Write, You
  <1> QED
    BY <1>3 DEF TInv

LEMMA ResponderWrites ==
  ASSUME TInv, NEW c \in Conns, Part2At(c) /\ ControlAt(c) /\ DamageAt(c) /\ KeysAt(c), BufferAt(c),
         Write(c), plan' = plan
  PROVE  (Part2At(c) /\ ControlAt(c) /\ DamageAt(c) /\ KeysAt(c))'
  <1> DEFINE m == [e |-> You(c), static |-> RStatic(c), cert |-> RCert(c)]
  <1>1. rpc[c] = "write" /\ rpc'[c] = "keys" /\ UNCHANGED <<ipc, part1, damaged, ikeys>>
    BY DEF Write, TInv
  <1>2. part2'[c] = IF c \in broken THEN part2[c] ELSE m
    BY Writes
  <1>3. part2[c] = None /\ ikeys[c] = None /\ part1[c] # None /\ ipc[c] # "idle"
    BY <1>1 DEF ControlAt, Written, Before
  <1>4. IsPart2(m, plan.server[c], RK1(c), RK2(c))
    <2>1. /\ m.e = You(c) /\ m.static = RStatic(c) /\ m.cert = RCert(c)
          /\ m.static.key = RK1(c) /\ m.cert.key = RK2(c)
          /\ m.static.plain = Static(plan.server[c]) /\ m.cert.plain = Certs[plan.server[c]]
      BY DEF RStatic, RCert, Intact
    <2>2. You(c) \in PublicKeys
      BY DEF You, Ephemeral, PublicKeys
    <2>3. DOMAIN m = {"e", "static", "cert"} /\ DOMAIN m.static = CtNames /\ DOMAIN m.cert = CtNames
      BY DEF RStatic, RCert, Intact, CtNames
    <2> HIDE DEF m
    <2> QED
      BY <2>1, <2>2, <2>3 DEF IsPart2
  <1> HIDE DEF m
  <1>5. RK1(c)' = RK1(c) /\ RK2(c)' = RK2(c)
    BY <1>1, SameMessage
  <1>6. Part2At(c)'
    BY <1>1, <1>2, <1>3, <1>4, <1>5 DEF Part2At
  <1>7. DamageAt(c)'
    BY <1>1, <1>2, <1>3 DEF DamageAt, Spoiled, Written
  <1> QED
    BY <1>1, <1>3, <1>6, <1>7 DEF ControlAt, KeysAt, Written, Before

LEMMA ResponderReturns ==
  ASSUME TInv, NEW c \in Conns, Part2At(c) /\ ControlAt(c) /\ DamageAt(c) /\ KeysAt(c),
         ReturnKeys(c), plan' = plan
  PROVE  (Part2At(c) /\ ControlAt(c) /\ DamageAt(c) /\ KeysAt(c))'
  <1>1. rpc[c] = "keys" /\ rpc'[c] = "done" /\ UNCHANGED <<ipc, part1, part2, damaged, ikeys>>
    BY DEF ReturnKeys, TInv
  <1>2. RK1(c)' = RK1(c) /\ RK2(c)' = RK2(c)
    BY <1>1, SameMessage
  <1>3. part1[c] # None
    BY <1>1 DEF ControlAt, Before
  <1> QED
    BY <1>1, <1>2, <1>3 DEF Part2At, ControlAt, DamageAt, Spoiled, KeysAt, Written, Before

LEMMA ConnectionBreaks ==
  ASSUME TInv, NEW c \in Conns, Part2At(c) /\ ControlAt(c) /\ DamageAt(c) /\ KeysAt(c),
         Break(c), plan' = plan
  PROVE  (Part2At(c) /\ ControlAt(c) /\ DamageAt(c) /\ KeysAt(c))'
  <1>1. /\ UNCHANGED <<ipc, rpc, damaged, ikeys>>
        /\ part1'[c] = IF rpc[c] \in {"idle", "read"} THEN None ELSE part1[c]
        /\ part2'[c] = IF ipc[c] = "read" THEN None ELSE part2[c]
    BY DEF Break, TInv
  <1>2. part2[c] # None \/ ikeys[c] # None => RK1(c)' = RK1(c) /\ RK2(c)' = RK2(c)
    <2>1. part2[c] # None \/ ikeys[c] # None => part1'[c] = part1[c]
      BY <1>1 DEF ControlAt, Written
    <2> QED
      BY <2>1, SameMessage
  <1>3. Part2At(c)' /\ KeysAt(c)'
    BY <1>1, <1>2 DEF Part2At, KeysAt
  <1>4. ControlAt(c)'
    BY <1>1 DEF ControlAt, Before
  <1>5. DamageAt(c)'
    BY <1>1 DEF DamageAt, Spoiled, ControlAt
  <1> QED
    BY <1>3, <1>4, <1>5

LEMMA NoisyKey ==
  ASSUME NEW p \in PublicKeys
  PROVE  [p EXCEPT !.owner = "noise"] \in PublicKeys /\ [p EXCEPT !.owner = "noise"].owner = "noise"
  BY DEF PublicKeys

LEMMA CtFields ==
  ASSUME NEW ct, DOMAIN ct = CtNames, NEW v
  PROVE  LET r == [ct EXCEPT !.intact = v]
         IN  DOMAIN r = CtNames /\ r.intact = v /\ r.key = ct.key /\ r.plain = ct.plain
  BY DEF CtNames

LEMMA Part2Fields ==
  ASSUME NEW m, DOMAIN m = {"e", "static", "cert"}, NEW v
  PROVE  /\ LET r == [m EXCEPT !.e.owner = v]
             IN  DOMAIN r = DOMAIN m /\ r.e = [m.e EXCEPT !.owner = v]
                 /\ r.static = m.static /\ r.cert = m.cert
         /\ LET r == [m EXCEPT !.static.intact = v]
             IN  DOMAIN r = DOMAIN m /\ r.static = [m.static EXCEPT !.intact = v]
                 /\ r.e = m.e /\ r.cert = m.cert
         /\ LET r == [m EXCEPT !.cert.intact = v]
             IN  DOMAIN r = DOMAIN m /\ r.cert = [m.cert EXCEPT !.intact = v]
                 /\ r.e = m.e /\ r.static = m.static
  OBVIOUS

\* A damaged second message is still one.
LEMMA NoisyEphemeral ==
  ASSUME NEW m, NEW server, NEW k1, NEW k2, IsPart2(m, server, k1, k2)
  PROVE  /\ IsPart2([m EXCEPT !.e.owner = "noise"], server, k1, k2)
         /\ [m EXCEPT !.e.owner = "noise"].e.owner = "noise"
  <1> DEFINE r == [m EXCEPT !.e.owner = "noise"]
  <1>1. DOMAIN r = DOMAIN m /\ r.e = [m.e EXCEPT !.owner = "noise"] /\ r.static = m.static /\ r.cert = m.cert
    BY Part2Fields DEF IsPart2
  <1>2. r.e \in PublicKeys /\ r.e.owner = "noise"
    BY <1>1, NoisyKey DEF IsPart2
  <1> HIDE DEF r
  <1>3. IsPart2(r, server, k1, k2)
    BY <1>1, <1>2 DEF IsPart2
  <1> QED
    BY <1>2, <1>3 DEF r

StaticNoise(m, v) == [m EXCEPT !.static.intact = v]

LEMMA NoisyStatic ==
  ASSUME NEW m, NEW server, NEW k1, NEW k2, IsPart2(m, server, k1, k2), NEW v
  PROVE  /\ IsPart2(StaticNoise(m, v), server, k1, k2)
         /\ StaticNoise(m, v).static.intact = v
  <1> DEFINE r == StaticNoise(m, v)
  <1>1. DOMAIN r = DOMAIN m /\ r.static = [m.static EXCEPT !.intact = v] /\ r.e = m.e /\ r.cert = m.cert
    BY Part2Fields DEF IsPart2, StaticNoise
  <1>2. /\ DOMAIN r.static = CtNames /\ r.static.intact = v
        /\ r.static.key = m.static.key /\ r.static.plain = m.static.plain
    <2> DEFINE ct == m.static
               rt == r.static
    <2>1. DOMAIN ct = CtNames /\ rt = [ct EXCEPT !.intact = v]
      BY <1>1 DEF IsPart2
    <2> HIDE DEF ct, rt
    <2>2. DOMAIN rt = CtNames /\ rt.intact = v /\ rt.key = ct.key /\ rt.plain = ct.plain
      BY <2>1, CtFields
    <2> QED
      BY <2>2 DEF ct, rt
  <1> HIDE DEF r
  <1>3. IsPart2(r, server, k1, k2)
    BY <1>1, <1>2 DEF IsPart2
  <1> QED
    BY <1>2, <1>3 DEF r

CertNoise(m, v) == [m EXCEPT !.cert.intact = v]

LEMMA NoisyCert ==
  ASSUME NEW m, NEW server, NEW k1, NEW k2, IsPart2(m, server, k1, k2), NEW v
  PROVE  /\ IsPart2(CertNoise(m, v), server, k1, k2)
         /\ CertNoise(m, v).cert.intact = v
  <1> DEFINE r == CertNoise(m, v)
  <1>1. DOMAIN r = DOMAIN m /\ r.cert = [m.cert EXCEPT !.intact = v] /\ r.e = m.e /\ r.static = m.static
    BY Part2Fields DEF IsPart2, CertNoise
  <1>2. /\ DOMAIN r.cert = CtNames /\ r.cert.intact = v
        /\ r.cert.key = m.cert.key /\ r.cert.plain = m.cert.plain
    <2> DEFINE ct == m.cert
               rt == r.cert
    <2>1. DOMAIN ct = CtNames /\ rt = [ct EXCEPT !.intact = v]
      BY <1>1 DEF IsPart2
    <2> HIDE DEF ct, rt
    <2>2. DOMAIN rt = CtNames /\ rt.intact = v /\ rt.key = ct.key /\ rt.plain = ct.plain
      BY <2>1, CtFields
    <2> QED
      BY <2>2 DEF ct, rt
  <1> HIDE DEF r
  <1>3. IsPart2(r, server, k1, k2)
    BY <1>1, <1>2 DEF IsPart2
  <1> QED
    BY <1>2, <1>3 DEF r

LEMMA MessageDamaged ==
  ASSUME TInv, NEW c \in Conns, Part2At(c) /\ ControlAt(c) /\ DamageAt(c) /\ KeysAt(c),
         Damage(c), plan' = plan
  PROVE  /\ (Part2At(c) /\ ControlAt(c) /\ DamageAt(c) /\ KeysAt(c))'
         /\ part1' \in [Conns -> PublicKeys \cup {None}] /\ DOMAIN part2' = Conns
  <1>1. UNCHANGED <<ipc, rpc, ikeys>>
    BY DEF Damage
  <1>2. CASE /\ part1[c] # None /\ rpc[c] \in {"idle", "read"}
             /\ part1' = [part1 EXCEPT ![c].owner = "noise"]
             /\ UNCHANGED part2
    <2>1. part1[c] \in PublicKeys /\ part1'[c] = [part1[c] EXCEPT !.owner = "noise"]
      BY <1>2 DEF TInv
    <2>2. part1'[c] \in PublicKeys /\ part1'[c].owner = "noise"
      BY <2>1, NoisyKey
    <2>3. part1' \in [Conns -> PublicKeys \cup {None}] /\ DOMAIN part2' = Conns
      BY <1>2, <2>1, <2>2 DEF TInv
    <2>4. ipc[c] # "idle" /\ part2[c] = None /\ ikeys[c] = None
      BY <1>2 DEF ControlAt, Written
    <2>5. DamageAt(c)'
      BY <1>1, <2>2, <2>4 DEF DamageAt, Spoiled
    <2> QED
      BY <1>1, <1>2, <2>2, <2>3, <2>4, <2>5 DEF Part2At, ControlAt, KeysAt, Before
  <1>3. ASSUME part2[c] # None, ipc[c] = "read", UNCHANGED part1, DOMAIN part2' = Conns,
               IsPart2(part2'[c], plan.server[c], RK1(c), RK2(c)),
               part2'[c].e.owner = "noise" \/ ~ part2'[c].static.intact \/ ~ part2'[c].cert.intact
        PROVE  /\ (Part2At(c) /\ ControlAt(c) /\ DamageAt(c) /\ KeysAt(c))'
               /\ part1' \in [Conns -> PublicKeys \cup {None}] /\ DOMAIN part2' = Conns
    <2>1. ikeys[c] = None /\ rpc[c] \in Written /\ RK1(c)' = RK1(c) /\ RK2(c)' = RK2(c)
      BY <1>3, SameMessage DEF ControlAt
    <2>2. DamageAt(c)'
      BY <1>1, <1>3, <2>1 DEF DamageAt, Spoiled
    <2>3. Part2At(c)'
      BY <1>1, <1>3, <2>1 DEF Part2At
    <2>4. part1' \in [Conns -> PublicKeys \cup {None}]
      BY <1>3 DEF TInv
    <2> QED
      BY <1>1, <1>3, <2>1, <2>2, <2>3, <2>4 DEF ControlAt, KeysAt
  <1>4. CASE /\ part2[c] # None /\ ipc[c] = "read" /\ UNCHANGED part1
             /\ part2' = [part2 EXCEPT ![c].e.owner = "noise"]
    <2>1. DOMAIN part2' = Conns /\ part2'[c] = [part2[c] EXCEPT !.e.owner = "noise"]
      BY <1>4 DEF TInv
    <2>2. IsPart2(part2'[c], plan.server[c], RK1(c), RK2(c)) /\ part2'[c].e.owner = "noise"
      BY <1>4, <2>1, NoisyEphemeral DEF Part2At
    <2> QED
      BY <1>3, <1>4, <2>1, <2>2
  <1>5. CASE /\ part2[c] # None /\ ipc[c] = "read" /\ UNCHANGED part1
             /\ part2' = [part2 EXCEPT ![c].static.intact = FALSE]
    <2> DEFINE v == FALSE
               m == part2[c]
               r == part2'[c]
    <2>1. DOMAIN part2' = Conns /\ r = StaticNoise(m, v)
      BY <1>5 DEF TInv, StaticNoise
    <2>2. IsPart2(m, plan.server[c], RK1(c), RK2(c))
      BY <1>5 DEF Part2At
    <2> HIDE DEF v, m, r
    <2>3. IsPart2(r, plan.server[c], RK1(c), RK2(c)) /\ r.static.intact = v
      BY <2>1, <2>2, NoisyStatic
    <2>4. ~ r.static.intact
      BY <2>3 DEF v
    <2> QED
      BY <1>3, <1>5, <2>1, <2>3, <2>4 DEF r
  <1>6. CASE /\ part2[c] # None /\ ipc[c] = "read" /\ UNCHANGED part1
             /\ part2' = [part2 EXCEPT ![c].cert.intact = FALSE]
    <2> DEFINE v == FALSE
               m == part2[c]
               r == part2'[c]
    <2>1. DOMAIN part2' = Conns /\ r = CertNoise(m, v)
      BY <1>6 DEF TInv, CertNoise
    <2>2. IsPart2(m, plan.server[c], RK1(c), RK2(c))
      BY <1>6 DEF Part2At
    <2> HIDE DEF v, m, r
    <2>3. IsPart2(r, plan.server[c], RK1(c), RK2(c)) /\ r.cert.intact = v
      BY <2>1, <2>2, NoisyCert
    <2>4. ~ r.cert.intact
      BY <2>3 DEF v
    <2> QED
      BY <1>3, <1>6, <2>1, <2>3, <2>4 DEF r
  <1> QED
    BY <1>2, <1>4, <1>5, <1>6 DEF Damage

LEMMA StepConnInv ==
  ASSUME TInv, ConnInv, ResponderInv, NEW c \in Conns, Step(c)
  PROVE  ConnInv'
  <1>1. Part2At(c) /\ ControlAt(c) /\ DamageAt(c) /\ KeysAt(c)
    BY DEF ConnInv
  <1>2. plan' = plan
    BY DEF Step, Initiator, Responder, Network
  <1>3. (Part2At(c) /\ ControlAt(c) /\ DamageAt(c) /\ KeysAt(c))'
    <2>1. CASE InitiatorStart(c) \/ InitiatorReadFails(c) \/ InitiatorStaticFails(c) \/ InitiatorCertFails(c)
      BY <1>1, <1>2, <2>1, InitiatorMoves
    <2>2. CASE InitiatorFinish(c)
      BY <1>1, <1>2, <2>2, InitiatorFinishes
    <2>3. ASSUME NEW now \in Times, Verify(c, now)
          PROVE  (Part2At(c) /\ ControlAt(c) /\ DamageAt(c) /\ KeysAt(c))'
      BY <1>1, <1>2, <2>3, InitiatorVerifies
    <2>4. CASE Call(c) \/ RespondFails(c)
      BY <1>1, <1>2, <2>4, ResponderMoves
    <2>5. CASE Write(c)
      BY <1>1, <1>2, <2>5, ResponderWrites DEF ResponderInv
    <2>8. CASE ReturnKeys(c)
      BY <1>1, <1>2, <2>8, ResponderReturns
    <2>6. CASE Break(c)
      BY <1>1, <1>2, <2>6, ConnectionBreaks
    <2>7. CASE Damage(c)
      BY <1>1, <1>2, <2>7, MessageDamaged
    <2> QED
      BY <2>1, <2>2, <2>3, <2>4, <2>5, <2>6, <2>7, <2>8 DEF Step, Initiator, Responder, Network, Call
  <1>4. ASSUME NEW d \in Conns, d # c
        PROVE  (Part2At(d) /\ ControlAt(d) /\ DamageAt(d) /\ KeysAt(d))'
    <2>1. Part2At(d) /\ ControlAt(d) /\ DamageAt(d) /\ KeysAt(d)
      BY DEF ConnInv
    <2> QED
      BY <1>4, <2>1, OtherConns, ConnKept
  <1> QED
    BY <1>3, <1>4 DEF ConnInv

-----------------------------------------------------------------------------
(* The HandshakeStates after a step *)

LEMMA StateOf ==
  ASSUME NEW h, NEW ck \in Seq(Secrets), NEW k, NEW n, NEW cert, NEW static
  PROVE  IsState(Mk(h, ck, k, n, cert, static))
  BY Fields DEF IsState

LEMMA NoSecrets == <<>> \in Seq(Secrets)
  BY EmptySeq

LEMMA FirstState ==
  ASSUME TInv, NEW c \in Conns
  PROVE  EncryptAndHash(MixHash(HandshakeInit(Mine(c)), Me(c)), Empty)
           = Mk(Append(Append(<<>>, Me(c)), Empty), <<>>, <<>>, 0, Mine(c).cert, Mine(c).serverStatic)
  <1> DEFINE s == HandshakeInit(Mine(c))
             e == Me(c)
             x == Mine(c).cert
             y == Mine(c).serverStatic
             z == Empty
             o == <<>>
             r == MixHash(s, e)
             q == Append(o, e)
  <1>1. s = Mk(o, o, o, 0, x, y)
    BY StartState
  <1> HIDE DEF s, e, x, y, o, z
  <1>2. r = Mk(q, o, o, 0, x, y)
    BY <1>1, MixHashFields
  <1>3. r = Mk(q, o, <<>>, 0, x, y)
    BY <1>2 DEF o
  <1> HIDE DEF r, q
  <1>4. EncryptAndHash(r, z) = Mk(Append(q, z), o, <<>>, 0, x, y)
    BY <1>3, NoKeyFields
  <1> QED
    BY <1>4 DEF s, e, x, y, o, z, r, q

\* A step of the initiator changes its own HandshakeState only; a new
\* certificate is that of the server at the other end.
LEMMA InitiatorHs ==
  ASSUME TInv, NEW c \in Conns, Part2At(c), Initiator(c)
  PROVE  \/ hs' = hs /\ ipc'[c] = "checked"
         \/ \E s : /\ IsState(s) /\ hs' = [hs EXCEPT ![plan.init[c]] = s]
                   /\ ipc'[c] = "done" => /\ s.cert = Certs[plan.server[c]]
                                          /\ s.serverStatic = Static(plan.server[c])
                   /\ ipc'[c] # "checked"
                   /\ ipc'[c] = "read" => /\ s.h = Append(Append(<<>>, Me(c)), Empty)
                                          /\ s.ck = <<>> /\ s.k = <<>>
  <1> DEFINE G(s) == /\ IsState(s) /\ hs' = [hs EXCEPT ![plan.init[c]] = s]
                     /\ ipc'[c] = "done" => /\ s.cert = Certs[plan.server[c]]
                                            /\ s.serverStatic = Static(plan.server[c])
                     /\ ipc'[c] # "checked"
                     /\ ipc'[c] = "read" => /\ s.h = Append(Append(<<>>, Me(c)), Empty)
                                            /\ s.ck = <<>> /\ s.k = <<>>
  <1>1. CASE InitiatorStart(c)
    <2> DEFINE s == EncryptAndHash(MixHash(HandshakeInit(Mine(c)), Me(c)), Empty)
    <2>1. hs' = [hs EXCEPT ![plan.init[c]] = s] /\ ipc'[c] = "read"
      BY <1>1 DEF InitiatorStart, SetMine, Me, TInv
    <2>2. s = Mk(Append(Append(<<>>, Me(c)), Empty), <<>>, <<>>, 0, Mine(c).cert, Mine(c).serverStatic)
      BY FirstState
    <2>3. IsState(s) /\ s.h = Append(Append(<<>>, Me(c)), Empty) /\ s.ck = <<>> /\ s.k = <<>>
      <3> DEFINE o == <<>>
                 h == Append(Append(<<>>, Me(c)), Empty)
                 x == Mine(c).cert
                 y == Mine(c).serverStatic
      <3>1. s = Mk(h, o, o, 0, x, y) /\ o \in Seq(Secrets)
        BY <2>2, NoSecrets
      <3> HIDE DEF s, o, h, x, y
      <3>2. IsState(s) /\ s.h = h /\ s.ck = o /\ s.k = o
        BY <3>1, StateOf, Fields
      <3> QED
        BY <3>2 DEF o, h
    <2> HIDE DEF s
    <2>4. G(s)
      BY <2>1, <2>3
    <2> HIDE DEF G
    <2>5. \E t : G(t)
      BY <2>4
    <2> QED
      BY <2>5 DEF G
  <1>2. CASE InitiatorFinish(c)
    <2> DEFINE u == DecryptAndHash(WithStatic(c), part2[c].cert)
               v == part2[c].cert.plain
               s == [u EXCEPT !.cert = v]
               h == Append(IH2(c), part2[c].cert)
               k == IK2(c)
               y == part2[c].static.plain
               x == Mine(c).cert
    <2>1. part2[c] # None /\ hs' = [hs EXCEPT ![plan.init[c]] = s] /\ ipc'[c] = "done"
      BY <1>2 DEF InitiatorFinish, SetMine, TInv
    <2>2. u = Mk(h, k, k, 1, x, y)
      BY <2>1, InitiatorStates
    <2>3. k \in Seq(Secrets)
      BY <2>1, InitiatorKeys
    <2>4. v = Certs[plan.server[c]] /\ y = Static(plan.server[c])
      BY <2>1 DEF Part2At, IsPart2
    <2> HIDE DEF u, v, h, k, y, x
    <2>5. s = Mk(h, k, k, 1, v, y)
      BY <2>2, SetFields
    <2> HIDE DEF s
    <2>6. IsState(s) /\ s.cert = v /\ s.serverStatic = y
      BY <2>3, <2>5, StateOf, Fields
    <2>7. G(s)
      BY <2>1, <2>4, <2>6
    <2> HIDE DEF G
    <2>8. \E t : G(t)
      BY <2>7
    <2> QED
      BY <2>8 DEF G
  <1>3. ASSUME NEW s, InitiatorError(c, s), IsState(s)
        PROVE  \E t : G(t)
    <2>1. hs' = [hs EXCEPT ![plan.init[c]] = s] /\ ipc'[c] = "failed"
      BY <1>3 DEF InitiatorError, SetMine, TInv
    <2>2. G(s)
      BY <1>3, <2>1
    <2> HIDE DEF G
    <2> QED
      BY <2>2
  <1>4. CASE InitiatorReadFails(c)
    <2>1. \E t : G(t)
      <3> HIDE DEF G
      <3> QED
        BY <1>3, <1>4, PartTypes DEF InitiatorReadFails
    <2> QED
      BY <2>1
  <1>5. CASE InitiatorStaticFails(c) \/ InitiatorCertFails(c)
    <2>1. part2[c] # None
      BY <1>5 DEF InitiatorStaticFails, InitiatorCertFails
    <2>2. IsState(WithEphemeral(c))
      BY <2>1, InitiatorStates, InitiatorKeys, StateOf
    <2>3. IsState(WithStatic(c))
      BY <2>1, InitiatorStates, InitiatorKeys, StateOf
    <2>4. \E t : G(t)
      <3> HIDE DEF G
      <3> QED
        BY <1>3, <1>5, <2>2, <2>3 DEF InitiatorStaticFails, InitiatorCertFails
    <2> QED
      BY <2>4
  <1>6. ASSUME NEW now \in Times, Verify(c, now)
        PROVE  hs' = hs /\ ipc'[c] = "checked"
    BY <1>6 DEF Verify, TInv
  <1> QED
    BY <1>1, <1>2, <1>4, <1>5, <1>6 DEF Initiator

\* A step of the responder keeps the certificate and the key of a server.
LEMMA ResponderHs ==
  ASSUME TInv, NEW c \in Conns, StateAt(c), BufferAt(c), ControlAt(c), Responder(c)
  PROVE  \/ hs' = hs
         \/ \E s : /\ IsState(s) /\ hs' = [hs EXCEPT ![plan.resp[c]] = s]
                   /\ s.cert = Theirs(c).cert /\ s.serverStatic = Theirs(c).serverStatic
  <1>1. plan' = plan
    BY DEF Responder
  <1>2. CASE Call(c)
    <2>1. PICK s : hs' = [hs EXCEPT ![plan.resp[c]] = s]
      BY <1>2, CallFrame
    <2>2. Theirs(c)' = s
      BY <1>1, <2>1, PartTypes DEF Theirs, TInv
    <2>3. IsState(s) /\ s.cert = Theirs(c).cert /\ s.serverStatic = Theirs(c).serverStatic
      BY <1>1, <1>2, <2>2, CallState
    <2> QED
      BY <2>1, <2>3
  <1>3. CASE Write(c) \/ ReturnKeys(c) \/ RespondFails(c)
    BY <1>3 DEF Write, ReturnKeys, RespondFails
  <1> QED
    BY <1>2, <1>3 DEF Responder, Call

-----------------------------------------------------------------------------
(* The inductive invariant *)

LEMMA StepTInv ==
  ASSUME TInv, ConnInv, ResponderInv, NEW c \in Conns, Step(c)
  PROVE  TInv'
  <1>1. plan' = plan /\ Part2At(c) /\ ControlAt(c) /\ StateAt(c) /\ BufferAt(c)
    BY DEF Step, Initiator, Responder, Network, ConnInv, ResponderInv
  <1>2. plan.init[c] \in States /\ plan.resp[c] \in States
    BY PartTypes
  <1>3. DOMAIN hs' = States /\ \A x \in States : IsState(hs'[x])
    <2>1. ASSUME NEW x \in States, NEW s, IsState(s), hs' = [hs EXCEPT ![x] = s]
          PROVE  DOMAIN hs' = States /\ \A y \in States : IsState(hs'[y])
      BY <2>1 DEF TInv
    <2>2. CASE hs' = hs
      BY <2>2 DEF TInv
    <2>3. CASE Initiator(c)
      BY <1>1, <1>2, <2>1, <2>2, <2>3, InitiatorHs
    <2>4. CASE Responder(c)
      BY <1>1, <1>2, <2>1, <2>2, <2>4, ResponderHs
    <2>5. CASE Network(c)
      BY <2>2, <2>5 DEF Network, Break, Damage
    <2> QED
      BY <2>3, <2>4, <2>5 DEF Step
  <1>4. Me(c) \in PublicKeys
    BY DEF Me, Ephemeral, PublicKeys
  <1> DEFINE Rest ==
        /\ ipc \in [Conns -> {"idle", "read", "done", "failed", "checked"}]
        /\ rpc \in [Conns -> Steps]
        /\ part1 \in [Conns -> PublicKeys \cup {None}]
        /\ DOMAIN part2 = Conns /\ DOMAIN ikeys = Conns /\ DOMAIN rkeys = Conns /\ DOMAIN verdict = Conns
        /\ DOMAIN out = Conns /\ \A d \in Conns : DOMAIN out[d] = {"static", "cert"}
        /\ damaged \subseteq Conns
  <1>5. Rest'
    <2>1. CASE InitiatorStart(c)
      BY <1>4, <2>1 DEF InitiatorStart, TInv, Me
    <2>2. CASE InitiatorFinish(c)
      BY <2>2 DEF InitiatorFinish, TInv
    <2>3. CASE InitiatorReadFails(c) \/ InitiatorStaticFails(c) \/ InitiatorCertFails(c)
      BY <2>3 DEF InitiatorReadFails, InitiatorStaticFails, InitiatorCertFails, InitiatorError, TInv
    <2>4. ASSUME NEW now \in Times, Verify(c, now)
          PROVE  /\ ipc' \in [Conns -> {"idle", "read", "done", "failed", "checked"}]
                 /\ DOMAIN verdict' = Conns
                 /\ UNCHANGED <<rpc, out, part1, part2, ikeys, rkeys, damaged>>
      BY <2>4 DEF Verify, TInv
    <2>5. CASE Call(c)
      <3>1. /\ rpc' \in [Conns -> Steps]
            /\ UNCHANGED <<ipc, part1, part2, damaged, ikeys, rkeys, verdict>>
        BY <2>5, CallFrame
      <3>2. DOMAIN out' = Conns /\ \A d \in Conns : DOMAIN out'[d] = {"static", "cert"}
        BY <1>1, <2>5, CallState
      <3> QED
        BY <3>1, <3>2 DEF TInv
    <2>6. CASE Write(c) \/ ReturnKeys(c) \/ RespondFails(c)
      BY <2>6 DEF Write, ReturnKeys, RespondFails, TInv, Steps
    <2>7. CASE Break(c)
      BY <2>7 DEF Break, TInv
    <2>8. CASE Damage(c)
      <3>1. part1' \in [Conns -> PublicKeys \cup {None}] /\ DOMAIN part2' = Conns
        BY <1>1, <2>8, MessageDamaged DEF ConnInv
      <3>2. UNCHANGED <<ipc, rpc, out, ikeys, rkeys, verdict>> /\ damaged' = damaged \cup {c}
        BY <2>8 DEF Damage
      <3> QED
        BY <3>1, <3>2 DEF TInv
    <2>9. CASE Initiator(c)
      <3>1. ASSUME NEW now \in Times, Verify(c, now)
            PROVE  Rest'
        BY <2>4, <3>1 DEF TInv
      <3> QED
        BY <2>1, <2>2, <2>3, <2>9, <3>1 DEF Initiator
    <2> QED
      BY <2>5, <2>6, <2>7, <2>8, <2>9 DEF Step, Responder, Network, Call
  <1> QED
    BY <1>1, <1>3, <1>5 DEF TInv

\* The HandshakeStates that a step of one connection leaves alone.
LEMMA StatesKept ==
  ASSUME TInv, AloneInv, ConnInv, ResponderInv, ExclusiveInv, NEW c \in Conns, Step(c), NEW d \in Conns
  PROVE  /\ d # c \/ ~ Responder(c) => hs'[plan.resp[d]] = hs[plan.resp[d]]
         /\ ~ Initiator(c) => hs'[plan.init[d]] = hs[plan.init[d]]
  <1>1. plan.init[c] # plan.resp[d] /\ plan.init[d] # plan.resp[c] /\ (d # c => plan.resp[d] # plan.resp[c])
    BY DEF AloneInv
  <1>2. plan.init[d] \in States /\ plan.resp[d] \in States /\ plan.init[c] \in States /\ plan.resp[c] \in States
    BY PartTypes
  <1>3. CASE Initiator(c)
    <2>1. hs' = hs \/ \E s : hs' = [hs EXCEPT ![plan.init[c]] = s]
      BY <1>3, InitiatorHs DEF ConnInv
    <2>2. hs'[plan.resp[d]] = hs[plan.resp[d]]
      BY <1>1, <1>2, <2>1 DEF TInv
    <2> QED
      BY <1>3, <2>2
  <1>4. CASE Responder(c)
    <2>1. hs' = hs \/ \E s : hs' = [hs EXCEPT ![plan.resp[c]] = s]
      BY <1>4, ResponderHs DEF ConnInv, ResponderInv
    <2>2. hs'[plan.init[d]] = hs[plan.init[d]] /\ (d # c => hs'[plan.resp[d]] = hs[plan.resp[d]])
      BY <1>1, <1>2, <2>1 DEF TInv
    <2> QED
      BY <1>4, <2>2
  <1>5. CASE Network(c)
    BY <1>5 DEF Network, Break, Damage
  <1> QED
    BY <1>3, <1>4, <1>5 DEF Step

LEMMA StepResponderInv ==
  ASSUME TInv, AloneInv, ConnInv, ResponderInv, ExclusiveInv, NEW c \in Conns, Step(c)
  PROVE  ResponderInv'
  <1> SUFFICES ASSUME NEW d \in Conns PROVE (StateAt(d) /\ BufferAt(d))'
    BY DEF ResponderInv
  <1>1. plan' = plan /\ StateAt(d) /\ BufferAt(d) /\ ControlAt(d)
    BY DEF Step, Initiator, Responder, Network, ConnInv, ResponderInv
  <1>2. ASSUME rpc'[d] = rpc[d], rpc[d] \in {"idle", "read", "failed"} \/ part1'[d] = part1[d],
               hs'[plan.resp[d]] = hs[plan.resp[d]], out'[d] = out[d], rkeys'[d] = rkeys[d]
        PROVE  (StateAt(d) /\ BufferAt(d))'
    <2>1. Theirs(d)' = Theirs(d)
      BY <1>1, <1>2 DEF Theirs
    <2>2. CASE part1'[d] = part1[d]
      <3>1. /\ RK0' = RK0 /\ RK1(d)' = RK1(d) /\ RK2(d)' = RK2(d)
            /\ RHe(d)' = RHe(d) /\ RHp(d)' = RHp(d) /\ RH1(d)' = RH1(d) /\ RH2(d)' = RH2(d) /\ RH3(d)' = RH3(d)
            /\ RStatic(d)' = RStatic(d) /\ RCert(d)' = RCert(d)
        BY <1>1, <2>2, SameMessage
      <3>2. StateAt(d)'
        BY <1>1, <1>2, <2>1, <3>1 DEF StateAt, Holds
      <3> QED
        BY <1>1, <1>2, <3>1, <3>2 DEF BufferAt
    <2>3. CASE rpc[d] \in {"idle", "read", "failed"}
      <3>1. RK0' = RK0
        BY DEF RK0
      <3>2. StateAt(d)'
        BY <1>1, <1>2, <2>1, <2>3, <3>1 DEF StateAt, Holds
      <3> QED
        BY <1>2, <2>3, <3>2 DEF BufferAt
    <2> QED
      BY <1>2, <2>2, <2>3
  <1>3. CASE d # c
    BY <1>2, <1>3, StatesKept, OtherConns
  <1>4. CASE d = c /\ Call(c)
    BY <1>1, <1>4, CallState
  <1>5. CASE d = c /\ Write(c)
    <2>1. rpc[c] = "write" /\ rpc'[c] = "keys" /\ UNCHANGED <<hs, part1>>
      BY <1>5 DEF Write, TInv
    <2>2. Theirs(c)' = Theirs(c) /\ RH3(c)' = RH3(c) /\ RK2(c)' = RK2(c)
      BY <1>1, <2>1, SameMessage DEF Theirs
    <2> QED
      BY <1>1, <1>5, <2>1, <2>2 DEF StateAt, BufferAt, Holds
  <1>6. CASE d = c /\ ReturnKeys(c)
    <2> DEFINE k == RK2(c)
               ck == Theirs(c).ck
    <2>1. /\ rpc[c] = "keys" /\ rpc'[c] = "done" /\ UNCHANGED part1
          /\ rkeys'[c] = [send |-> <<ck, 2>>, recv |-> <<ck, 1>>]
      BY <1>6 DEF ReturnKeys, Split, TInv
    <2>2. ck = k
      BY <1>1, <1>6, <2>1, Fields DEF StateAt, Holds
    <2>3. RK2(c)' = k
      BY <1>1, <2>1, SameMessage
    <2> HIDE DEF k, ck
    <2> QED
      BY <1>6, <2>1, <2>2, <2>3 DEF StateAt, BufferAt
  <1>7. CASE d = c /\ RespondFails(c)
    <2>1. rpc'[c] = "failed"
      BY <1>7 DEF RespondFails, TInv
    <2> QED
      BY <1>7, <2>1 DEF StateAt, BufferAt
  <1>8. CASE d = c /\ Initiator(c)
    <2>1. rpc' = rpc /\ out' = out /\ rkeys' = rkeys
      BY <1>8 DEF Initiator, InitiatorStart, InitiatorFinish, InitiatorReadFails, InitiatorStaticFails,
                  InitiatorCertFails, InitiatorError, Verify
    <2>2. hs'[plan.resp[d]] = hs[plan.resp[d]]
      <3>1. hs' = hs \/ \E s : hs' = [hs EXCEPT ![plan.init[c]] = s]
        BY <1>8, InitiatorHs DEF ConnInv
      <3>2. plan.init[c] # plan.resp[d] /\ plan.init[c] \in States /\ plan.resp[d] \in States
        BY PartTypes DEF AloneInv
      <3> QED
        BY <3>1, <3>2 DEF TInv
    <2>3. CASE InitiatorStart(c)
      <3>1. part1[c] = None
        BY <1>1, <1>8, <2>3 DEF InitiatorStart, ControlAt
      <3>2. rpc[c] \in {"idle", "read", "failed"}
        BY <1>1, <1>8, <3>1 DEF ControlAt, Before
      <3> QED
        BY <1>2, <1>8, <2>1, <2>2, <3>2
    <2>4. CASE ~ InitiatorStart(c)
      <3>1. part1' = part1
        BY <1>8, <2>4 DEF Initiator, InitiatorFinish, InitiatorReadFails, InitiatorStaticFails,
                          InitiatorCertFails, InitiatorError, Verify
      <3> QED
        BY <1>2, <1>8, <2>1, <2>2, <3>1
    <2> QED
      BY <2>3, <2>4
  <1>9. CASE d = c /\ Network(c)
    <2>1. /\ rpc' = rpc /\ out' = out /\ rkeys' = rkeys /\ hs' = hs
          /\ rpc[c] \in {"idle", "read", "failed"} \/ part1'[c] = part1[c]
      BY <1>9 DEF Network, Break, Damage
    <2> QED
      BY <1>2, <1>9, <2>1
  <1> QED
    BY <1>3, <1>4, <1>5, <1>6, <1>7, <1>8, <1>9 DEF Step, Responder, Call

LEMMA StepExclusiveInv ==
  ASSUME TInv, ExclusiveInv, NEW c \in Conns, Step(c)
  PROVE  ExclusiveInv'
  <1>1. plan' = plan /\ \A d \in Conns \ {c} : ipc'[d] = ipc[d]
    <2>1. plan' = plan
      BY DEF Step, Initiator, Responder, Network
    <2> QED
      BY <2>1, OtherConns
  <1>2. ASSUME ipc[c] \in {"read", "done"} \/ ipc'[c] \notin {"read", "done"}
        PROVE  ExclusiveInv'
    BY <1>1, <1>2 DEF ExclusiveInv
  <1>3. CASE InitiatorStart(c)
    <2>1. \A d \in Conns \ {c} : plan.init[d] = plan.init[c] => ipc[d] \notin {"read", "done"}
      BY <1>3 DEF InitiatorStart, ClientFree
    <2> QED
      BY <1>1, <2>1 DEF ExclusiveInv
  <1>4. CASE InitiatorFinish(c) \/ InitiatorReadFails(c) \/ InitiatorStaticFails(c) \/ InitiatorCertFails(c)
    BY <1>2, <1>4 DEF InitiatorFinish, InitiatorReadFails, InitiatorStaticFails, InitiatorCertFails
  <1>5. ASSUME NEW now \in Times, Verify(c, now)
        PROVE  ExclusiveInv'
    BY <1>2, <1>5 DEF Verify
  <1>6. CASE Responder(c) \/ Network(c)
    <2>1. ipc' = ipc
      BY <1>6, CallFrame DEF Responder, Call, Write, ReturnKeys, RespondFails, Network, Break, Damage
    <2> QED
      BY <1>1, <2>1 DEF ExclusiveInv
  <1> QED
    BY <1>3, <1>4, <1>5, <1>6 DEF Step, Initiator

\* Another initiator does not use the HandshakeState of one that has finished
\* its handshake and not yet checked the certificate.
LEMMA DoneIsExclusive ==
  ASSUME TInv, ExclusiveInv, NEW c \in Conns, Initiator(c), NEW d \in Conns, d # c, ipc[d] \in {"read", "done"}
  PROVE  plan.init[d] # plan.init[c]
  <1>1. CASE InitiatorStart(c)
    BY <1>1 DEF InitiatorStart, ClientFree
  <1>2. CASE ipc[c] \in {"read", "done"}
    BY <1>2 DEF ExclusiveInv
  <1> QED
    BY <1>1, <1>2 DEF Initiator, InitiatorFinish, InitiatorReadFails, InitiatorStaticFails,
                      InitiatorCertFails, Verify

LEMMA StepCertInv ==
  ASSUME TInv, AloneInv, ConnInv, ResponderInv, ExclusiveInv, CertInv, NEW c \in Conns, Step(c)
  PROVE  CertInv'
  <1>1. plan' = plan
    BY DEF Step, Initiator, Responder, Network
  <1> SUFFICES ASSUME NEW d \in Conns, ipc'[d] = "done"
               PROVE  /\ hs'[plan.init[d]].cert = Certs[plan.server[d]]
                      /\ hs'[plan.init[d]].serverStatic = Static(plan.server[d])
    BY <1>1 DEF CertInv, Mine
  <1>2. plan.init[d] \in States /\ plan.init[c] \in States /\ plan.resp[c] \in States
    BY PartTypes
  <1>3. ASSUME ipc[d] = "done"
        PROVE  hs[plan.init[d]].cert = Certs[plan.server[d]] /\ hs[plan.init[d]].serverStatic = Static(plan.server[d])
    BY <1>3 DEF CertInv, Mine
  <1>4. CASE Initiator(c) /\ d = c
    <2>1. PICK s : /\ hs' = [hs EXCEPT ![plan.init[c]] = s]
                   /\ s.cert = Certs[plan.server[c]] /\ s.serverStatic = Static(plan.server[c])
      BY <1>4, InitiatorHs DEF ConnInv
    <2>2. hs'[plan.init[c]] = s
      BY <1>2, <2>1 DEF TInv
    <2> QED
      BY <1>4, <2>1, <2>2
  <1>5. CASE Initiator(c) /\ d # c
    <2>1. ipc[d] = "done"
      BY <1>5, OtherConns DEF Step
    <2>2. plan.init[d] # plan.init[c]
      BY <1>5, <2>1, DoneIsExclusive
    <2>3. hs'[plan.init[d]] = hs[plan.init[d]]
      BY <1>2, <1>5, <2>2, InitiatorHs DEF ConnInv, TInv
    <2> QED
      BY <1>3, <2>1, <2>3
  <1>6. CASE (Responder(c) \/ Network(c)) /\ ~ Initiator(c)
    <2>1. ipc[d] = "done"
      BY <1>6, CallFrame DEF Responder, Call, Write, ReturnKeys, RespondFails, Network, Break, Damage
    <2>2. hs'[plan.init[d]] = hs[plan.init[d]]
      BY <1>6, StatesKept
    <2> QED
      BY <1>3, <2>1, <2>2
  <1> QED
    BY <1>4, <1>5, <1>6 DEF Step

LEMMA StepSealedInv ==
  ASSUME TInv, ConnInv, ResponderInv, SealedInv, NEW c \in Conns, Step(c)
  PROVE  SealedInv'
  <1>1. plan' = plan /\ StateAt(c) /\ BufferAt(c) /\ ControlAt(c)
    BY DEF Step, Initiator, Responder, Network, ConnInv, ResponderInv
  <1>2. ASSUME NEW d \in Conns, rpc[d] \in Sealing
        PROVE  rpc'[d] \in Sealing /\ RStatic(d)' = RStatic(d) /\ RCert(d)' = RCert(d)
    <2>1. rpc'[d] \in Sealing /\ part1'[d] = part1[d]
      <3>1. CASE d # c
        BY <1>2, <3>1, OtherConns
      <3>2. CASE d = c /\ Call(c)
        BY <1>2, <3>2, CallFrame
      <3>3. CASE d = c /\ (Write(c) \/ ReturnKeys(c) \/ RespondFails(c))
        BY <1>2, <3>3 DEF Write, ReturnKeys, RespondFails, Sealing, TInv
      <3>4. CASE d = c /\ Network(c)
        BY <1>2, <3>4 DEF Network, Break, Damage, Sealing
      <3>5. CASE d = c /\ Initiator(c)
        <4>1. rpc' = rpc
          BY <3>5 DEF Initiator, InitiatorStart, InitiatorFinish, InitiatorReadFails, InitiatorStaticFails,
                      InitiatorCertFails, InitiatorError, Verify
        <4>2. part1[c] # None /\ ipc[c] # "idle"
          BY <1>1, <1>2, <3>5 DEF ControlAt, Sealing, Before
        <4>3. part1' = part1
          BY <3>5, <4>2 DEF Initiator, InitiatorStart, InitiatorFinish, InitiatorReadFails,
                      InitiatorStaticFails, InitiatorCertFails, InitiatorError, Verify
        <4> QED
          BY <1>2, <4>1, <4>3
      <3> QED
        BY <3>1, <3>2, <3>3, <3>4, <3>5 DEF Step, Responder, Call
    <2> QED
      BY <1>1, <2>1, SameMessage
  <1>3. ASSUME NEW x \in sealed
        PROVE  \E d \in Conns : rpc'[d] \in Sealing /\ x \in {RStatic(d)', RCert(d)'}
    BY <1>2 DEF SealedInv
  <1>4. CASE Call(c)
    <2>1. sealed' = sealed \cup NewlySealed(c)
      BY <1>1, <1>4, CallState
    <2>2. CASE rpc[c] \notin {"static", "cert"}
      <3>1. sealed' = sealed
        BY <2>1, <2>2 DEF NewlySealed
      <3> QED
        BY <1>3, <3>1 DEF SealedInv
    <2>3. CASE rpc[c] \in {"static", "cert"}
      <3>1. sealed' \subseteq sealed \cup {RStatic(c), RCert(c)}
        BY <2>1, <2>3 DEF NewlySealed
      <3>2. rpc'[c] \in Sealing
        BY <1>4, <2>3 DEF Call, ResponderStart, ReadEphemeral, ReadPayload, AddEphemeral, MixEphemeral,
                          AddStatic, MixStatic, AddCert, ResponderCall, Sealing, TInv
      <3>3. RStatic(c)' = RStatic(c) /\ RCert(c)' = RCert(c)
        BY <1>1, <1>4, CallFrame, SameMessage
      <3> QED
        BY <1>3, <3>1, <3>2, <3>3 DEF SealedInv
    <2> QED
      BY <2>2, <2>3
  <1>5. CASE ~ Call(c)
    <2>1. sealed' = sealed
      BY <1>5 DEF Step, Initiator, InitiatorStart, InitiatorFinish, InitiatorReadFails, InitiatorStaticFails,
                  InitiatorCertFails, InitiatorError, Verify, Responder, Call, Write, ReturnKeys, RespondFails,
                  Network, Break, Damage
    <2> QED
      BY <1>3, <2>1 DEF SealedInv
  <1> QED
    BY <1>4, <1>5

\* What the check of the certificate of a known server amounts to.
LEMMA CheckOf ==
  ASSUME NEW s \in Servers, NEW now \in Times
  PROVE  VerifyServerCertificate(Certs[s], Static(s), now)
           <=> /\ Certs[s].signer = Authority /\ Certs[s].key = Static(s)
               /\ now % TimeMod \in Certs[s].from .. Certs[s].until
  <1> DEFINE from == Certs[s].from
             until == Certs[s].until
  <1>1. /\ Certs[s].version = CertificateFormatVersion
        /\ from \in Timestamps /\ until \in Timestamps
    BY CertsAssumption
  <1>2. from \in Nat /\ until \in Nat /\ now \in Nat /\ TimeMod \in Nat \ {0}
    BY <1>1, TimeModAssumption DEF Timestamps, Times
  <1>3. now % TimeMod \in Nat
    BY <1>2
  <1>4. now % TimeMod \in from .. until <=> from <= now % TimeMod /\ until >= now % TimeMod
    <2> DEFINE t == now % TimeMod
    <2>1. t \in Nat
      BY <1>3
    <2> HIDE DEF from, until, t
    <2>2. t \in from .. until <=> from <= t /\ until >= t
      BY <1>2, <2>1
    <2> QED
      BY <2>2 DEF t
  <1> QED
    BY <1>1, <1>4 DEF VerifyServerCertificate

LEMMA StepVerdict ==
  ASSUME TInv, CertInv, VerdictIsRight, NEW c \in Conns, Step(c)
  PROVE  VerdictIsRight'
  <1> DEFINE Right(d) == LET cert == Certs[plan.server[d]]
                         IN  /\ cert.signer = Authority
                             /\ cert.key = Static(plan.server[d])
                             /\ verdict'[d].at % TimeMod \in cert.from .. cert.until
  <1>1. plan' = plan
    BY DEF Step, Initiator, Responder, Network
  <1>2. ASSUME NEW d \in Conns, d # c, verdict'[d] # None
        PROVE  verdict'[d].valid <=> Right(d)
    <2>1. verdict'[d] = verdict[d]
      BY <1>2, OtherConns
    <2> QED
      BY <1>2, <2>1 DEF VerdictIsRight
  <1>3. ASSUME verdict'[c] # None
        PROVE  verdict'[c].valid <=> Right(c)
    <2>1. ASSUME NEW now \in Times, Verify(c, now)
          PROVE  verdict'[c].valid <=> Right(c)
      <3> DEFINE v == VerifyServerCertificate(Mine(c).cert, Mine(c).serverStatic, now)
      <3>1. ipc[c] = "done" /\ verdict'[c] = [valid |-> v, at |-> now]
        BY <2>1 DEF Verify, TInv
      <3>2. Mine(c).cert = Certs[plan.server[c]] /\ Mine(c).serverStatic = Static(plan.server[c])
        BY <3>1 DEF CertInv
      <3>3. v = VerifyServerCertificate(Certs[plan.server[c]], Static(plan.server[c]), now)
        BY <3>2
      <3>4. verdict'[c].valid = v /\ verdict'[c].at = now
        <4> HIDE DEF v
        <4> QED
          BY <3>1
      <3>5. plan.server[c] \in Servers
        BY PartTypes
      <3> QED
        BY <3>3, <3>4, <3>5, CheckOf
    <2>2. CASE verdict' = verdict
      BY <1>3, <2>2 DEF VerdictIsRight
    <2>3. verdict' = verdict \/ \E now \in Times : Verify(c, now)
      BY CallFrame DEF Step, Initiator, InitiatorStart, InitiatorFinish, InitiatorReadFails,
             InitiatorStaticFails, InitiatorCertFails, InitiatorError, Responder, Call, Write, ReturnKeys,
             RespondFails, Network, Break, Damage
    <2> QED
      BY <2>1, <2>2, <2>3
  <1>4. \A d \in Conns : verdict'[d] # None => (verdict'[d].valid <=> Right(d))
    BY <1>2, <1>3
  <1> QED
    BY <1>1, <1>4 DEF VerdictIsRight

LEMMA InitIInv ==
  ASSUME Separate
  PROVE  Init => IInv
  <1> SUFFICES ASSUME Init PROVE IInv
    OBVIOUS
  <1>1. TInv
    <2> DEFINE o == <<>>
               s == Mk(o, o, o, 0, None, None)
    <2>1. \A x \in States : hs[x] = s
      BY DEF Init, Mk
    <2>2. o \in Seq(Secrets)
      BY NoSecrets
    <2>3. IsState(s)
      <3> HIDE DEF o
      <3> QED
        BY <2>2, StateOf
    <2>4. \A x \in States : IsState(hs[x])
      <3> HIDE DEF s
      <3> QED
        BY <2>1, <2>3
    <2>5. DOMAIN hs = States
      BY DEF Init
    <2> QED
      BY <2>4, <2>5 DEF TInv, Init, Steps
  <1>2. ConnInv
    BY DEF ConnInv, Part2At, ControlAt, DamageAt, KeysAt, Init, Before
  <1>5. AloneInv
    BY DEF AloneInv, Separate, Init
  <1>6. ResponderInv
    BY DEF ResponderInv, StateAt, BufferAt, Init
  <1>3. ExclusiveInv /\ CertInv
    BY DEF ExclusiveInv, CertInv, Init
  <1>4. SealedInv /\ VerdictIsRight
    BY DEF SealedInv, VerdictIsRight, Init
  <1> QED
    BY <1>1, <1>2, <1>3, <1>4, <1>5, <1>6 DEF IInv

LEMMA NextIInv == IInv /\ [Next]_vars => IInv'
  <1> SUFFICES ASSUME IInv, [Next]_vars PROVE IInv'
    OBVIOUS
  <1> USE DEF IInv
  <1>1. ASSUME NEW c \in Conns, Step(c)
        PROVE  IInv'
    <2>1. AloneInv'
      BY <1>1 DEF AloneInv, Step, Initiator, Responder, Network
    <2> QED
      BY <1>1, <2>1, StepResponderInv, StepTInv, StepConnInv, StepExclusiveInv, StepCertInv, StepSealedInv, StepVerdict
  <1>2. CASE UNCHANGED vars
    <2>1. TInv' /\ ExclusiveInv'
      BY <1>2 DEF vars, TInv, ExclusiveInv
    <2>2. ConnInv'
      <3>1. ASSUME NEW d \in Conns
            PROVE  (Part2At(d) /\ ControlAt(d) /\ DamageAt(d) /\ KeysAt(d))'
        <4>1. Part2At(d) /\ ControlAt(d) /\ DamageAt(d) /\ KeysAt(d)
          BY DEF ConnInv
        <4> QED
          BY <1>2, <4>1, ConnKept DEF vars
      <3> QED
        BY <3>1 DEF ConnInv
    <2>3. CertInv' /\ AloneInv'
      BY <1>2 DEF vars, CertInv, Mine, AloneInv
    <2>5. ASSUME NEW d \in Conns
          PROVE  /\ RK0' = RK0 /\ RK1(d)' = RK1(d) /\ RK2(d)' = RK2(d)
                 /\ RHe(d)' = RHe(d) /\ RHp(d)' = RHp(d) /\ RH1(d)' = RH1(d) /\ RH2(d)' = RH2(d)
                 /\ RH3(d)' = RH3(d) /\ RStatic(d)' = RStatic(d) /\ RCert(d)' = RCert(d)
                 /\ Theirs(d)' = Theirs(d)
      BY <1>2, SameMessage DEF vars, Theirs
    <2>6. ResponderInv'
      BY <1>2, <2>5 DEF vars, ResponderInv, StateAt, BufferAt, Holds
    <2>7. SealedInv'
      BY <1>2, <2>5 DEF vars, SealedInv
    <2>4. VerdictIsRight'
      BY <1>2 DEF vars, VerdictIsRight
    <2> QED
      BY <2>1, <2>2, <2>3, <2>4, <2>6, <2>7
  <1> QED
    BY <1>1, <1>2 DEF Next, Step

\* IInv holds in every reachable state, when no responders share a state.
THEOREM Invariance ==
  ASSUME Separate
  PROVE  Spec => []IInv
  BY InitIInv, NextIInv, PTL DEF Spec

\* The transport keys that PerformHandshakeInitiator returns are those of the
\* responder of the same connection, crossed over, and the two directions have
\* different keys: for any connections and servers, over breaks and damage and
\* for initiators that use a HandshakeState again, when every responder has a
\* HandshakeState of its own.
THEOREM KeysAgree ==
  ASSUME Separate
  PROVE  Spec => []KeyAgreement
  <1>1. IInv => KeyAgreement
    <2> SUFFICES ASSUME IInv, NEW c \in Conns, ikeys[c] # None
                 PROVE  /\ rpc[c] \in {"keys", "done"}
                        /\ rpc[c] = "done" => /\ ikeys[c].send = rkeys[c].recv
                                              /\ ikeys[c].recv = rkeys[c].send
                        /\ ikeys[c].send # ikeys[c].recv
      BY DEF KeyAgreement
    <2> DEFINE ck == RK2(c)
               k1 == <<ck, 1>>
               k2 == <<ck, 2>>
    <2>1. rpc[c] \in {"keys", "done"} /\ ikeys[c] = [send |-> k1, recv |-> k2]
      BY DEF IInv, ConnInv, ControlAt, KeysAt, Written
    <2>2. rpc[c] = "done" => rkeys[c] = [send |-> k2, recv |-> k1]
      BY DEF IInv, ResponderInv, BufferAt
    <2> HIDE DEF ck
    <2>3. k1 # k2
      OBVIOUS
    <2> HIDE DEF k1, k2
    <2> QED
      BY <2>1, <2>2, <2>3
  <1> QED
    BY <1>1, Invariance, PTL

\* PerformHandshakeInitiator returns an error for every handshake in which a
\* byte of either message was damaged, when every responder has a
\* HandshakeState of its own.
THEOREM DamageIsDetected ==
  ASSUME Separate
  PROVE  Spec => []DamageDetected
  <1>1. IInv => DamageDetected
    BY DEF IInv, TInv, ConnInv, DamageAt, DamageDetected
  <1> QED
    BY <1>1, Invariance, PTL

\* The connection whose responder made a key: its ephemeral key is in the
\* last secret or in the one before.
Of(key) ==
  IF key[Len(key)][2].owner = "responder" THEN key[Len(key)][2].of ELSE key[Len(key) - 1][2].of

\* encryptAndHash never seals two messages under one key and nonce, although
\* every handshake starts again at nonce 0 and mixKey returns to it, when
\* every responder has a HandshakeState of its own.
THEOREM NoncesAreFresh ==
  ASSUME Separate
  PROVE  Spec => []HandshakeNoncesFresh
  <1>1. IInv => HandshakeNoncesFresh
    <2> SUFFICES ASSUME IInv, NEW x \in sealed, NEW y \in sealed, x.key = y.key
                 PROVE  x = y
      BY DEF HandshakeNoncesFresh
    <2>1. ASSUME NEW c \in Conns, rpc[c] \in Sealing
          PROVE  /\ Of(RK1(c)) = c /\ Of(RK2(c)) = c
                 /\ RStatic(c).key = RK1(c) /\ RCert(c).key = RK2(c) /\ RK1(c) # RK2(c)
      <3>1. TInv /\ part1[c] # None
        BY <2>1 DEF IInv, ConnInv, ControlAt, Sealing, Before
      <3>2. RStatic(c).key = RK1(c) /\ RCert(c).key = RK2(c)
        BY DEF RStatic, RCert, Intact
      <3>3. /\ RK1(c)[Len(RK1(c))] = RX1(c) /\ RK2(c)[Len(RK2(c))] = RX2(c)
            /\ RK2(c)[Len(RK2(c)) - 1] = RX1(c)
        BY <3>1, ResponderKeys
      <3>4. RX1(c)[2].owner = "responder" /\ RX1(c)[2].of = c /\ RX2(c)[2].owner = "static"
        BY DEF RX1, RX2, You, Static, Ephemeral
      <3> QED
        BY <3>2, <3>3, <3>4 DEF Of
    <2>2. PICK c \in Conns : rpc[c] \in Sealing /\ x \in {RStatic(c), RCert(c)}
      BY DEF IInv, SealedInv
    <2>3. PICK d \in Conns : rpc[d] \in Sealing /\ y \in {RStatic(d), RCert(d)}
      BY DEF IInv, SealedInv
    <2>4. c = d
      BY <2>1, <2>2, <2>3
    <2> QED
      BY <2>1, <2>2, <2>3, <2>4
  <1> QED
    BY <1>1, Invariance, PTL

\* VerifyServerCertificate judges the server of the handshake that was just
\* finished, whatever the client's HandshakeState was used for before, when
\* every responder has a HandshakeState of its own.
THEOREM VerdictsAreRight ==
  ASSUME Separate
  PROVE  Spec => []VerdictIsRight
  <1>1. IInv => VerdictIsRight
    BY DEF IInv
  <1> QED
    BY <1>1, Invariance, PTL

-----------------------------------------------------------------------------
(* Handshakes that nothing disturbs *)

H1(c) == Append(Append(<<>>, Me(c)), Empty)

HonestAt(c) ==
  /\ ipc[c] = "read" => Mine(c).h = H1(c) /\ Mine(c).ck = <<>>
  /\ c \notin damaged =>
       /\ part1[c] \in {None, Me(c)}
       /\ part2[c] # None => part2[c] = [e |-> You(c), static |-> RStatic(c), cert |-> RCert(c)]

HonestInv == \A c \in Conns : HonestAt(c)

LEMMA StepHonest ==
  ASSUME IInv, HonestInv, NEW c \in Conns, Step(c)
  PROVE  HonestInv'
  <1> SUFFICES ASSUME NEW d \in Conns PROVE HonestAt(d)'
    BY DEF HonestInv
  <1>1. /\ TInv /\ HonestAt(d) /\ Part2At(c) /\ ControlAt(d) /\ BufferAt(c) /\ plan' = plan
        /\ AloneInv /\ ConnInv /\ ResponderInv /\ ExclusiveInv
    BY DEF IInv, HonestInv, ConnInv, ResponderInv, Step, Initiator, Responder, Network
  <1>3. (ipc[d] = "read" => Mine(d).h = H1(d) /\ Mine(d).ck = <<>>)'
    <2> SUFFICES ASSUME ipc'[d] = "read"
                 PROVE  hs'[plan.init[d]].h = H1(d) /\ hs'[plan.init[d]].ck = <<>>
      BY <1>1 DEF Mine
    <2>1. CASE Initiator(c) /\ d = c
      <3>1. PICK s : /\ hs' = [hs EXCEPT ![plan.init[c]] = s]
                     /\ s.h = Append(Append(<<>>, Me(c)), Empty) /\ s.ck = <<>>
        BY <1>1, <2>1, InitiatorHs
      <3>2. hs'[plan.init[c]] = s
        BY <1>1, <3>1, PartTypes DEF TInv
      <3> QED
        BY <2>1, <3>1, <3>2 DEF H1
    <2>2. CASE Initiator(c) /\ d # c
      <3>1. ipc[d] = "read"
        BY <1>1, <2>2, OtherConns
      <3>2. plan.init[d] # plan.init[c] /\ plan.init[c] \in States /\ plan.init[d] \in States
        BY <1>1, <2>2, <3>1, DoneIsExclusive, PartTypes
      <3>3. hs' = hs \/ \E s : hs' = [hs EXCEPT ![plan.init[c]] = s]
        BY <1>1, <2>2, InitiatorHs
      <3>4. hs'[plan.init[d]] = hs[plan.init[d]]
        BY <1>1, <3>2, <3>3 DEF TInv
      <3> QED
        BY <1>1, <3>1, <3>4 DEF HonestAt, Mine
    <2>3. CASE ~ Initiator(c)
      <3>1. ipc[d] = "read"
        BY <1>1, <2>3, CallFrame DEF Step, Responder, Call, Write, ReturnKeys, RespondFails, Network, Break, Damage
      <3>2. hs'[plan.init[d]] = hs[plan.init[d]]
        BY <1>1, <2>3, StatesKept
      <3> QED
        BY <1>1, <3>1, <3>2 DEF HonestAt, Mine
    <2> QED
      BY <2>1, <2>2, <2>3
  <1>4. (d \notin damaged =>
           /\ part1[d] \in {None, Me(d)}
           /\ part2[d] # None => part2[d] = [e |-> You(d), static |-> RStatic(d), cert |-> RCert(d)])'
    <2> SUFFICES ASSUME d \notin damaged'
                 PROVE  /\ part1'[d] \in {None, Me(d)}
                        /\ part2'[d] # None =>
                             part2'[d] = [e |-> You(d), static |-> RStatic(d)', cert |-> RCert(d)']
      BY DEF You, Me, Ephemeral
    <2>1. ASSUME d \notin damaged, part1'[d] = part1[d], part2'[d] \in {None, part2[d]}
          PROVE  /\ part1'[d] \in {None, Me(d)}
                 /\ part2'[d] # None =>
                      part2'[d] = [e |-> You(d), static |-> RStatic(d)', cert |-> RCert(d)']
      <3>1. RStatic(d)' = RStatic(d) /\ RCert(d)' = RCert(d)
        BY <1>1, <2>1, SameMessage
      <3> QED
        BY <1>1, <2>1, <3>1 DEF HonestAt
    <2>2. CASE d # c
      BY <1>1, <2>1, <2>2, OtherConns
    <2>3. CASE d = c /\ InitiatorStart(c)
      <3>1. /\ part2' = part2 /\ damaged' = damaged /\ part1'[c] \in {part1[c], Me(c)}
            /\ part2[c] = None
        BY <1>1, <2>3 DEF InitiatorStart, Me, TInv, ControlAt, Written, Before
      <3> QED
        BY <1>1, <2>3, <3>1 DEF HonestAt
    <2>4. CASE d = c /\ Initiator(c) /\ ~ InitiatorStart(c)
      <3>1. part2' = part2 /\ damaged' = damaged /\ part1' = part1
        BY <2>4 DEF Initiator, InitiatorFinish, InitiatorReadFails, InitiatorStaticFails,
                    InitiatorCertFails, InitiatorError, Verify
      <3> QED
        BY <2>1, <2>4, <3>1
    <2>5. CASE d = c /\ (Call(c) \/ ReturnKeys(c) \/ RespondFails(c))
      <3>1. part2' = part2 /\ damaged' = damaged /\ part1' = part1
        BY <1>1, <2>5, CallFrame DEF ReturnKeys, RespondFails
      <3> QED
        BY <2>1, <2>5, <3>1
    <2>6. CASE d = c /\ Write(c)
      <3>1. part1' = part1 /\ damaged' = damaged
        BY <2>6 DEF Write
      <3>2. part2'[c] = IF c \in broken THEN part2[c]
                        ELSE [e |-> You(c), static |-> RStatic(c), cert |-> RCert(c)]
        BY <1>1, <2>6, Writes
      <3>3. RStatic(c)' = RStatic(c) /\ RCert(c)' = RCert(c)
        BY <1>1, <3>1, SameMessage
      <3>4. CASE c \in broken
        BY <2>1, <2>6, <3>1, <3>2, <3>4
      <3>5. CASE c \notin broken
        BY <1>1, <2>6, <3>1, <3>2, <3>3, <3>5 DEF HonestAt
      <3> QED
        BY <3>4, <3>5
    <2>7. CASE d = c /\ Break(c)
      <3>1. /\ damaged' = damaged /\ part2'[c] \in {None, part2[c]}
            /\ part1'[c] = IF rpc[c] \in {"idle", "read"} THEN None ELSE part1[c]
        BY <1>1, <2>7 DEF Break, TInv
      <3>2. CASE rpc[c] \in {"idle", "read"}
        <4>1. part2[c] = None
          BY <1>1, <2>7, <3>2 DEF ControlAt, Written
        <4> QED
          BY <2>7, <3>1, <3>2, <4>1
      <3>3. CASE rpc[c] \notin {"idle", "read"}
        BY <2>1, <2>7, <3>1, <3>3
      <3> QED
        BY <3>2, <3>3
    <2>8. CASE d = c /\ Damage(c)
      BY <2>8 DEF Damage
    <2> QED
      BY <2>2, <2>3, <2>4, <2>5, <2>6, <2>7, <2>8 DEF Step, Initiator, Responder, Call, Network
  <1> QED
    BY <1>3, <1>4 DEF HonestAt

\* An undamaged second message opens.
LEMMA HonestOpens ==
  ASSUME IInv, NEW c \in Conns, HonestAt(c), ipc[c] = "read", part2[c] # None, c \notin damaged
  PROVE  Opens(WithEphemeral(c), part2[c].static) /\ Opens(WithStatic(c), part2[c].cert)
  <1>1. part2[c] = [e |-> You(c), static |-> RStatic(c), cert |-> RCert(c)]
        /\ Mine(c).h = H1(c) /\ Mine(c).ck = <<>> /\ part1[c] = Me(c)
    <2>1. part1[c] # None
      BY DEF IInv, ConnInv, ControlAt, Written, Before
    <2> QED
      BY <2>1 DEF HonestAt
  <1>2. part2[c].e = You(c) /\ part2[c].static = RStatic(c) /\ part2[c].cert = RCert(c)
    <2> DEFINE x == You(c)
               y == RStatic(c)
               z == RCert(c)
    <2>1. part2[c] = [e |-> x, static |-> y, cert |-> z]
      BY <1>1
    <2> HIDE DEF x, y, z
    <2>2. part2[c].e = x /\ part2[c].static = y /\ part2[c].cert = z
      BY <2>1
    <2> QED
      BY <2>2 DEF x, y, z
  <1>3. part2[c].static.plain = Static(plan.server[c])
    BY <1>2 DEF RStatic, Intact
  <1>4. IK1(c) = RK1(c) /\ IH1(c) = RH1(c)
    BY <1>1, <1>2 DEF IK1, IX1, RK0, RK1, RX1, IH1, H1, RHe, RHp, RH1
  <1>5. IK2(c) = RK2(c) /\ IH2(c) = RH2(c)
    BY <1>1, <1>2, <1>3, <1>4 DEF IK2, IX2, RK2, RX2, IH2, RH2
  <1>6. TInv /\ Part2At(c)
    BY DEF IInv, ConnInv
  <1>7. IK1(c) # <<>> /\ IK2(c) # <<>>
    BY <1>6, InitiatorKeys
  <1>8. ASSUME NEW key, NEW ad, NEW plain, NEW cert, NEW static, key # <<>>
        PROVE  Opens(Mk(ad, key, key, 0, cert, static), Intact(key, ad, plain))
    <2> DEFINE ct == Intact(key, ad, plain)
    <2>1. ct.t = "ct" /\ ct.intact /\ ct.key = key /\ ct.n = 0 /\ ct.ad = ad
      BY DEF Intact
    <2> HIDE DEF ct
    <2>2. Opens(Mk(ad, key, key, 0, cert, static), ct)
      BY <1>8, <2>1, OpensFields
    <2> QED
      BY <2>2 DEF ct
  <1>9. Opens(WithEphemeral(c), part2[c].static)
    <2>1. WithEphemeral(c) = Mk(RH1(c), RK1(c), RK1(c), 0, Mine(c).cert, Mine(c).serverStatic)
      BY <1>4, <1>6, InitiatorStates
    <2> QED
      BY <1>2, <1>4, <1>7, <1>8, <2>1 DEF RStatic
  <1>10. Opens(WithStatic(c), part2[c].cert)
    <2>1. WithStatic(c) = Mk(RH2(c), RK2(c), RK2(c), 0, Mine(c).cert, part2[c].static.plain)
      BY <1>5, <1>6, InitiatorStates
    <2> QED
      BY <1>2, <1>5, <1>7, <1>8, <2>1 DEF RCert
  <1> QED
    BY <1>9, <1>10

\* With a HandshakeState of its own on the server, PerformHandshakeInitiator
\* and PerformHandshakeResponder return an error only when their own
\* connection broke or damaged a message.  The assumption is the one that the
\* server of examples/server does not keep.
THEOREM FailuresAreExplained ==
  ASSUME Separate
  PROVE  Spec => FailsOnlyWhenDisturbed
  <1> DEFINE A == \A c \in Conns :
                    \/ rpc[c] # "failed" /\ rpc'[c] = "failed"
                    \/ ipc[c] # "failed" /\ ipc'[c] = "failed"
                    => c \in broken \cup damaged
  <1>1. Init => HonestInv
    BY DEF Init, HonestInv, HonestAt
  <1>2. IInv /\ HonestInv /\ [Next]_vars => HonestInv'
    <2> SUFFICES ASSUME IInv, HonestInv, [Next]_vars PROVE HonestInv'
      OBVIOUS
    <2>1. CASE UNCHANGED vars
      <3>1. ASSUME NEW d \in Conns PROVE RStatic(d)' = RStatic(d) /\ RCert(d)' = RCert(d)
        BY <2>1, SameMessage DEF vars
      <3> QED
        BY <2>1, <3>1 DEF vars, HonestInv, HonestAt, Mine, You, Me, H1
    <2>2. CASE Next
      BY <2>2, StepHonest DEF Next, Step
    <2> QED
      BY <2>1, <2>2
  <1>3. IInv /\ HonestInv /\ [Next]_vars =>
          [\A c \in Conns :
             \/ rpc[c] # "failed" /\ rpc'[c] = "failed"
             \/ ipc[c] # "failed" /\ ipc'[c] = "failed"
             => c \in broken \cup damaged]_vars
    <2> SUFFICES ASSUME IInv, HonestInv, Next PROVE A
      BY DEF vars
    <2>1. PICK c \in Conns : Step(c)
      BY DEF Next, Step
    <2>2. TInv /\ HonestAt(c) /\ StateAt(c)
      BY DEF IInv, HonestInv, ResponderInv
    <2>3. \A d \in Conns \ {c} : ipc'[d] = ipc[d] /\ rpc'[d] = rpc[d]
      BY <2>1, <2>2, OtherConns
    <2>4. ASSUME rpc[c] # "failed", rpc'[c] = "failed"
          PROVE  c \in broken
      <3>1. RespondFails(c)
        BY <2>1, <2>2, <2>4, CallFrame DEF Step, Initiator, InitiatorStart, InitiatorFinish,
             InitiatorReadFails, InitiatorStaticFails, InitiatorCertFails, InitiatorError, Verify,
             Responder, Call, Write, ReturnKeys, Network, Break, Damage, TInv
      <3>2. rpc[c] = "payload" => Opens(Theirs(c), Empty)
        BY <2>2, ResponderStates
      <3> QED
        BY <3>1, <3>2 DEF RespondFails
    <2>5. ASSUME ipc[c] # "failed", ipc'[c] = "failed"
          PROVE  c \in broken \cup damaged
      <3>1. InitiatorReadFails(c) \/ InitiatorStaticFails(c) \/ InitiatorCertFails(c)
        BY <2>1, <2>2, <2>5, CallFrame DEF Step, Initiator, InitiatorStart, InitiatorFinish, Verify,
             Responder, Call, Write, ReturnKeys, RespondFails, Network, Break, Damage, TInv
      <3> QED
        BY <2>2, <3>1, HonestOpens DEF InitiatorReadFails, InitiatorStaticFails, InitiatorCertFails
    <2> QED
      BY <2>3, <2>4, <2>5
  <1> QED
    BY <1>1, <1>2, <1>3, Invariance, PTL DEF Spec, FailsOnlyWhenDisturbed
=============================================================================
