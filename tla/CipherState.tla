---------------------------- MODULE CipherState ----------------------------
(***************************************************************************)
(* The CipherState of noise.go: the key k, the atomic counter n and the    *)
(* AEAD gcm, used by several goroutines at once.  EncryptWithAd and        *)
(* DecryptWithAd are not atomic: the nonce limit is tested on one load of  *)
(* n, the nonce is a second load, the increment a third operation, and a   *)
(* ciphertext that does not authenticate is followed by a decrement.  Each *)
(* of these is an action of its own.                                       *)
(*                                                                         *)
(* The AEAD is symbolic: a ciphertext is the pair of the key and the nonce *)
(* it was sealed with, and gcm.Open accepts it under exactly that pair (a  *)
(* wrong additional data or a damaged ciphertext is any other pair).       *)
(***************************************************************************)
EXTENDS Integers, FiniteSets

CONSTANTS
  Goroutines,        \* the goroutines that hold the CipherState
  NonceMod,          \* number of values of n: 2^64 in the code
  MaxNonceOutcomes,  \* what uint64(math.Pow(2, 64)) - 1 may evaluate to
  MaxKeys,           \* bound on the calls of InitializeKey
  MaxCalls           \* bound on the calls of Encrypt and Decrypt

ASSUME NonceModAssumption == NonceMod \in Nat \ {0}
ASSUME OutcomesAssumption == MaxNonceOutcomes \subseteq 0 .. NonceMod - 1
ASSUME BoundsAssumption == MaxKeys \in Nat /\ MaxCalls \in Nat

VARIABLES
  key,            \* number of the key in k, 0 while k is empty
  n,              \* the atomic counter
  maxNoiseNonce,  \* the package variable, set when the program starts
  calls,          \* calls begun so far; names the latest one
  overlapped,     \* TRUE once a call has begun while another was in progress
  pc,             \* where each goroutine is in its call
  op,             \* "encrypt" or "decrypt"
  arg,            \* the ciphertext given to Decrypt
  id,             \* the number of the call
  nonce,          \* the nonce getNonce has loaded
  ret,            \* outcome of the last call: "ok", "plain", "exhausted", "auth"
  sealed,         \* [key, nonce, id] of every gcm.Seal
  opened          \* [key, nonce, id] of every gcm.Open that succeeded

locals == <<pc, op, arg, id, nonce, ret>>
vars == <<key, n, maxNoiseNonce, calls, overlapped, locals, sealed, opened>>

Nonces == 0 .. NonceMod - 1
Ciphertexts == [key : 1 .. MaxKeys, nonce : Nonces]
Uses == [key : 1 .. MaxKeys, nonce : Nonces, id : 1 .. MaxCalls]
NoCiphertext == [key |-> 0, nonce |-> 0]

Idle(g) == pc[g] = "idle"
Quiescent == \A g \in Goroutines : Idle(g)

\* A goroutine calls when it has no call in progress, whatever the others do.
BeginCall(g) ==
  /\ Idle(g)
  /\ calls < MaxCalls
  /\ calls' = calls + 1
  /\ overlapped' = (overlapped \/ ~ Quiescent)

Return(g, outcome) ==
  /\ pc' = [pc EXCEPT ![g] = "idle"]
  /\ ret' = [ret EXCEPT ![g] = outcome]

Init ==
  /\ key = 0
  /\ n = 0
  /\ maxNoiseNonce \in MaxNonceOutcomes
  /\ calls = 0
  /\ overlapped = FALSE
  /\ pc = [g \in Goroutines |-> "idle"]
  /\ op = [g \in Goroutines |-> "encrypt"]
  /\ arg = [g \in Goroutines |-> NoCiphertext]
  /\ id = [g \in Goroutines |-> 0]
  /\ nonce = [g \in Goroutines |-> 0]
  /\ ret = [g \in Goroutines |-> "ok"]
  /\ sealed = {}
  /\ opened = {}

\* InitializeKey installs a key and resets n.  The keys are HKDF outputs and
\* never repeat.  It is not documented as safe beside other calls.
InitializeKey ==
  /\ Quiescent
  /\ key < MaxKeys
  /\ key' = key + 1
  /\ n' = 0
  /\ UNCHANGED <<maxNoiseNonce, calls, overlapped, locals, sealed, opened>>

\* len(cs.k) == 0: the argument is returned as it is.
PassThrough(g) ==
  /\ BeginCall(g)
  /\ key = 0
  /\ Return(g, "plain")
  /\ UNCHANGED <<key, n, maxNoiseNonce, op, arg, id, nonce, sealed, opened>>

\* cs.n.Load() == maxNoiseNonce
RejectAtLimit(g) ==
  /\ BeginCall(g)
  /\ key # 0
  /\ n = maxNoiseNonce
  /\ Return(g, "exhausted")
  /\ UNCHANGED <<key, n, maxNoiseNonce, op, arg, id, nonce, sealed, opened>>

\* Mutant: the limit test is missing.
BelowLimitDropped == TRUE

BelowLimit == n # maxNoiseNonce

\* The limit test succeeds and the call goes on to getNonce.
StartCall(g, o, c) ==
  /\ BeginCall(g)
  /\ key # 0
  /\ BelowLimit
  /\ pc' = [pc EXCEPT ![g] = "load"]
  /\ op' = [op EXCEPT ![g] = o]
  /\ arg' = [arg EXCEPT ![g] = c]
  /\ id' = [id EXCEPT ![g] = calls + 1]
  /\ UNCHANGED <<key, n, maxNoiseNonce, nonce, ret, sealed, opened>>

StartEncrypt(g) == StartCall(g, "encrypt", NoCiphertext)
StartDecrypt(g, c) == StartCall(g, "decrypt", c)

\* getNonce: ble.PutUint64(nonce[4:], cs.n.Load())
LoadNonce(g) ==
  /\ pc[g] = "load"
  /\ nonce' = [nonce EXCEPT ![g] = n]
  /\ pc' = [pc EXCEPT ![g] = "add"]
  /\ UNCHANGED <<key, n, maxNoiseNonce, calls, overlapped, op, arg, id, ret, sealed, opened>>

\* Mutant: the increment is forgotten.
AddNonceDropped(g) ==
  /\ pc[g] = "add"
  /\ pc' = [pc EXCEPT ![g] = "aead"]
  /\ UNCHANGED <<key, n, maxNoiseNonce, calls, overlapped, op, arg, id, nonce, ret, sealed, opened>>

\* Mutant: the increment stores the loaded value plus one.
AddNonceStored(g) ==
  /\ pc[g] = "add"
  /\ n' = (nonce[g] + 1) % NonceMod
  /\ pc' = [pc EXCEPT ![g] = "aead"]
  /\ UNCHANGED <<key, maxNoiseNonce, calls, overlapped, op, arg, id, nonce, ret, sealed, opened>>

\* getNonce: cs.n.Add(1)
AddNonce(g) ==
  /\ pc[g] = "add"
  /\ n' = (n + 1) % NonceMod
  /\ pc' = [pc EXCEPT ![g] = "aead"]
  /\ UNCHANGED <<key, maxNoiseNonce, calls, overlapped, op, arg, id, nonce, ret, sealed, opened>>

Use(g) == [key |-> key, nonce |-> nonce[g], id |-> id[g]]
Authentic(g) == arg[g] = [key |-> key, nonce |-> nonce[g]]

Seal(g) ==
  /\ pc[g] = "aead"
  /\ op[g] = "encrypt"
  /\ sealed' = sealed \cup {Use(g)}
  /\ Return(g, "ok")
  /\ UNCHANGED <<key, n, maxNoiseNonce, calls, overlapped, op, arg, id, nonce, opened>>

\* Mutant: the increment is taken back on success too.
OpenRollsBack(g) ==
  /\ pc[g] = "aead"
  /\ op[g] = "decrypt"
  /\ Authentic(g)
  /\ opened' = opened \cup {Use(g)}
  /\ n' = (n - 1) % NonceMod
  /\ Return(g, "ok")
  /\ UNCHANGED <<key, maxNoiseNonce, calls, overlapped, op, arg, id, nonce, sealed>>

Open(g) ==
  /\ pc[g] = "aead"
  /\ op[g] = "decrypt"
  /\ Authentic(g)
  /\ opened' = opened \cup {Use(g)}
  /\ Return(g, "ok")
  /\ UNCHANGED <<key, n, maxNoiseNonce, calls, overlapped, op, arg, id, nonce, sealed>>

\* Mutant: a rejected ciphertext keeps its nonce consumed.
OpenFailKeepsNonce(g) ==
  /\ pc[g] = "aead"
  /\ op[g] = "decrypt"
  /\ ~ Authentic(g)
  /\ Return(g, "auth")
  /\ UNCHANGED <<key, n, maxNoiseNonce, calls, overlapped, op, arg, id, nonce, sealed, opened>>

\* gcm.Open fails: cs.n.Add(^uint64(0)) takes the increment back.
OpenFail(g) ==
  /\ pc[g] = "aead"
  /\ op[g] = "decrypt"
  /\ ~ Authentic(g)
  /\ n' = (n - 1) % NonceMod
  /\ Return(g, "auth")
  /\ UNCHANGED <<key, maxNoiseNonce, calls, overlapped, op, arg, id, nonce, sealed, opened>>

Step(g) ==
  \/ PassThrough(g)
  \/ RejectAtLimit(g)
  \/ StartEncrypt(g)
  \/ \E c \in Ciphertexts : StartDecrypt(g, c)
  \/ LoadNonce(g)
  \/ AddNonce(g)
  \/ Seal(g)
  \/ Open(g)
  \/ OpenFail(g)

Next == InitializeKey \/ \E g \in Goroutines : Step(g)

Spec == Init /\ [][Next]_vars

-----------------------------------------------------------------------------
(* Properties *)

\* Every variable keeps its type.
TypeOK ==
  /\ key \in 0 .. MaxKeys
  /\ n \in Nonces
  /\ maxNoiseNonce \in MaxNonceOutcomes
  /\ calls \in 0 .. MaxCalls
  /\ overlapped \in BOOLEAN
  /\ pc \in [Goroutines -> {"idle", "load", "add", "aead"}]
  /\ op \in [Goroutines -> {"encrypt", "decrypt"}]
  /\ arg \in [Goroutines -> Ciphertexts \cup {NoCiphertext}]
  /\ id \in [Goroutines -> 0 .. MaxCalls]
  /\ nonce \in [Goroutines -> Nonces]
  /\ ret \in [Goroutines -> {"ok", "plain", "exhausted", "auth"}]
  /\ sealed \subseteq Uses
  /\ opened \subseteq Uses

\* Encrypt and Decrypt are "safe for concurrent access" and "noise doesnt
\* reuse nonces": no two calls seal with the same key and nonce.
SafeForConcurrentAccess ==
  \A u, v \in sealed : u.key = v.key /\ u.nonce = v.nonce => u = v

\* Two calls of Encrypt never seal with the same key and nonce, across resets,
\* failed decryptions and the nonce limit, as long as no calls overlap.
NoNonceReuse ==
  ~ overlapped => \A u, v \in sealed : u.key = v.key /\ u.nonce = v.nonce => u = v

\* A ciphertext is accepted by at most one call of Decrypt, although Decrypt
\* steps the counter back when a ciphertext is rejected, as long as no calls
\* overlap.
AcceptOnce ==
  ~ overlapped => \A u, v \in opened : u.key = v.key /\ u.nonce = v.nonce => u = v

UsedNonces == {u.nonce : u \in {v \in sealed \cup opened : v.key = key}}

\* Between calls that have never overlapped, the nonces used under the current
\* key are exactly those below n: neither a rejected ciphertext nor a call
\* turned away at the limit leaves a gap, which the peer's counter would never
\* follow.
NoNonceSkipped == ~ overlapped /\ Quiescent => UsedNonces = 0 .. n - 1

\* While no calls overlap, n never passes the limit.  The limit test is an
\* equality, so a counter that has stepped over it is never stopped again.
LimitNeverOvershot == ~ overlapped => n <= maxNoiseNonce

InAead == {g \in Goroutines : pc[g] = "aead"}

\* The increments and the rollbacks of overlapping calls are never lost: n
\* counts the calls that have completed under this key and those that hold a
\* nonce, modulo the width of the counter.
NoLostIncrement ==
  n = (Cardinality({u \in sealed : u.key = key})
        + Cardinality({u \in opened : u.key = key})
        + Cardinality(InAead)) % NonceMod

\* The nonce of the next call to take effect: a call takes effect when it
\* returns, and the nonce it holds until then is still current.
NextNonce ==
  IF InAead = {} THEN n ELSE nonce[CHOOSE g \in Goroutines : pc[g] = "aead"]

Atomic == INSTANCE AtomicCipher WITH n <- NextNonce, limit <- maxNoiseNonce

\* The calls of a CipherState are atomic as long as they do not overlap: the
\* separate loads, additions and rollbacks of EncryptWithAd and DecryptWithAd
\* implement the one-step calls of AtomicCipher up to the first overlap.
ImplementsAtomicCipher ==
  Atomic!Init /\ [][overlapped' \/ Atomic!Next]_(Atomic!vars)
=============================================================================
