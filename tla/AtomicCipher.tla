---------------------------- MODULE AtomicCipher ----------------------------
(***************************************************************************)
(* What a CipherState (noise.go) promises its callers: every Encrypt takes *)
(* the current nonce and moves to the next one, every Decrypt accepts only *)
(* the ciphertext sealed with the current nonce, and a rejected ciphertext *)
(* changes nothing.  Each call is a single step here; CipherState.tla has  *)
(* the separate loads and additions the code performs.                     *)
(***************************************************************************)
EXTENDS Integers

CONSTANTS
  NonceMod,   \* number of values of the counter (2^64)
  MaxKeys,    \* bound on the calls of InitializeKey
  MaxCalls    \* bound on the calls of Encrypt and Decrypt

VARIABLES
  key,      \* number of the installed key, 0 before InitializeKey
  n,        \* the next nonce
  limit,    \* the nonce at which the state stops working
  sealed,   \* [key, nonce, id] of every encryption, id naming the call
  opened    \* [key, nonce, id] of every accepted ciphertext

vars == <<key, n, limit, sealed, opened>>

Init ==
  /\ key = 0
  /\ n = 0
  /\ limit \in 0 .. NonceMod - 1
  /\ sealed = {}
  /\ opened = {}

\* A fresh key restarts the nonces.
InitializeKey ==
  /\ key' \in 1 .. MaxKeys
  /\ key' > key
  /\ n' = 0
  /\ UNCHANGED <<limit, sealed, opened>>

Encrypt(id) ==
  /\ key # 0
  /\ n < limit
  /\ sealed' = sealed \cup {[key |-> key, nonce |-> n, id |-> id]}
  /\ n' = n + 1
  /\ UNCHANGED <<key, limit, opened>>

Decrypt(id) ==
  /\ key # 0
  /\ n < limit
  /\ opened' = opened \cup {[key |-> key, nonce |-> n, id |-> id]}
  /\ n' = n + 1
  /\ UNCHANGED <<key, limit, sealed>>

Next ==
  \/ InitializeKey
  \/ \E id \in 1 .. MaxCalls : Encrypt(id) \/ Decrypt(id)

Spec == Init /\ [][Next]_vars
=============================================================================
