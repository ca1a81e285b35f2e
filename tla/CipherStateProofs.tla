------------------------- MODULE CipherStateProofs -------------------------
(***************************************************************************)
(* Theorems about CipherState.  The type invariant and its consequences    *)
(* hold however the calls overlap, and so does the count of the nonces;    *)
(* the safety of the nonces is proved up to the first call that begins     *)
(* beside another one (~ overlapped), since it does not hold after it.     *)
(***************************************************************************)
EXTENDS CipherState, FiniteSetTheorems, TLAPS

\* A goroutine inside a call found a key installed and numbered its call.
KeyedInv ==
  \A g \in Goroutines : pc[g] # "idle" => key # 0 /\ id[g] # 0

TInv == TypeOK /\ KeyedInv

\* Only one goroutine is inside a call.
TakingTurns ==
  \A g, h \in Goroutines : pc[g] # "idle" /\ pc[h] # "idle" => g = h

\* What a goroutine inside a call knows of the shared counter.
CounterInv ==
  /\ n <= maxNoiseNonce
  /\ \A g \in Goroutines :
       /\ pc[g] \in {"load", "add"} => n < maxNoiseNonce
       /\ pc[g] = "add" => nonce[g] = n
       /\ pc[g] = "aead" => n = nonce[g] + 1

\* The nonce x has been used up: it is below n and nobody is holding it.
Spent(x) ==
  /\ x < n
  /\ \A g \in Goroutines : pc[g] = "aead" => x < nonce[g]

UsedNow(x) == \E u \in sealed \cup opened : u.key = key /\ u.nonce = x

\* No key of the future has been used, and under the current key the used
\* nonces are the spent ones.
HistoryInv ==
  /\ \A u \in sealed \cup opened : u.key <= key
  /\ \A x \in Nonces : UsedNow(x) <=> Spent(x)

\* Every nonce of opened was accepted by one call.
AcceptedOnce ==
  \A u, v \in opened : u.key = v.key /\ u.nonce = v.nonce => u = v

\* What holds while no call has begun beside another one.
IInv ==
  /\ TInv
  /\ TakingTurns
  /\ CounterInv
  /\ HistoryInv
  /\ SafeForConcurrentAccess
  /\ AcceptedOnce

\* The inductive invariant.
TurnsInv == ~ overlapped => IInv

-----------------------------------------------------------------------------
(* Type correctness *)

LEMMA InitTInv == Init => TInv
<1> SUFFICES ASSUME Init PROVE TInv
  OBVIOUS
<1>1. /\ key \in 0 .. MaxKeys /\ n \in Nonces /\ maxNoiseNonce \in MaxNonceOutcomes
      /\ calls \in 0 .. MaxCalls
  BY NonceModAssumption, BoundsAssumption DEF Init, Nonces
<1>2. overlapped \in BOOLEAN
  BY Zenon DEF Init
<1> QED
  BY <1>1, <1>2, NonceModAssumption, BoundsAssumption
  DEF Init, TInv, TypeOK, KeyedInv, Nonces

\* The two places where the counter wraps stay within its values.
LEMMA CounterWraps ==
  ASSUME NEW x \in Int
  PROVE  x % NonceMod \in Nonces
  BY NonceModAssumption DEF Nonces

\* What a call that holds a nonce records is well formed.
LEMMA UseType ==
  ASSUME TInv, NEW g \in Goroutines, pc[g] # "idle"
  PROVE  Use(g) \in Uses
<1>1. key \in 1 .. MaxKeys /\ id[g] \in 1 .. MaxCalls
  BY BoundsAssumption DEF TInv, TypeOK, KeyedInv
<1> QED
  BY <1>1 DEF TInv, TypeOK, Use, Uses

LEMMA NextTInv == TInv /\ [Next]_vars => TInv'
<1> SUFFICES ASSUME TInv, [Next]_vars
             PROVE  TInv'
  OBVIOUS
<1> USE NonceModAssumption, BoundsAssumption DEF TInv, TypeOK, KeyedInv
<1>1. CASE InitializeKey
  BY <1>1 DEF InitializeKey, locals, Nonces
<1>2. ASSUME NEW g \in Goroutines, Step(g)
      PROVE  TInv'
  <2>1. CASE PassThrough(g)
    BY <2>1 DEF PassThrough, Return, BeginCall
  <2>2. CASE RejectAtLimit(g)
    BY <2>2 DEF RejectAtLimit, Return, BeginCall
  <2>3. ASSUME NEW o \in {"encrypt", "decrypt"},
               NEW c \in Ciphertexts \cup {NoCiphertext},
               StartCall(g, o, c)
        PROVE  TInv'
    BY <2>3 DEF StartCall, BeginCall
  <2>4. CASE StartEncrypt(g)
    BY <2>3, <2>4 DEF StartEncrypt
  <2>5. CASE \E c \in Ciphertexts : StartDecrypt(g, c)
    BY <2>3, <2>5 DEF StartDecrypt
  <2>6. CASE LoadNonce(g)
    BY <2>6 DEF LoadNonce
  <2>7. CASE AddNonce(g)
    <3>1. n' \in Nonces
      BY <2>7, CounterWraps DEF AddNonce, Nonces
    <3> QED
      BY <2>7, <3>1 DEF AddNonce
  <2>8. CASE Seal(g)
    BY <2>8, UseType DEF Seal, Return
  <2>9. CASE Open(g)
    BY <2>9, UseType DEF Open, Return
  <2>10. CASE OpenFail(g)
    <3>1. n' \in Nonces
      BY <2>10, CounterWraps DEF OpenFail, Nonces
    <3> QED
      BY <2>10, <3>1 DEF OpenFail, Return
  <2> QED
    BY <1>2, <2>1, <2>2, <2>4, <2>5, <2>6, <2>7, <2>8, <2>9, <2>10 DEF Step
<1>3. CASE UNCHANGED vars
  BY <1>3 DEF vars, locals
<1> QED
  BY <1>1, <1>2, <1>3 DEF Next

\* However the calls of the goroutines overlap, every variable of the
\* CipherState keeps its type: the wrapping increment and the wrapping
\* rollback leave n a value of the counter.
THEOREM TypeCorrect == Spec => []TypeOK
<1>1. TInv => TypeOK
  BY DEF TInv
<1> QED
  BY <1>1, InitTInv, NextTInv, PTL DEF Spec

-----------------------------------------------------------------------------
(* Nonce safety as long as no calls overlap *)

LEMMA InitIInv == Init => IInv
<1> SUFFICES ASSUME Init PROVE IInv
  OBVIOUS
<1>1. n <= maxNoiseNonce
  BY OutcomesAssumption, NonceModAssumption DEF Init
<1>2. \A x \in Nonces : UsedNow(x) <=> Spent(x)
  BY NonceModAssumption DEF Init, UsedNow, Spent, Nonces
<1> QED
  BY <1>1, <1>2, InitTInv
  DEF Init, IInv, TakingTurns, CounterInv, HistoryInv, SafeForConcurrentAccess, AcceptedOnce

\* A call starts only when nobody is inside one.
LEMMA StartsAlone ==
  ASSUME ~ overlapped', NEW g \in Goroutines, BeginCall(g)
  PROVE  \A h \in Goroutines : pc[h] = "idle"
  BY DEF BeginCall, Quiescent, Idle

\* An overlap is never forgotten.
LEMMA OverlapStays ==
  ASSUME [Next]_vars, ~ overlapped'
  PROVE  ~ overlapped
  BY DEF Next, Step, InitializeKey, PassThrough, RejectAtLimit, StartEncrypt, StartDecrypt,
         StartCall, BeginCall, LoadNonce, AddNonce, Seal, Open, OpenFail, vars

LEMMA LimitType ==
  ASSUME TInv
  PROVE  maxNoiseNonce \in Nonces /\ Nonces \subseteq Int
  BY OutcomesAssumption, NonceModAssumption DEF TInv, TypeOK, Nonces

\* Calls that return without a nonce, and steps that leave the counter and
\* the records alone, keep HistoryInv and the two uniqueness conjuncts.
LEMMA RecordsUnchanged ==
  ASSUME IInv, UNCHANGED <<key, n, nonce, sealed, opened>>,
         \A g \in Goroutines : pc'[g] = "aead" <=> pc[g] = "aead"
  PROVE  HistoryInv' /\ SafeForConcurrentAccess' /\ AcceptedOnce'
  BY DEF IInv, HistoryInv, SafeForConcurrentAccess, AcceptedOnce, UsedNow, Spent, Nonces

\* While g holds a nonce, the spent nonces are those below it.
LEMMA HeldNonceIsNext ==
  ASSUME NEW g \in Goroutines, pc[g] = "aead",
         \A h \in Goroutines : h # g => pc[h] = "idle",
         nonce[g] \in Int, n = nonce[g] + 1, NEW x \in Int
  PROVE  Spent(x) <=> x < nonce[g]
<1>1. (\A h \in Goroutines : pc[h] = "aead" => x < nonce[h]) <=> x < nonce[g]
  OBVIOUS
<1>2. x < nonce[g] => x < n
  OBVIOUS
<1> QED
  BY <1>1, <1>2 DEF Spent

LEMMA NextIInv ==
  ASSUME ~ overlapped', IInv, [Next]_vars
  PROVE  IInv'
<1>0. TInv' /\ TInv
  BY NextTInv DEF IInv
<1>a. maxNoiseNonce \in Int /\ \A x \in Nonces : x \in Int
  BY <1>0, LimitType
<1>c. maxNoiseNonce \in Nonces
  BY <1>0, LimitType
<1>b. /\ n \in Nonces /\ key \in Int
      /\ pc \in [Goroutines -> {"idle", "load", "add", "aead"}]
      /\ nonce \in [Goroutines -> Nonces]
      /\ sealed \subseteq Uses /\ opened \subseteq Uses
  BY <1>0, BoundsAssumption DEF TInv, TypeOK
<1>1. CASE InitializeKey
  <2>1. \A g \in Goroutines : pc[g] = "idle"
    BY <1>1 DEF InitializeKey, Quiescent, Idle
  <2>2. TakingTurns' /\ CounterInv'
    BY <1>1, <1>c, <2>1, NonceModAssumption
    DEF InitializeKey, locals, TakingTurns, CounterInv, Nonces
  <2>3. \A u \in sealed \cup opened : u.key <= key /\ u.key \in Int
    BY <1>b, BoundsAssumption DEF IInv, HistoryInv, Uses
  <2>4. HistoryInv'
    BY <1>1, <1>a, <1>b, <2>3
    DEF InitializeKey, HistoryInv, UsedNow, Spent, Nonces
  <2> QED
    BY <1>0, <1>1, <2>2, <2>4
    DEF InitializeKey, IInv, SafeForConcurrentAccess, AcceptedOnce
<1>2. ASSUME NEW g \in Goroutines, Step(g)
      PROVE  IInv'
  <2>1. CASE PassThrough(g) \/ RejectAtLimit(g)
    <3>1. UNCHANGED <<key, n, maxNoiseNonce, id, nonce, sealed, opened, pc>>
      BY <1>b, <2>1 DEF PassThrough, RejectAtLimit, Return, BeginCall, Idle
    <3> QED
      BY <1>0, <3>1, RecordsUnchanged DEF IInv, TakingTurns, CounterInv
  <2>2. ASSUME NEW o, NEW c, StartCall(g, o, c)
        PROVE  IInv'
    <3>1. \A h \in Goroutines : pc[h] = "idle"
      BY <2>2, StartsAlone DEF StartCall
    <3>2. n < maxNoiseNonce
      BY <1>a, <1>b, <2>2 DEF StartCall, BelowLimit, IInv, CounterInv
    <3>3. \A h \in Goroutines : pc'[h] = IF h = g THEN "load" ELSE "idle"
      BY <1>b, <2>2, <3>1 DEF StartCall
    <3>4. TakingTurns' /\ CounterInv'
      BY <2>2, <3>2, <3>3 DEF StartCall, IInv, TakingTurns, CounterInv
    <3> QED
      BY <1>0, <2>2, <3>1, <3>3, <3>4, RecordsUnchanged DEF StartCall, IInv
  <2>3. CASE LoadNonce(g)
    <3>1. \A h \in Goroutines : h # g => pc[h] = "idle" /\ pc'[h] = "idle"
      BY <1>b, <2>3 DEF LoadNonce, IInv, TakingTurns
    <3>2. pc'[g] = "add" /\ nonce'[g] = n
      BY <1>b, <2>3 DEF LoadNonce
    <3>3. TakingTurns' /\ CounterInv'
      BY <2>3, <3>1, <3>2 DEF LoadNonce, IInv, TakingTurns, CounterInv
    <3>4. HistoryInv'
      BY <2>3, <3>1, <3>2 DEF LoadNonce, IInv, HistoryInv, UsedNow, Spent, Nonces
    <3> QED
      BY <1>0, <2>3, <3>3, <3>4 DEF LoadNonce, IInv, SafeForConcurrentAccess, AcceptedOnce
  <2>4. CASE AddNonce(g)
    <3>1. \A h \in Goroutines : h # g => pc[h] = "idle" /\ pc'[h] = "idle"
      BY <1>b, <2>4 DEF AddNonce, IInv, TakingTurns
    <3>2. pc'[g] = "aead" /\ nonce[g] = n /\ n < maxNoiseNonce
      BY <1>b, <2>4 DEF AddNonce, IInv, CounterInv
    <3>3. n' = n + 1
      BY <1>b, <1>c, <2>4, <3>2, NonceModAssumption DEF AddNonce, Nonces
    <3>4. TakingTurns' /\ CounterInv'
      BY <1>a, <1>b, <2>4, <3>1, <3>2, <3>3
      DEF AddNonce, IInv, TakingTurns, CounterInv
    <3>5. \A x \in Nonces : Spent(x)' <=> Spent(x)
      BY <1>a, <1>b, <2>4, <3>1, <3>2, <3>3 DEF AddNonce, Spent
    <3>6. HistoryInv'
      BY <2>4, <3>5 DEF AddNonce, IInv, HistoryInv, UsedNow, Nonces
    <3> QED
      BY <1>0, <2>4, <3>4, <3>6 DEF AddNonce, IInv, SafeForConcurrentAccess, AcceptedOnce
  <2>5. CASE Seal(g) \/ Open(g)
    <3>1. \A h \in Goroutines : h # g => pc[h] = "idle"
      BY <1>b, <2>5 DEF Seal, Open, IInv, TakingTurns
    <3>2. \A h \in Goroutines : pc'[h] = "idle"
      BY <1>b, <2>5, <3>1 DEF Seal, Open, Return
    <3>3. n = nonce[g] + 1 /\ pc[g] = "aead" /\ nonce[g] \in Nonces /\ nonce[g] \in Int
      BY <1>a, <1>b, <2>5 DEF Seal, Open, IInv, CounterInv
    <3>4. TakingTurns' /\ CounterInv'
      BY <2>5, <3>2 DEF Seal, Open, IInv, TakingTurns, CounterInv
    <3>5. /\ sealed' \cup opened' = (sealed \cup opened) \cup {Use(g)}
          /\ UNCHANGED <<key, n>>
      BY <2>5 DEF Seal, Open
    <3>a. \A x \in Nonces : Spent(x) <=> x < nonce[g]
      BY <1>a, <3>1, <3>3, HeldNonceIsNext
    <3>b. \A x \in Nonces : Spent(x)' <=> x < n
      BY <3>2, <3>5 DEF Spent
    <3>6. \A x \in Nonces : Spent(x)' <=> Spent(x) \/ x = nonce[g]
      BY <1>a, <3>3, <3>a, <3>b
    <3>7. \A x : UsedNow(x)' <=> UsedNow(x) \/ x = nonce[g]
      <4>1. Use(g).key = key /\ Use(g).nonce = nonce[g]
        BY DEF Use
      <4> QED
        BY <3>5, <4>1 DEF UsedNow
    <3>8. HistoryInv'
      BY <1>b, <3>5, <3>6, <3>7 DEF IInv, HistoryInv, Use, Nonces
    <3>9. \A u \in sealed \cup opened : ~ (u.key = key /\ u.nonce = nonce[g])
      <4>1. ~ Spent(nonce[g])
        BY <1>a, <3>3, <3>a
      <4> QED
        BY <3>3, <4>1 DEF IInv, HistoryInv, UsedNow
    <3>10. SafeForConcurrentAccess' /\ AcceptedOnce'
      BY <2>5, <3>9 DEF Seal, Open, Use, IInv, SafeForConcurrentAccess, AcceptedOnce
    <3> QED
      BY <1>0, <3>4, <3>8, <3>10 DEF IInv
  <2>6. CASE OpenFail(g)
    <3>1. \A h \in Goroutines : h # g => pc[h] = "idle"
      BY <1>b, <2>6 DEF OpenFail, IInv, TakingTurns
    <3>2. \A h \in Goroutines : pc'[h] = "idle"
      BY <1>b, <2>6, <3>1 DEF OpenFail, Return
    <3>3. n = nonce[g] + 1 /\ pc[g] = "aead" /\ nonce[g] \in Nonces /\ nonce[g] \in Int
      BY <1>a, <1>b, <2>6 DEF OpenFail, IInv, CounterInv
    <3>4. n' = nonce[g]
      BY <1>a, <1>b, <2>6, <3>3, NonceModAssumption DEF OpenFail, Nonces
    <3>5. TakingTurns' /\ CounterInv'
      <4>1. n <= maxNoiseNonce
        BY DEF IInv, CounterInv
      <4>2. n' <= maxNoiseNonce'
        BY <1>a, <2>6, <3>3, <3>4, <4>1 DEF OpenFail
      <4> QED
        BY <3>2, <4>2 DEF TakingTurns, CounterInv
    <3>6. \A x \in Nonces : Spent(x)' <=> Spent(x)
      <4>1. \A x \in Nonces : Spent(x) <=> x < nonce[g]
        BY <1>a, <3>1, <3>3, HeldNonceIsNext
      <4>2. \A x \in Nonces : Spent(x)' <=> x < n'
        BY <3>2 DEF Spent
      <4> QED
        BY <3>4, <4>1, <4>2
    <3>7. HistoryInv'
      BY <2>6, <3>6 DEF OpenFail, IInv, HistoryInv, UsedNow, Nonces
    <3> QED
      BY <1>0, <2>6, <3>5, <3>7 DEF OpenFail, IInv, SafeForConcurrentAccess, AcceptedOnce
  <2> QED
    BY <1>2, <2>1, <2>2, <2>3, <2>4, <2>5, <2>6
    DEF Step, StartEncrypt, StartDecrypt
<1>3. CASE UNCHANGED vars
  <2>1. UNCHANGED <<key, n, maxNoiseNonce, pc, id, nonce, sealed, opened>>
    BY <1>3 DEF vars, locals
  <2> QED
    BY <1>0, <2>1, RecordsUnchanged DEF IInv, TakingTurns, CounterInv
<1> QED
  BY <1>1, <1>2, <1>3 DEF Next

\* Up to the first overlap the inductive invariant holds in every state.
THEOREM TurnsInvariant == Spec => []TurnsInv
<1>1. Init => TurnsInv
  BY InitIInv DEF TurnsInv
<1>2. TurnsInv /\ [Next]_vars => TurnsInv'
  BY NextIInv, OverlapStays DEF TurnsInv
<1> QED
  BY <1>1, <1>2, PTL DEF Spec

\* As long as no calls overlap, a CipherState never seals two messages with
\* the same key and nonce, whatever the keys, the rejected ciphertexts and
\* the value maxNoiseNonce was given at start-up.
THEOREM NoncesAreFresh == Spec => []NoNonceReuse
<1>1. TurnsInv => NoNonceReuse
  BY DEF TurnsInv, IInv, NoNonceReuse, SafeForConcurrentAccess
<1> QED
  BY <1>1, TurnsInvariant, PTL

\* As long as no calls overlap, DecryptWithAd accepts a ciphertext at most
\* once although it steps the counter back after a failure.
THEOREM CiphertextsAreAcceptedOnce == Spec => []AcceptOnce
<1>1. TurnsInv => AcceptOnce
  BY DEF TurnsInv, IInv, AcceptOnce, AcceptedOnce
<1> QED
  BY <1>1, TurnsInvariant, PTL

\* As long as no calls overlap the equality test of EncryptWithAd and
\* DecryptWithAd is enough to keep the counter from passing its limit.
THEOREM CounterStopsAtLimit == Spec => []LimitNeverOvershot
<1>1. TurnsInv => LimitNeverOvershot
  BY DEF TurnsInv, IInv, CounterInv, LimitNeverOvershot
<1> QED
  BY <1>1, TurnsInvariant, PTL

\* As long as no calls overlap, the nonces used under the current key are,
\* between two calls, exactly those below n: a rejected ciphertext leaves no
\* gap between the two peers' counters.
THEOREM NoncesAreConsecutive == Spec => []NoNonceSkipped
<1>1. TurnsInv => NoNonceSkipped
  <2> SUFFICES ASSUME IInv, Quiescent
               PROVE  UsedNonces = 0 .. n - 1
    BY DEF TurnsInv, NoNonceSkipped
  <2>1. n \in Nonces /\ sealed \subseteq Uses /\ opened \subseteq Uses
    BY DEF IInv, TInv, TypeOK
  <2>2. \A x \in Nonces : Spent(x) <=> x < n
    BY DEF Spent, Quiescent, Idle
  <2>3. \A x : UsedNow(x) => x \in Nonces
    BY <2>1 DEF UsedNow, Uses
  <2>4. \A x : UsedNow(x) <=> x \in Nonces /\ x < n
    BY <2>2, <2>3 DEF IInv, HistoryInv
  <2>5. \A x : x \in UsedNonces <=> UsedNow(x)
    BY DEF UsedNonces, UsedNow
  <2>6. \A x : x \in Nonces /\ x < n <=> x \in 0 .. n - 1
    BY <2>1, NonceModAssumption DEF Nonces
  <2> QED
    BY <2>4, <2>5, <2>6
<1> QED
  BY <1>1, TurnsInvariant, PTL

-----------------------------------------------------------------------------
(* The calls are atomic *)

LEMMA TheHolder ==
  ASSUME NEW f, NEW g \in Goroutines, f[g] = "aead",
         \A h \in Goroutines : f[h] = "aead" => h = g
  PROVE  (CHOOSE h \in Goroutines : f[h] = "aead") = g
  OBVIOUS

\* NextNonce before and after a step, by whether a nonce is held.
LEMMA NextNonceFree ==
  /\ (\A g \in Goroutines : pc[g] # "aead") => NextNonce = n
  /\ (\A g \in Goroutines : pc'[g] # "aead") => NextNonce' = n'
  BY DEF NextNonce, InAead

LEMMA NextNonceHeld ==
  ASSUME NEW g \in Goroutines
  PROVE  /\ pc[g] = "aead" /\ (\A h \in Goroutines : pc[h] = "aead" => h = g)
            => NextNonce = nonce[g]
         /\ pc'[g] = "aead" /\ (\A h \in Goroutines : pc'[h] = "aead" => h = g)
            => NextNonce' = nonce'[g]
<1>1. ASSUME pc[g] = "aead", \A h \in Goroutines : pc[h] = "aead" => h = g
      PROVE  NextNonce = nonce[g]
  BY <1>1, TheHolder DEF NextNonce, InAead
<1>2. ASSUME pc'[g] = "aead", \A h \in Goroutines : pc'[h] = "aead" => h = g
      PROVE  NextNonce' = nonce'[g]
  BY <1>2, TheHolder DEF NextNonce, InAead
<1> QED
  BY <1>1, <1>2

LEMMA InitImplements == Init => Atomic!Init
  BY NextNonceFree, OutcomesAssumption DEF Init, Atomic!Init

LEMMA NextImplements ==
  ASSUME ~ overlapped', IInv, IInv', [Next]_vars
  PROVE  [Atomic!Next]_(Atomic!vars)
<1> USE DEF Atomic!vars
<1>0. TInv
  BY DEF IInv
<1>a. maxNoiseNonce \in Int /\ \A x \in Nonces : x \in Int
  BY <1>0, LimitType
<1>b. /\ key \in 0 .. MaxKeys /\ calls \in 0 .. MaxCalls
      /\ pc \in [Goroutines -> {"idle", "load", "add", "aead"}]
      /\ nonce \in [Goroutines -> Nonces]
      /\ id \in [Goroutines -> 0 .. MaxCalls]
  BY <1>0 DEF TInv, TypeOK
<1>1. CASE InitializeKey
  <2>1. NextNonce' = 0
    BY <1>1, NextNonceFree DEF InitializeKey, locals, Quiescent, Idle
  <2>2. key' \in 1 .. MaxKeys /\ key' > key
    BY <1>1, <1>b, BoundsAssumption DEF InitializeKey
  <2>3. Atomic!InitializeKey
    BY <1>1, <2>1, <2>2 DEF InitializeKey, Atomic!InitializeKey
  <2> QED
    BY <2>3 DEF Atomic!Next
<1>2. ASSUME NEW g \in Goroutines, Step(g)
      PROVE  [Atomic!Next]_(Atomic!vars)
  <2>1. CASE PassThrough(g) \/ RejectAtLimit(g)
    <3>1. UNCHANGED <<key, n, maxNoiseNonce, nonce, sealed, opened, pc>>
      BY <1>b, <2>1 DEF PassThrough, RejectAtLimit, Return, BeginCall, Idle
    <3> QED
      BY <3>1 DEF NextNonce, InAead
  <2>2. ASSUME NEW o, NEW c, StartCall(g, o, c)
        PROVE  UNCHANGED Atomic!vars
    <3>1. \A h \in Goroutines : pc[h] = "idle"
      BY <2>2, StartsAlone DEF StartCall
    <3>2. \A h \in Goroutines : pc'[h] # "aead"
      BY <1>b, <2>2, <3>1 DEF StartCall
    <3> QED
      BY <2>2, <3>1, <3>2, NextNonceFree DEF StartCall
  <2>3. CASE LoadNonce(g)
    <3>1. \A h \in Goroutines : pc[h] # "aead" /\ pc'[h] # "aead"
      BY <1>b, <2>3 DEF LoadNonce, IInv, TakingTurns
    <3> QED
      BY <2>3, <3>1, NextNonceFree DEF LoadNonce
  <2>4. CASE AddNonce(g)
    <3>1. /\ \A h \in Goroutines : pc[h] # "aead"
          /\ pc'[g] = "aead"
          /\ \A h \in Goroutines : pc'[h] = "aead" => h = g
      BY <1>b, <2>4 DEF AddNonce, IInv, TakingTurns
    <3>2. nonce[g] = n
      BY <2>4 DEF AddNonce, IInv, CounterInv
    <3> QED
      BY <2>4, <3>1, <3>2, NextNonceFree, NextNonceHeld DEF AddNonce
  <2>5. ASSUME pc[g] = "aead", pc' = [pc EXCEPT ![g] = "idle"]
        PROVE  /\ NextNonce = nonce[g] /\ NextNonce' = n'
               /\ n = nonce[g] + 1 /\ nonce[g] \in Int
               /\ key # 0 /\ id[g] \in 1 .. MaxCalls
    <3>1. \A h \in Goroutines : h # g => pc[h] = "idle"
      BY <2>5 DEF IInv, TakingTurns
    <3>2. \A h \in Goroutines : pc'[h] # "aead"
      BY <1>b, <2>5, <3>1
    <3>3. NextNonce = nonce[g] /\ NextNonce' = n'
      BY <2>5, <3>1, <3>2, NextNonceFree, NextNonceHeld
    <3>4. n = nonce[g] + 1 /\ nonce[g] \in Int
      BY <1>a, <1>b, <2>5 DEF IInv, CounterInv
    <3>5. key # 0 /\ id[g] \in 1 .. MaxCalls
      BY <1>0, <1>b, <2>5, BoundsAssumption DEF TInv, KeyedInv
    <3> QED
      BY <3>3, <3>4, <3>5
  <2>6. CASE Seal(g)
    <3>1. NextNonce < maxNoiseNonce /\ NextNonce' = NextNonce + 1
      BY <1>a, <2>5, <2>6 DEF Seal, Return, IInv, CounterInv
    <3>2. Atomic!Encrypt(id[g])
      BY <2>5, <2>6, <3>1 DEF Seal, Return, Use, Atomic!Encrypt
    <3> QED
      BY <2>5, <2>6, <3>2 DEF Seal, Return, Atomic!Next
  <2>7. CASE Open(g)
    <3>1. NextNonce < maxNoiseNonce /\ NextNonce' = NextNonce + 1
      BY <1>a, <2>5, <2>7 DEF Open, Return, IInv, CounterInv
    <3>2. Atomic!Decrypt(id[g])
      BY <2>5, <2>7, <3>1 DEF Open, Return, Use, Atomic!Decrypt
    <3> QED
      BY <2>5, <2>7, <3>2 DEF Open, Return, Atomic!Next
  <2>8. CASE OpenFail(g)
    <3>1. n' = nonce[g]
      <4>1. nonce[g] \in Nonces
        BY <1>b
      <4> QED
        BY <2>5, <2>8, <4>1, NonceModAssumption DEF OpenFail, Return, Nonces
    <3> QED
      BY <2>5, <2>8, <3>1 DEF OpenFail, Return
  <2> QED
    BY <1>2, <2>1, <2>2, <2>3, <2>4, <2>6, <2>7, <2>8
    DEF Step, StartEncrypt, StartDecrypt
<1>3. CASE UNCHANGED vars
  BY <1>3 DEF vars, locals, NextNonce, InAead
<1> QED
  BY <1>1, <1>2, <1>3 DEF Next

\* As long as no calls overlap, the loads, additions and rollbacks of
\* EncryptWithAd and DecryptWithAd implement one-step calls: a call takes
\* effect when it returns, and a rejected ciphertext has no effect at all.
THEOREM CallsAreAtomic == Spec => ImplementsAtomicCipher
<1>1. TurnsInv /\ TurnsInv' /\ [Next]_vars => [overlapped' \/ Atomic!Next]_(Atomic!vars)
  BY NextImplements, OverlapStays DEF TurnsInv
<1> QED
  BY <1>1, TurnsInvariant, InitImplements, PTL DEF Spec, ImplementsAtomicCipher

-----------------------------------------------------------------------------
(* Overlapping calls lose no increment *)

SealedNow == {u \in sealed : u.key = key}
OpenedNow == {u \in opened : u.key = key}

\* Every call has a number of its own, which its record carries; no key of
\* the future has been used.
NumberInv ==
  /\ \A g \in Goroutines : pc[g] # "idle" => id[g] <= calls
  /\ \A g, h \in Goroutines : pc[g] # "idle" /\ pc[h] # "idle" /\ id[g] = id[h] => g = h
  /\ \A u \in sealed \cup opened : u.id <= calls /\ u.key <= key
  /\ \A u \in sealed \cup opened : \A g \in Goroutines : pc[g] # "idle" => u.id # id[g]

FiniteInv == IsFiniteSet(SealedNow) /\ IsFiniteSet(OpenedNow) /\ IsFiniteSet(InAead)

Total == Cardinality(SealedNow) + Cardinality(OpenedNow) + Cardinality(InAead)

\* n is what is left of Total by whole rounds of the counter.
RoundsInv == \E rounds \in Int : Total = rounds * NonceMod + n

\* The inductive invariant, for calls that overlap.
CInv == TInv /\ NumberInv /\ FiniteInv /\ RoundsInv

LEMMA InitCInv == Init => CInv
<1> SUFFICES ASSUME Init PROVE CInv
  OBVIOUS
<1>1. TInv
  BY InitTInv
<1>2. NumberInv
  BY DEF Init, NumberInv
<1>3. SealedNow = {} /\ OpenedNow = {} /\ InAead = {}
  BY DEF Init, SealedNow, OpenedNow, InAead
<1>4. FiniteInv /\ Total = 0
  BY <1>3, FS_EmptySet DEF FiniteInv, Total
<1>5. RoundsInv
  <2>1. Total = 0 * NonceMod + n
    BY <1>4, NonceModAssumption DEF Init
  <2> QED
    BY <2>1 DEF RoundsInv
<1> QED
  BY <1>1, <1>2, <1>4, <1>5 DEF CInv

LEMMA NextNumberInv ==
  ASSUME TInv, NumberInv, [Next]_vars
  PROVE  NumberInv'
<1> USE BoundsAssumption DEF TInv, TypeOK, KeyedInv, NumberInv
<1>1. CASE InitializeKey
  <2>1. key' = key + 1 /\ UNCHANGED <<calls, pc, id, sealed, opened>>
    BY <1>1 DEF InitializeKey, locals
  <2>2. \A u \in sealed \cup opened : u.key <= key + 1
    BY DEF Uses
  <2> QED
    BY <2>1, <2>2
<1>2. ASSUME NEW g \in Goroutines, Step(g)
      PROVE  NumberInv'
  <2>1. \A u \in sealed \cup opened : u.id \in Nat /\ u.key \in Nat
    BY DEF Uses
  <2>2. ASSUME NEW o, NEW c, StartCall(g, o, c)
        PROVE  NumberInv'
    <3>1. /\ calls' = calls + 1 /\ pc' = [pc EXCEPT ![g] = "load"]
          /\ id' = [id EXCEPT ![g] = calls + 1] /\ UNCHANGED <<key, sealed, opened>>
      BY <2>2 DEF StartCall, BeginCall
    <3>2. \A u \in sealed \cup opened : u.id <= calls + 1 /\ u.id # calls + 1
      BY <2>1
    <3>3. \A h \in Goroutines : pc[h] # "idle" => id[h] <= calls + 1 /\ id[h] # calls + 1
      OBVIOUS
    <3> QED
      BY <3>1, <3>2, <3>3
  <2>3. CASE PassThrough(g) \/ RejectAtLimit(g)
    <3>1. /\ calls' = calls + 1 /\ pc' = [pc EXCEPT ![g] = "idle"] /\ UNCHANGED <<id, key, sealed, opened>>
      BY <2>3 DEF PassThrough, RejectAtLimit, BeginCall, Return
    <3>2. \A u \in sealed \cup opened : u.id <= calls + 1
      BY <2>1
    <3>3. \A h \in Goroutines : pc[h] # "idle" => id[h] <= calls + 1
      OBVIOUS
    <3> QED
      BY <3>1, <3>2, <3>3
  <2>4. CASE LoadNonce(g) \/ AddNonce(g)
    BY <2>4 DEF LoadNonce, AddNonce
  <2>5. CASE Seal(g) \/ Open(g)
    <3>1. /\ pc[g] = "aead" /\ pc' = [pc EXCEPT ![g] = "idle"] /\ UNCHANGED <<calls, id, key>>
          /\ sealed' \cup opened' = (sealed \cup opened) \cup {Use(g)}
      BY <2>5 DEF Seal, Open, Return
    <3>2. Use(g).id = id[g] /\ Use(g).key = key
      BY DEF Use
    <3>3. ASSUME NEW u \in sealed' \cup opened'
          PROVE  /\ u.id <= calls' /\ u.key <= key'
                 /\ \A h \in Goroutines : pc'[h] # "idle" => u.id # id'[h]
      <4>1. CASE u \in sealed \cup opened
        BY <3>1, <4>1
      <4>2. CASE u = Use(g)
        BY <3>1, <3>2, <4>2
      <4> QED
        BY <3>1, <4>1, <4>2
    <3> QED
      BY <3>1, <3>3
  <2>6. CASE OpenFail(g)
    BY <2>6 DEF OpenFail, Return
  <2> QED
    BY <1>2, <2>2, <2>3, <2>4, <2>5, <2>6 DEF Step, StartEncrypt, StartDecrypt
<1>3. CASE UNCHANGED vars
  BY <1>3 DEF vars, locals
<1> QED
  BY <1>1, <1>2, <1>3 DEF Next

\* A step of the counter by one is a step of the total by one.
LEMMA RoundsUp ==
  ASSUME NEW t \in Int, NEW q \in Int, NEW x \in Nonces, t = q * NonceMod + x
  PROVE  \E r \in Int : t + 1 = r * NonceMod + ((x + 1) % NonceMod)
<1>1. NonceMod \in Nat /\ NonceMod > 0 /\ x \in 0 .. NonceMod - 1
  BY NonceModAssumption DEF Nonces
<1>2. CASE x = NonceMod - 1
  <2>1. (x + 1) % NonceMod = 0
    BY <1>1, <1>2
  <2>2. (q + 1) * NonceMod = q * NonceMod + NonceMod
    BY <1>1
  <2>3. q * NonceMod \in Int
    BY <1>1
  <2>4. t + 1 = (q + 1) * NonceMod + 0
    BY <1>1, <1>2, <2>2, <2>3
  <2> QED
    BY <2>1, <2>4
<1>3. CASE x # NonceMod - 1
  <2>1. (x + 1) % NonceMod = x + 1
    BY <1>1, <1>3
  <2>2. q * NonceMod \in Int
    BY <1>1
  <2>3. t + 1 = q * NonceMod + (x + 1)
    BY <1>1, <2>2
  <2> QED
    BY <2>1, <2>3
<1> QED
  BY <1>2, <1>3

LEMMA RoundsDown ==
  ASSUME NEW t \in Int, NEW q \in Int, NEW x \in Nonces, t = q * NonceMod + x
  PROVE  \E r \in Int : t - 1 = r * NonceMod + ((x - 1) % NonceMod)
<1>1. NonceMod \in Nat /\ NonceMod > 0 /\ x \in 0 .. NonceMod - 1
  BY NonceModAssumption DEF Nonces
<1>2. CASE x = 0
  <2>1. (x - 1) % NonceMod = NonceMod - 1
    BY <1>1, <1>2
  <2>2. (q - 1) * NonceMod = q * NonceMod - NonceMod
    BY <1>1
  <2>3. q * NonceMod \in Int
    BY <1>1
  <2>4. t - 1 = (q - 1) * NonceMod + (NonceMod - 1)
    BY <1>1, <1>2, <2>2, <2>3
  <2> QED
    BY <2>1, <2>4
<1>3. CASE x # 0
  <2>1. (x - 1) % NonceMod = x - 1
    BY <1>1, <1>3
  <2>2. q * NonceMod \in Int
    BY <1>1
  <2>3. t - 1 = q * NonceMod + (x - 1)
    BY <1>1, <2>2
  <2> QED
    BY <2>1, <2>3
<1> QED
  BY <1>2, <1>3

LEMMA CountTypes ==
  ASSUME FiniteInv
  PROVE  /\ Cardinality(SealedNow) \in Nat /\ Cardinality(OpenedNow) \in Nat
         /\ Cardinality(InAead) \in Nat /\ Total \in Nat
  BY FS_CardinalityType DEF FiniteInv, Total

\* A record that is new counts.
LEMMA NewRecord ==
  ASSUME CInv, NEW g \in Goroutines, pc[g] = "aead"
  PROVE  /\ Use(g) \notin SealedNow /\ Use(g) \notin OpenedNow
         /\ {u \in sealed \cup {Use(g)} : u.key = key} = SealedNow \cup {Use(g)}
         /\ {u \in opened \cup {Use(g)} : u.key = key} = OpenedNow \cup {Use(g)}
<1>1. Use(g).id = id[g] /\ Use(g).key = key
  BY DEF Use
<1>2. \A u \in sealed \cup opened : u.id # id[g]
  BY DEF CInv, NumberInv
<1> QED
  BY <1>1, <1>2 DEF SealedNow, OpenedNow

LEMMA NextCounts ==
  ASSUME CInv, [Next]_vars
  PROVE  FiniteInv' /\ RoundsInv'
<1>0. /\ TInv /\ FiniteInv /\ pc \in [Goroutines -> {"idle", "load", "add", "aead"}] /\ n \in Nonces
      /\ Total \in Nat
  BY CountTypes DEF CInv, TInv, TypeOK
<1>1. PICK q \in Int : Total = q * NonceMod + n
  BY DEF CInv, RoundsInv
<1>2. ASSUME SealedNow' = SealedNow, OpenedNow' = OpenedNow, InAead' = InAead, n' = n
      PROVE  FiniteInv' /\ RoundsInv'
  BY <1>1, <1>2 DEF CInv, FiniteInv, RoundsInv, Total
<1>3. CASE UNCHANGED vars
  BY <1>2, <1>3 DEF vars, locals, SealedNow, OpenedNow, InAead
<1>4. CASE InitializeKey
  <2>1. key' = key + 1 /\ n' = 0 /\ UNCHANGED <<pc, sealed, opened>> /\ Quiescent
    BY <1>4 DEF InitializeKey, locals
  <2>2. \A u \in sealed \cup opened : u.key # key + 1
    BY DEF CInv, NumberInv, TInv, TypeOK, Uses
  <2>3. SealedNow' = {} /\ OpenedNow' = {} /\ InAead' = {}
    BY <2>1, <2>2 DEF SealedNow, OpenedNow, InAead, Quiescent, Idle
  <2>4. FiniteInv' /\ Total' = 0
    BY <2>3, FS_EmptySet DEF FiniteInv, Total
  <2>5. Total' = 0 * NonceMod + n'
    BY <2>1, <2>4, NonceModAssumption
  <2> QED
    BY <2>4, <2>5 DEF RoundsInv
<1>5. ASSUME NEW g \in Goroutines, Step(g)
      PROVE  FiniteInv' /\ RoundsInv'
  <2>1. CASE PassThrough(g) \/ RejectAtLimit(g)
    <3>1. /\ pc[g] = "idle" /\ pc' = [pc EXCEPT ![g] = "idle"] /\ UNCHANGED <<key, n, sealed, opened>>
      BY <2>1 DEF PassThrough, RejectAtLimit, BeginCall, Idle, Return
    <3> QED
      BY <1>0, <1>2, <3>1 DEF SealedNow, OpenedNow, InAead
  <2>2. ASSUME NEW o, NEW c, StartCall(g, o, c)
        PROVE  FiniteInv' /\ RoundsInv'
    <3>1. /\ pc[g] = "idle" /\ pc' = [pc EXCEPT ![g] = "load"] /\ UNCHANGED <<key, n, sealed, opened>>
      BY <2>2 DEF StartCall, BeginCall, Idle
    <3> QED
      BY <1>0, <1>2, <3>1 DEF SealedNow, OpenedNow, InAead
  <2>3. CASE LoadNonce(g)
    <3>1. /\ pc[g] = "load" /\ pc' = [pc EXCEPT ![g] = "add"] /\ UNCHANGED <<key, n, sealed, opened>>
      BY <2>3 DEF LoadNonce
    <3> QED
      BY <1>0, <1>2, <3>1 DEF SealedNow, OpenedNow, InAead
  <2>4. CASE AddNonce(g)
    <3>1. /\ pc[g] = "add" /\ pc' = [pc EXCEPT ![g] = "aead"] /\ n' = (n + 1) % NonceMod
          /\ UNCHANGED <<key, sealed, opened>>
      BY <2>4 DEF AddNonce
    <3>2. SealedNow' = SealedNow /\ OpenedNow' = OpenedNow /\ InAead' = InAead \cup {g} /\ g \notin InAead
      BY <1>0, <3>1 DEF SealedNow, OpenedNow, InAead
    <3>3. IsFiniteSet(InAead') /\ Cardinality(InAead') = Cardinality(InAead) + 1
      BY <1>0, <3>2, FS_AddElement DEF FiniteInv
    <3>4. FiniteInv' /\ Total' = Total + 1
      BY <1>0, <3>2, <3>3, CountTypes DEF FiniteInv, Total
    <3> QED
      BY <1>0, <1>1, <3>1, <3>4, RoundsUp DEF RoundsInv
  <2>5. CASE Seal(g) \/ Open(g)
    <3>1. /\ pc[g] = "aead" /\ pc' = [pc EXCEPT ![g] = "idle"] /\ UNCHANGED <<key, n>>
          /\ \/ sealed' = sealed \cup {Use(g)} /\ opened' = opened
             \/ opened' = opened \cup {Use(g)} /\ sealed' = sealed
      BY <2>5 DEF Seal, Open, Return
    <3>2. InAead' = InAead \ {g} /\ g \in InAead
      BY <1>0, <3>1 DEF InAead
    <3>3. IsFiniteSet(InAead') /\ Cardinality(InAead') = Cardinality(InAead) - 1
      BY <1>0, <3>2, FS_RemoveElement DEF FiniteInv
    <3>4. CASE sealed' = sealed \cup {Use(g)} /\ opened' = opened
      <4>1. SealedNow' = SealedNow \cup {Use(g)} /\ Use(g) \notin SealedNow /\ OpenedNow' = OpenedNow
        BY <3>1, <3>4, NewRecord DEF SealedNow, OpenedNow
      <4>2. IsFiniteSet(SealedNow') /\ Cardinality(SealedNow') = Cardinality(SealedNow) + 1
        BY <1>0, <4>1, FS_AddElement DEF FiniteInv
      <4>3. FiniteInv' /\ Total' = Total
        BY <1>0, <3>3, <4>1, <4>2, CountTypes DEF FiniteInv, Total
      <4> QED
        BY <1>1, <3>1, <4>3 DEF RoundsInv
    <3>5. CASE opened' = opened \cup {Use(g)} /\ sealed' = sealed
      <4>1. OpenedNow' = OpenedNow \cup {Use(g)} /\ Use(g) \notin OpenedNow /\ SealedNow' = SealedNow
        BY <3>1, <3>5, NewRecord DEF SealedNow, OpenedNow
      <4>2. IsFiniteSet(OpenedNow') /\ Cardinality(OpenedNow') = Cardinality(OpenedNow) + 1
        BY <1>0, <4>1, FS_AddElement DEF FiniteInv
      <4>3. FiniteInv' /\ Total' = Total
        BY <1>0, <3>3, <4>1, <4>2, CountTypes DEF FiniteInv, Total
      <4> QED
        BY <1>1, <3>1, <4>3 DEF RoundsInv
    <3> QED
      BY <3>1, <3>4, <3>5
  <2>6. CASE OpenFail(g)
    <3>1. /\ pc[g] = "aead" /\ pc' = [pc EXCEPT ![g] = "idle"] /\ n' = (n - 1) % NonceMod
          /\ UNCHANGED <<key, sealed, opened>>
      BY <2>6 DEF OpenFail, Return
    <3>2. SealedNow' = SealedNow /\ OpenedNow' = OpenedNow /\ InAead' = InAead \ {g} /\ g \in InAead
      BY <1>0, <3>1 DEF SealedNow, OpenedNow, InAead
    <3>3. IsFiniteSet(InAead') /\ Cardinality(InAead') = Cardinality(InAead) - 1
      BY <1>0, <3>2, FS_RemoveElement DEF FiniteInv
    <3>4. FiniteInv' /\ Total' = Total - 1
      BY <1>0, <3>2, <3>3, CountTypes DEF FiniteInv, Total
    <3> QED
      BY <1>0, <1>1, <3>1, <3>4, RoundsDown DEF RoundsInv
  <2> QED
    BY <1>5, <2>1, <2>2, <2>3, <2>4, <2>5, <2>6 DEF Step, StartEncrypt, StartDecrypt
<1> QED
  BY <1>3, <1>4, <1>5 DEF Next

\* What is left of a number by whole multiples of the modulus.
LEMMA Remainder ==
  ASSUME NEW m \in Nat, m > 0, NEW q \in Int, NEW r \in 0 .. m - 1
  PROVE  (q * m + r) % m = r
<1> DEFINE x == q * m + r
           y == x \div m
           z == x % m
<1>1. x \in Int /\ y \in Int /\ z \in 0 .. m - 1 /\ x = m * y + z
  OBVIOUS
<1>2. (q - y) * m = z - r
  BY <1>1
<1>3. CASE q - y >= 1
  <2>1. (q - y) * m >= m
    BY <1>1, <1>3
  <2> QED
    BY <1>1, <1>2, <2>1
<1>4. CASE q - y <= -1
  <2>1. (q - y) * m <= -m
    BY <1>1, <1>4
  <2> QED
    BY <1>1, <1>2, <2>1
<1>5. CASE q - y = 0
  BY <1>1, <1>2, <1>5
<1> QED
  BY <1>1, <1>3, <1>4, <1>5

\* However the calls of any number of goroutines overlap, the counter of a
\* CipherState loses neither the Add of getNonce nor the one that takes it
\* back: it is, modulo its width, the number of calls that succeeded under
\* the current key and of those that hold a nonce.
THEOREM IncrementsAreKept == Spec => []NoLostIncrement
<1>1. CInv /\ [Next]_vars => CInv'
  BY NextTInv, NextNumberInv, NextCounts DEF CInv
<1>2. CInv => NoLostIncrement
  <2> SUFFICES ASSUME CInv PROVE NoLostIncrement
    OBVIOUS
  <2>1. PICK q \in Int : Total = q * NonceMod + n
    BY DEF CInv, RoundsInv
  <2>2. n \in 0 .. NonceMod - 1 /\ NonceMod \in Nat /\ NonceMod > 0
    BY NonceModAssumption DEF CInv, TInv, TypeOK, Nonces
  <2>3. Total % NonceMod = n
    BY <2>1, <2>2, Remainder
  <2> QED
    BY <2>3 DEF NoLostIncrement, Total, SealedNow, OpenedNow
<1> QED
  BY <1>1, <1>2, InitCInv, PTL DEF Spec
=============================================================================
