--------------------------- MODULE GrinderProofs ---------------------------
(***************************************************************************)
(* Theorems about Grinder, for any number of workers, any capacity of the  *)
(* channel and any curve: no result is lost, what main prints restores the *)
(* key that was found, and a keypair that holds a private key is           *)
(* consistent whatever was loaded into it.                                 *)
(***************************************************************************)
EXTENDS Grinder, FiniteSetTheorems, SequenceTheorems, TLAPS

\* What a worker reports for a key that it found.
Results ==
  {[pubKey |-> SerializeAuthorityKey(GetXCoord(key.priv)), priv |-> key.priv,
    auxRand |-> key.enc.auxRand, caseNum |-> key.enc.caseNum] :
     key \in {k \in EllswiftCreate : GetXCoord(k.priv) \in Vanity}}

\* What is stored of a result.
Stored(r) == <<r.priv, r.auxRand, r.caseNum>>

TInv ==
  /\ wpc \in [Workers -> {"select", "create", "send", "done"}]
  /\ DOMAIN res = Workers
  /\ \A w \in Workers : wpc[w] = "send" => res[w] \in Results
  /\ resultChan \in Seq(Results)
  /\ resColl \in Seq(Results)
  /\ cancelled \in BOOLEAN
  /\ mpc \in {"receive", "print", "wait", "exit"}
  /\ printed \in Seq(Seq(Nat))
  /\ finds \in Nat

\* Main leaves its loop, and cancels, exactly when it has its results.
MainInv ==
  /\ Len(resultChan) <= maxResults
  /\ cancelled <=> mpc # "receive"
  /\ IF mpc = "receive" THEN Len(resColl) < maxResults ELSE Len(resColl) = maxResults
  /\ mpc = "receive" => printed = <<>>

Sending == {w \in Workers : wpc[w] = "send"}

CountInv == Len(resColl) + Len(resultChan) + Cardinality(Sending) = finds

PrintInv ==
  /\ Len(printed) <= Len(resColl)
  /\ \A i \in 1 .. Len(printed) : printed[i] = Stored(resColl[i])

\* k is what its own stored form recreates.
Recreatable(k) ==
  /\ k.private \in Nat /\ k.auxRand \in Nat /\ k.caseNum \in Nat
  /\ k # Nil
  /\ NewKeypairFrom(k.private, k.auxRand, k.caseNum) = k

\* k has neither a private key nor an encoding.
Keyless(k) == k.private = Nil /\ k.ellswift = Nil

LoadInv ==
  /\ {"private", "ellswift"} \subseteq DOMAIN kp
  /\ loadRet # "panic" => Recreatable(kp) \/ Keyless(kp)
  /\ loadRet = "error" => kp.private = Nil
  /\ PrintedKeysRestore

\* The inductive invariant.
IInv == TInv /\ MainInv /\ CountInv /\ PrintInv /\ LoadInv

-----------------------------------------------------------------------------
(* Keys and keypairs *)

LEMMA ModTwice ==
  ASSUME NEW b \in Nat, NEW m \in Nat \ {0}
  PROVE  b % m \in 0 .. m - 1 /\ (b % m) % m = b % m
  OBVIOUS

LEMMA XCoordType ==
  ASSUME NEW p \in 0 .. Order - 1
  PROVE  p \in Nat /\ GetXCoord(p) \in Nat /\ PrivKeyFromBytes(p) = p
  <1>1. p \in Nat
    OBVIOUS
  <1>2. Order \in Nat \ {0}
    BY CurveAssumption
  <1>3. p % Order = p
    BY <1>1, <1>2
  <1>4. GetXCoord(p) \in Nat
    BY <1>1, <1>2 DEF GetXCoord
  <1> QED
    BY <1>1, <1>3, <1>4 DEF PrivKeyFromBytes

\* An encoding that exists is one of the x-coordinate it was asked for.
LEMMA EncodingType ==
  ASSUME NEW x \in Nat, NEW a \in Nat, NEW c \in Nat,
         XElligatorSwiftAux(x, a, c) # Nil
  PROVE  /\ XElligatorSwiftAux(x, a, c) \in [u : Nat, t : [u : Nat, x : Nat, c : Nat]]
         /\ XElligatorSwiftAux(x, a, c).t.x = x
  <1>1. FieldVal(a) \in Nat
    BY CurveAssumption, ModTwice DEF FieldVal
  <1>2. c % NumCases \in Nat
    BY CurveAssumption, ModTwice
  <1>3. XElligatorSwiftAux(x, a, c)
          = [u |-> FieldVal(a), t |-> [u |-> FieldVal(a), x |-> x, c |-> c % NumCases]]
    BY DEF XElligatorSwiftAux, XSwiftECInv
  <1> QED
    BY <1>1, <1>2, <1>3

\* NewKeypairFrom, and once more from what the keypair it made stores.
LEMMA NewKeypairFromIsRecreatable ==
  ASSUME NEW b \in Nat, NEW a \in Nat, NEW c \in Nat,
         NewKeypairFrom(b, a, c) # Nil
  PROVE  LET k == NewKeypairFrom(b, a, c)
         IN  /\ k \in Keypairs
             /\ k.private = PrivKeyFromBytes(b)
             /\ k.private \in 0 .. Order - 1
             /\ k.public = k.private
             /\ k.publicX = GetXCoord(k.private)
             /\ k.ellswift.t.x = k.publicX
             /\ k.auxRand = a /\ k.caseNum = c
             /\ Recreatable(k)
  <1> DEFINE p == PrivKeyFromBytes(b)
             k == NewKeypairFrom(b, a, c)
             e == XElligatorSwiftAux(GetXCoord(p), a, c)
  <1>1. p \in 0 .. Order - 1
    BY CurveAssumption, ModTwice DEF PrivKeyFromBytes
  <1>2. p \in Nat /\ GetXCoord(p) \in Nat /\ PrivKeyFromBytes(p) = p
    BY <1>1, XCoordType
  <1>3. e # Nil
    BY DEF NewKeypairFrom, EllswiftRecreateFromBytes
  <1>4. k = [private |-> p, public |-> p, publicX |-> GetXCoord(p),
             ellswift |-> e, auxRand |-> a, caseNum |-> c]
    BY <1>3 DEF NewKeypairFrom, EllswiftRecreateFromBytes
  <1>5. e \in [u : Nat, t : [u : Nat, x : Nat, c : Nat]] /\ e.t.x = GetXCoord(p)
    BY <1>2, <1>3, EncodingType
  <1>6. NewKeypairFrom(p, a, c) = k
    BY <1>2 DEF NewKeypairFrom, EllswiftRecreateFromBytes
  <1> HIDE DEF p, k, e
  <1>7. k \in Keypairs
    BY <1>2, <1>4, <1>5 DEF Keypairs
  <1>8. Recreatable(k)
    BY <1>2, <1>4, <1>6, <1>7, NilAssumption DEF Recreatable
  <1>9. k.private = p /\ k.public = p /\ k.publicX = GetXCoord(p)
        /\ k.ellswift = e /\ k.auxRand = a /\ k.caseNum = c
    BY <1>4
  <1> QED
    BY <1>1, <1>5, <1>7, <1>8, <1>9 DEF p, k

\* Every key that EllswiftCreate returns is recreated by NewKeypairFrom.
LEMMA CreatedKeys ==
  ASSUME NEW key \in EllswiftCreate
  PROVE  LET k == NewKeypairFrom(key.priv, key.enc.auxRand, key.enc.caseNum)
         IN  /\ key.priv \in 0 .. Order - 1
             /\ key.enc.auxRand \in Nat /\ key.enc.caseNum \in Nat
             /\ k # Nil
             /\ k = [private |-> key.priv, public |-> key.priv,
                     publicX |-> GetXCoord(key.priv), ellswift |-> key.enc.ellswift,
                     auxRand |-> key.enc.auxRand, caseNum |-> key.enc.caseNum]
  <1>1. PICK b \in Bytes32 :
          \E enc \in XElligatorSwift(GetXCoord(PrivKeyFromBytes(b))) :
             key = [priv |-> PrivKeyFromBytes(b), enc |-> enc]
    BY DEF EllswiftCreate
  <1> DEFINE p == PrivKeyFromBytes(b)
             x == GetXCoord(p)
  <1>2. PICK enc \in XElligatorSwift(x) : key = [priv |-> p, enc |-> enc]
    BY <1>1
  <1>3. p \in 0 .. Order - 1
    BY CurveAssumption, ModTwice DEF PrivKeyFromBytes
  <1>4. p \in Nat /\ x \in Nat /\ PrivKeyFromBytes(p) = p
    BY <1>3, XCoordType
  <1> HIDE DEF p, x
  <1>5. PICK d \in Bytes32 \X CaseBytes :
          /\ XElligatorSwiftAux(x, d[1], d[2]) # Nil
          /\ enc = [ellswift |-> XElligatorSwiftAux(x, d[1], d[2]), auxRand |-> d[1],
                    caseNum |-> d[2] % NumCases]
    BY DEF XElligatorSwift
  <1> DEFINE a == d[1]
             c == d[2]
  <1>6. a \in Nat /\ c \in Nat
    BY CurveAssumption
  <1> HIDE DEF a, c
  <1>7. c % NumCases \in Nat /\ (c % NumCases) % NumCases = c % NumCases
    <2>1. NumCases \in Nat \ {0}
      BY CurveAssumption
    <2>2. c % NumCases \in 0 .. NumCases - 1 /\ (c % NumCases) % NumCases = c % NumCases
      BY <1>6, <2>1, ModTwice
    <2> QED
      BY <2>1, <2>2
  <1>8. XElligatorSwiftAux(x, a, c % NumCases) = XElligatorSwiftAux(x, a, c)
    BY <1>7 DEF XElligatorSwiftAux
  <1>9. enc.ellswift = XElligatorSwiftAux(x, a, c) /\ enc.auxRand = a
        /\ enc.caseNum = c % NumCases /\ enc.ellswift # Nil
    BY <1>5 DEF a, c
  <1>10. key.priv = p /\ key.enc = enc
    BY <1>2
  <1>11. EllswiftRecreateFromBytes(p, a, c % NumCases) = enc.ellswift
    BY <1>4, <1>8, <1>9 DEF EllswiftRecreateFromBytes, x
  <1>12. NewKeypairFrom(p, a, c % NumCases)
          = [private |-> p, public |-> p, publicX |-> x, ellswift |-> enc.ellswift,
             auxRand |-> a, caseNum |-> c % NumCases]
    BY <1>4, <1>9, <1>11 DEF NewKeypairFrom, x
  <1>13. enc.ellswift \in [u : Nat, t : [u : Nat, x : Nat, c : Nat]]
    <2>1. XElligatorSwiftAux(x, a, c) # Nil
      BY <1>9
    <2>2. XElligatorSwiftAux(x, a, c) \in [u : Nat, t : [u : Nat, x : Nat, c : Nat]]
      BY <1>4, <1>6, <2>1, EncodingType
    <2> QED
      BY <1>9, <2>2
  <1>14. NewKeypairFrom(p, a, c % NumCases) \in Keypairs
    BY <1>4, <1>6, <1>7, <1>12, <1>13 DEF Keypairs
  <1> QED
    BY <1>3, <1>6, <1>7, <1>9, <1>10, <1>12, <1>14, NilAssumption DEF x

LEMMA ResultProperties ==
  ASSUME NEW r \in Results
  PROVE  /\ r.priv \in 0 .. Order - 1
         /\ r.auxRand \in Nat /\ r.caseNum \in Nat
         /\ NewKeypairFrom(r.priv, r.auxRand, r.caseNum) # Nil
         /\ DeserializeAuthorityKey(r.pubKey) = GetXCoord(r.priv)
         /\ GetXCoord(r.priv) \in Vanity
  <1>1. PICK key \in EllswiftCreate :
          /\ GetXCoord(key.priv) \in Vanity
          /\ r = [pubKey |-> SerializeAuthorityKey(GetXCoord(key.priv)), priv |-> key.priv,
                  auxRand |-> key.enc.auxRand, caseNum |-> key.enc.caseNum]
    BY DEF Results
  <1>2. r.priv = key.priv /\ r.auxRand = key.enc.auxRand /\ r.caseNum = key.enc.caseNum
        /\ r.pubKey = SerializeAuthorityKey(GetXCoord(key.priv))
    BY <1>1
  <1>3. DeserializeAuthorityKey(r.pubKey) = GetXCoord(r.priv)
    BY <1>2 DEF DeserializeAuthorityKey, SerializeAuthorityKey
  <1> QED
    BY <1>1, <1>2, <1>3, CreatedKeys

\* The keypair of a result is printed in the form that stores the result.
LEMMA ResultStored ==
  ASSUME NEW r \in Results
  PROVE  /\ Stored(r) \in Seq(Nat) /\ Len(Stored(r)) = 3
         /\ KeypairEncode(NewKeypairFrom(r.priv, r.auxRand, r.caseNum)) = Stored(r)
  <1>1. r.priv \in 0 .. Order - 1 /\ r.priv \in Nat /\ r.auxRand \in Nat /\ r.caseNum \in Nat
    BY ResultProperties
  <1>2. PrivKeyFromBytes(r.priv) = r.priv
    BY <1>1, XCoordType
  <1> DEFINE k == NewKeypairFrom(r.priv, r.auxRand, r.caseNum)
  <1>3. k # Nil
    BY ResultProperties
  <1>4. k.private = r.priv /\ k.auxRand = r.auxRand /\ k.caseNum = r.caseNum
    BY <1>1, <1>2, <1>3, NewKeypairFromIsRecreatable
  <1> QED
    BY <1>1, <1>4 DEF KeypairEncode, Stored

\* The three ways Keypair.Decode can end for a whole keypair or a part of it.
LEMMA DecodeWhole ==
  ASSUME NEW old, NEW b \in Seq(Nat), Len(b) = 3
  PROVE  LET d == KeypairDecode(old, b)
             new == NewKeypairFrom(b[1], b[2], b[3])
         IN  /\ new # Nil => d = [ret |-> "ok", kp |-> new]
             /\ new = Nil => d = [ret |-> "error",
                                  kp |-> [old EXCEPT !.private = Nil, !.ellswift = Nil,
                                                     !.auxRand = b[2], !.caseNum = b[3]]]
  BY DEF KeypairDecode

LEMMA DecodePart ==
  ASSUME NEW old, NEW b \in Seq(Nat), Len(b) <= 2
  PROVE  /\ KeypairDecode(old, b).ret = "panic"
         /\ DOMAIN KeypairDecode(old, b).kp = DOMAIN old
  <1>1. CASE Len(b) = 2
    BY <1>1 DEF KeypairDecode
  <1>2. CASE Len(b) < 2
    BY <1>2 DEF KeypairDecode
  <1>3. \A n \in Nat : n <= 2 => n = 2 \/ n < 2
    OBVIOUS
  <1>4. Len(b) \in Nat
    BY LenProperties
  <1> QED
    BY <1>1, <1>2, <1>3, <1>4

\* What KeypairConsistent says of a keypair with a private key.
LEMMA RecreatableIsConsistent ==
  ASSUME NEW k, Recreatable(k)
  PROVE  /\ k.public = k.private /\ k.publicX = GetXCoord(k.private)
         /\ k.ellswift.t.x = k.publicX
         /\ KeypairDecode(NoKeypair, KeypairEncode(k)) = [ret |-> "ok", kp |-> k]
  <1> DEFINE b == KeypairEncode(k)
  <1>1. NewKeypairFrom(k.private, k.auxRand, k.caseNum) = k /\ k # Nil
        /\ k.private \in Nat /\ k.auxRand \in Nat /\ k.caseNum \in Nat
    BY DEF Recreatable
  <1>2. k.public = k.private /\ k.publicX = GetXCoord(k.private) /\ k.ellswift.t.x = k.publicX
    BY <1>1, NewKeypairFromIsRecreatable
  <1>3. b \in Seq(Nat) /\ Len(b) = 3 /\ b[1] = k.private /\ b[2] = k.auxRand
        /\ b[3] = k.caseNum
    BY <1>1 DEF KeypairEncode
  <1> HIDE DEF b
  <1>4. KeypairDecode(NoKeypair, b) = [ret |-> "ok", kp |-> k]
    BY <1>1, <1>3, DecodeWhole
  <1> QED
    BY <1>2, <1>4 DEF b

-----------------------------------------------------------------------------
(* The workers and main *)

LEMMA SendingFinite ==
  /\ IsFiniteSet(Sending) /\ Cardinality(Sending) \in Nat
  /\ \A w \in Sending : Cardinality(Sending) >= 1
  <1>1. IsFiniteSet(Sending)
    BY GrinderAssumption, FS_Subset DEF Sending
  <1>2. Cardinality(Sending) \in Nat
    BY <1>1, FS_CardinalityType
  <1>3. Cardinality(Sending) = 0 <=> Sending = {}
    BY <1>1, FS_EmptySet
  <1> QED
    BY <1>1, <1>2, <1>3

LEMMA InitIInv == Init => IInv
  <1> SUFFICES ASSUME Init PROVE IInv
    OBVIOUS
  <1> USE DEF Init
  <1>1. TInv
    <2>1. <<>> \in Seq(Results) /\ <<>> \in Seq(Seq(Nat))
      BY EmptySeq
    <2>2. cancelled \in BOOLEAN
      OBVIOUS
    <2>3. wpc \in [Workers -> {"select", "create", "send", "done"}] /\ DOMAIN res = Workers
      OBVIOUS
    <2>4. \A w \in Workers : wpc[w] # "send"
      OBVIOUS
    <2> QED
      BY <2>1, <2>2, <2>3, <2>4 DEF TInv
  <1>2. MainInv
    BY GrinderAssumption DEF MainInv
  <1>3. CountInv
    <2>1. Sending = {}
      BY DEF Sending
    <2> QED
      BY <2>1, FS_EmptySet DEF CountInv
  <1>4. PrintInv
    BY DEF PrintInv
  <1>5. LoadInv
    BY DEF LoadInv, Keyless, NoKeypair, PrintedKeysRestore
  <1> QED
    BY <1>1, <1>2, <1>3, <1>4, <1>5 DEF IInv

\* Main's own part of the state and the keypair are not a worker's business.
LEMMA WorkerKeeps ==
  ASSUME IInv, UNCHANGED <<resColl, printed, mpc, lvars>>
  PROVE  PrintInv' /\ LoadInv'
  BY DEF IInv, PrintInv, LoadInv, PrintedKeysRestore, lvars

LEMMA SelectStep ==
  ASSUME IInv, NEW w \in Workers, Select(w) \/ Miss(w)
  PROVE  IInv'
  <1>1. wpc[w] # "send" /\ wpc' \in [Workers -> {"select", "create", "send", "done"}]
        /\ UNCHANGED <<res, resultChan, resColl, cancelled, mpc, printed, finds, lvars>>
        /\ wpc'[w] # "send" /\ \A v \in Workers \ {w} : wpc'[v] = wpc[v]
    BY DEF Select, Miss, IInv, TInv
  <1>2. TInv'
    BY <1>1 DEF IInv, TInv
  <1>3. MainInv'
    BY <1>1 DEF IInv, MainInv
  <1>4. CountInv'
    <2>1. Sending' = Sending
      BY <1>1 DEF Sending
    <2> QED
      BY <1>1, <2>1 DEF IInv, CountInv
  <1> QED
    BY <1>1, <1>2, <1>3, <1>4, WorkerKeeps DEF IInv

LEMMA FindStep ==
  ASSUME IInv, NEW w \in Workers, Find(w)
  PROVE  IInv'
  <1>1. PICK key \in EllswiftCreate :
          /\ GetXCoord(key.priv) \in Vanity
          /\ res' = [res EXCEPT ![w] = [pubKey |-> SerializeAuthorityKey(GetXCoord(key.priv)),
                                        priv |-> key.priv, auxRand |-> key.enc.auxRand,
                                        caseNum |-> key.enc.caseNum]]
    BY DEF Find
  <1>2. res'[w] \in Results /\ DOMAIN res' = Workers
        /\ \A v \in Workers \ {w} : res'[v] = res[v]
    BY <1>1 DEF Results, IInv, TInv
  <1>3. wpc[w] = "create" /\ wpc' = [wpc EXCEPT ![w] = "send"] /\ finds' = finds + 1
        /\ UNCHANGED <<resultChan, resColl, cancelled, mpc, printed, lvars>>
    BY DEF Find
  <1>4. TInv'
    <2>1. wpc' \in [Workers -> {"select", "create", "send", "done"}]
          /\ \A v \in Workers \ {w} : wpc'[v] = wpc[v]
      BY <1>3 DEF IInv, TInv
    <2>2. \A v \in Workers : wpc'[v] = "send" => res'[v] \in Results
      BY <1>2, <2>1 DEF IInv, TInv
    <2> QED
      BY <1>2, <1>3, <2>1, <2>2 DEF IInv, TInv
  <1>5. MainInv'
    BY <1>3 DEF IInv, MainInv
  <1>6. CountInv'
    <2>1. Sending' = Sending \cup {w} /\ w \notin Sending
      BY <1>3 DEF Sending, IInv, TInv
    <2>2. Cardinality(Sending') = Cardinality(Sending) + 1
      BY <2>1, SendingFinite, FS_AddElement
    <2>3. Len(resColl) \in Nat /\ Len(resultChan) \in Nat
      BY LenProperties DEF IInv, TInv
    <2> QED
      BY <1>3, <2>2, <2>3, SendingFinite DEF IInv, CountInv
  <1> QED
    BY <1>3, <1>4, <1>5, <1>6, WorkerKeeps DEF IInv

LEMMA SendStep ==
  ASSUME IInv, NEW w \in Workers, Send(w)
  PROVE  IInv'
  <1>1. wpc[w] = "send" /\ Len(resultChan) < maxResults
        /\ resultChan' = Append(resultChan, res[w])
        /\ res' = [res EXCEPT ![w] = NoResult] /\ wpc' = [wpc EXCEPT ![w] = "select"]
        /\ UNCHANGED <<resColl, cancelled, mpc, printed, finds, lvars>>
    BY DEF Send
  <1>2. res[w] \in Results
    BY <1>1 DEF IInv, TInv
  <1>3. resultChan \in Seq(Results) /\ Len(resultChan) \in Nat /\ Len(resColl) \in Nat
    BY LenProperties DEF IInv, TInv
  <1>4. resultChan' \in Seq(Results) /\ Len(resultChan') = Len(resultChan) + 1
    BY <1>1, <1>2, <1>3, AppendProperties
  <1>5. TInv'
    <2>1. wpc' \in [Workers -> {"select", "create", "send", "done"}]
          /\ wpc'[w] = "select" /\ \A v \in Workers \ {w} : wpc'[v] = wpc[v]
      BY <1>1 DEF IInv, TInv
    <2>2. DOMAIN res' = Workers /\ \A v \in Workers \ {w} : res'[v] = res[v]
      BY <1>1 DEF IInv, TInv
    <2>3. \A v \in Workers : wpc'[v] = "send" => res'[v] \in Results
      BY <2>1, <2>2 DEF IInv, TInv
    <2> QED
      BY <1>1, <1>4, <2>1, <2>2, <2>3 DEF IInv, TInv
  <1>6. MainInv'
    BY <1>1, <1>3, <1>4, GrinderAssumption DEF IInv, MainInv
  <1>7. CountInv'
    <2>1. Sending' = Sending \ {w} /\ w \in Sending
      BY <1>1 DEF Sending, IInv, TInv
    <2>2. Cardinality(Sending') = Cardinality(Sending) - 1
      BY <2>1, SendingFinite, FS_RemoveElement
    <2> QED
      BY <1>1, <1>3, <1>4, <2>2, SendingFinite DEF IInv, CountInv
  <1> QED
    BY <1>1, <1>5, <1>6, <1>7, WorkerKeeps DEF IInv

\* The keypair is no business of main.
LEMMA MainKeeps ==
  ASSUME IInv, UNCHANGED lvars, mpc' # "panicked"
  PROVE  LoadInv'
  BY DEF IInv, LoadInv, PrintedKeysRestore, lvars

LEMMA ReceiveStep ==
  ASSUME IInv, Receive
  PROVE  IInv'
  <1>1. mpc = "receive" /\ resultChan # <<>>
        /\ resColl' = Append(resColl, Head(resultChan)) /\ resultChan' = Tail(resultChan)
        /\ UNCHANGED <<wpc, res, printed, finds, lvars>>
    BY DEF Receive
  <1>2. resultChan \in Seq(Results) /\ resColl \in Seq(Results)
        /\ Len(resultChan) \in Nat /\ Len(resColl) \in Nat
    BY LenProperties DEF IInv, TInv
  <1>3. Head(resultChan) \in Results /\ resultChan' \in Seq(Results)
        /\ Len(resultChan') = Len(resultChan) - 1
    BY <1>1, <1>2, HeadTailProperties
  <1>4. resColl' \in Seq(Results) /\ Len(resColl') = Len(resColl) + 1
    BY <1>1, <1>2, <1>3, AppendProperties
  <1>5. IF Len(resColl') = maxResults THEN cancelled' = TRUE /\ mpc' = "print"
        ELSE cancelled' = cancelled /\ mpc' = mpc
    BY DEF Receive
  <1>6. mpc' \in {"receive", "print"} /\ cancelled' \in BOOLEAN
        /\ (cancelled' <=> mpc' # "receive")
    BY <1>1, <1>5 DEF IInv, TInv, MainInv
  <1>7. TInv'
    BY <1>1, <1>3, <1>4, <1>6 DEF IInv, TInv
  <1>8. printed' = <<>>
    BY <1>1 DEF IInv, MainInv
  <1>9. MainInv'
    <2>1. IF mpc' = "receive" THEN Len(resColl') < maxResults ELSE Len(resColl') = maxResults
      BY <1>1, <1>2, <1>4, <1>5, GrinderAssumption DEF IInv, MainInv
    <2>2. Len(resultChan') <= maxResults
      BY <1>2, <1>3, GrinderAssumption DEF IInv, MainInv
    <2> QED
      BY <1>6, <1>8, <2>1, <2>2 DEF MainInv
  <1>10. CountInv'
    <2>1. Sending' = Sending
      BY <1>1 DEF Sending
    <2>2. Len(resColl') + Len(resultChan') = Len(resColl) + Len(resultChan)
      BY <1>2, <1>3, <1>4
    <2> QED
      BY <1>1, <2>1, <2>2 DEF IInv, CountInv
  <1>11. PrintInv'
    BY <1>2, <1>4, <1>8 DEF PrintInv
  <1> QED
    BY <1>1, <1>6, <1>7, <1>9, <1>10, <1>11, MainKeeps DEF IInv

LEMMA PrintKeyStep ==
  ASSUME IInv, PrintKey
  PROVE  IInv'
  <1> DEFINE r == resColl[Len(printed) + 1]
  <1>1. mpc = "print" /\ Len(printed) < Len(resColl)
        /\ UNCHANGED <<wpc, res, resultChan, resColl, cancelled, finds, lvars>>
    BY DEF PrintKey
  <1>2. printed \in Seq(Seq(Nat)) /\ resColl \in Seq(Results)
        /\ Len(printed) \in Nat /\ Len(resColl) \in Nat
    BY LenProperties DEF IInv, TInv
  <1>3. r \in Results
    BY <1>1, <1>2, ElementOfSeq
  <1>4. NewKeypairFrom(r.priv, r.auxRand, r.caseNum) # Nil
    BY <1>3, ResultProperties
  <1>5. printed' = Append(printed, Stored(r)) /\ mpc' = mpc
    BY <1>3, <1>4, ResultStored DEF PrintKey
  <1>6. Stored(r) \in Seq(Nat)
    BY <1>3, ResultStored
  <1>7. printed' \in Seq(Seq(Nat)) /\ Len(printed') = Len(printed) + 1
        /\ printed'[Len(printed) + 1] = Stored(r)
        /\ \A i \in 1 .. Len(printed) : printed'[i] = printed[i]
    BY <1>2, <1>5, <1>6, AppendProperties
  <1>8. TInv'
    BY <1>1, <1>5, <1>7 DEF IInv, TInv
  <1>9. MainInv'
    BY <1>1, <1>5 DEF IInv, MainInv
  <1>10. CountInv'
    BY <1>1 DEF IInv, CountInv, Sending
  <1>11. PrintInv'
    <2>1. Len(printed') <= Len(resColl')
      BY <1>1, <1>2, <1>7
    <2>2. ASSUME NEW i \in 1 .. Len(printed') PROVE printed'[i] = Stored(resColl'[i])
      <3>1. CASE i = Len(printed) + 1
        BY <1>1, <1>7, <3>1
      <3>2. CASE i \in 1 .. Len(printed)
        BY <1>1, <1>7, <3>2 DEF IInv, PrintInv
      <3> QED
        BY <1>2, <1>7, <3>1, <3>2
    <2> QED
      BY <2>1, <2>2 DEF PrintInv
  <1> QED
    BY <1>1, <1>5, <1>8, <1>9, <1>10, <1>11, MainKeeps DEF IInv

LEMMA EndStep ==
  ASSUME IInv, Printed \/ Wait
  PROVE  IInv'
  <1>1. mpc \in {"print", "wait"} /\ mpc' \in {"wait", "exit"}
        /\ UNCHANGED <<wpc, res, resultChan, resColl, cancelled, printed, finds, lvars>>
    BY DEF Printed, Wait
  <1>2. TInv'
    BY <1>1 DEF IInv, TInv
  <1>3. MainInv'
    BY <1>1 DEF IInv, MainInv
  <1>4. CountInv' /\ PrintInv'
    BY <1>1 DEF IInv, CountInv, Sending, PrintInv
  <1> QED
    BY <1>1, <1>2, <1>3, <1>4, MainKeeps DEF IInv

-----------------------------------------------------------------------------
(* Generating and loading keypairs *)

\* The program has ended; only the keypair matters.
LEMMA ProgramKeeps ==
  ASSUME IInv, UNCHANGED gvars, LoadInv'
  PROVE  IInv'
  <1>1. UNCHANGED <<wpc, res, resultChan, resColl, cancelled, mpc, printed, finds>>
    BY DEF gvars
  <1>2. TInv'
    BY <1>1 DEF IInv, TInv
  <1>3. MainInv'
    BY <1>1 DEF IInv, MainInv
  <1>4. CountInv' /\ PrintInv'
    BY <1>1 DEF IInv, CountInv, Sending, PrintInv
  <1> QED
    BY <1>2, <1>3, <1>4 DEF IInv

LEMMA GenerateStep ==
  ASSUME IInv, Generate
  PROVE  IInv'
  <1>1. PICK key \in EllswiftCreate :
          kp' = [private |-> key.priv, public |-> key.priv, publicX |-> GetXCoord(key.priv),
                 ellswift |-> key.enc.ellswift, auxRand |-> key.enc.auxRand,
                 caseNum |-> key.enc.caseNum]
    BY DEF Generate, NewKeypair
  <1>2. kp' = NewKeypairFrom(key.priv, key.enc.auxRand, key.enc.caseNum) /\ kp' # Nil
        /\ key.priv \in 0 .. Order - 1 /\ key.enc.auxRand \in Nat /\ key.enc.caseNum \in Nat
    BY <1>1, CreatedKeys
  <1>3. Recreatable(kp')
    <2>1. kp'.private = key.priv /\ kp'.auxRand = key.enc.auxRand
          /\ kp'.caseNum = key.enc.caseNum
      BY <1>1
    <2>2. key.priv \in Nat /\ key.enc.auxRand \in Nat /\ key.enc.caseNum \in Nat
      BY <1>2
    <2> QED
      BY <1>2, <2>1, <2>2 DEF Recreatable
  <1>4. from' = [result |-> NoResult, intact |-> FALSE] /\ UNCHANGED gvars
    BY DEF Generate
  <1>5. ~ from'.intact
    BY <1>4
  <1>6. mpc' # "panicked"
    BY <1>4 DEF gvars, IInv, TInv
  <1>7. {"private", "ellswift"} \subseteq DOMAIN kp' /\ loadRet' = "none"
    BY <1>1 DEF Generate
  <1>8. LoadInv'
    BY <1>3, <1>5, <1>6, <1>7 DEF LoadInv, PrintedKeysRestore
  <1> QED
    BY <1>4, <1>8, ProgramKeeps

\* Loading a whole keypair, damaged or not, leaves a keypair that its stored
\* form recreates or, with an error, one that has no key.
LEMMA LoadWhole ==
  ASSUME IInv, NEW i, NEW b \in Seq(Nat), Len(b) = 3, NEW intact, Load(i, b, intact)
  PROVE  /\ {"private", "ellswift"} \subseteq DOMAIN kp'
         /\ \/ loadRet' = "ok" /\ Recreatable(kp')
            \/ loadRet' = "error" /\ Keyless(kp')
  <1>1. b[1] \in Nat /\ b[2] \in Nat /\ b[3] \in Nat
    <2>1. b \in [1 .. 3 -> Nat]
      BY LenProperties
    <2> QED
      BY <2>1
  <1>2. kp' = KeypairDecode(kp, b).kp /\ loadRet' = KeypairDecode(kp, b).ret
    BY DEF Load
  <1> DEFINE new == NewKeypairFrom(b[1], b[2], b[3])
  <1>3. CASE new # Nil
    <2>1. KeypairDecode(kp, b) = [ret |-> "ok", kp |-> new]
      BY <1>3, DecodeWhole
    <2>2. Recreatable(new) /\ new \in Keypairs
      BY <1>1, <1>3, NewKeypairFromIsRecreatable
    <2>3. {"private", "ellswift"} \subseteq DOMAIN new
      BY <2>2 DEF Keypairs
    <2> QED
      BY <1>2, <2>1, <2>2, <2>3
  <1>4. CASE new = Nil
    <2>1. KeypairDecode(kp, b)
            = [ret |-> "error", kp |-> [kp EXCEPT !.private = Nil, !.ellswift = Nil,
                                                !.auxRand = b[2], !.caseNum = b[3]]]
      BY <1>4, DecodeWhole
    <2>2. {"private", "ellswift"} \subseteq DOMAIN kp
      BY DEF IInv, LoadInv
    <2>3. kp' = [kp EXCEPT !.private = Nil, !.ellswift = Nil,
                           !.auxRand = b[2], !.caseNum = b[3]]
      BY <1>2, <2>1
    <2>4. DOMAIN kp' = DOMAIN kp
      BY <2>3
    <2>5. kp'.private = Nil /\ kp'.ellswift = Nil
      BY <2>2, <2>3
    <2>6. loadRet' = "error"
      BY <1>2, <2>1
    <2> QED
      BY <2>2, <2>4, <2>5, <2>6 DEF Keyless
  <1> QED
    BY <1>3, <1>4

LEMMA LoadIntactStep ==
  ASSUME IInv, LoadIntact
  PROVE  IInv'
  <1>1. PICK i \in DOMAIN printed : Load(i, printed[i], TRUE)
    BY DEF LoadIntact
  <1> DEFINE r == resColl[i]
  <1>2. i \in 1 .. Len(printed) /\ i \in 1 .. Len(resColl)
    <2>1. Len(printed) \in Nat /\ Len(resColl) \in Nat /\ DOMAIN printed = 1 .. Len(printed)
      BY LenProperties DEF IInv, TInv
    <2> QED
      BY <2>1 DEF IInv, PrintInv
  <1>3. r \in Results /\ printed[i] = Stored(r)
    BY <1>2, ElementOfSeq DEF IInv, TInv, PrintInv
  <1>4. Stored(r) \in Seq(Nat) /\ Len(Stored(r)) = 3
    BY <1>3, ResultStored
  <1>5. /\ {"private", "ellswift"} \subseteq DOMAIN kp'
        /\ \/ loadRet' = "ok" /\ Recreatable(kp')
           \/ loadRet' = "error" /\ Keyless(kp')
    BY <1>1, <1>3, <1>4, LoadWhole
  <1> DEFINE new == NewKeypairFrom(r.priv, r.auxRand, r.caseNum)
  <1>6. new # Nil /\ r.priv \in 0 .. Order - 1 /\ r.priv \in Nat
        /\ r.auxRand \in Nat /\ r.caseNum \in Nat
    BY <1>3, ResultProperties
  <1>7. new.private = r.priv /\ new.publicX = GetXCoord(r.priv)
    BY <1>6, XCoordType, NewKeypairFromIsRecreatable
  <1>8. kp' = new /\ loadRet' = "ok"
    <2>1. new = NewKeypairFrom(Stored(r)[1], Stored(r)[2], Stored(r)[3])
      BY DEF Stored
    <2> HIDE DEF new
    <2>2. KeypairDecode(kp, Stored(r)) = [ret |-> "ok", kp |-> new]
      BY <1>4, <1>6, <2>1, DecodeWhole
    <2> QED
      BY <1>1, <1>3, <2>2 DEF Load
  <1>9. from'.result = r /\ mpc' # "panicked" /\ UNCHANGED gvars
    BY <1>1 DEF Load, gvars, IInv, TInv
  <1>10. DeserializeAuthorityKey(r.pubKey) = GetXCoord(r.priv) /\ GetXCoord(r.priv) \in Vanity
    BY <1>3, ResultProperties
  <1> HIDE DEF new, r
  <1>11. PrintedKeysRestore'
    BY <1>7, <1>8, <1>9, <1>10 DEF PrintedKeysRestore
  <1>12. LoadInv'
    BY <1>5, <1>11 DEF LoadInv, Keyless
  <1> QED
    BY <1>9, <1>12, ProgramKeeps

\* What main has printed are keypairs of three fields.
LEMMA PrintedForm ==
  ASSUME IInv, NEW i \in DOMAIN printed
  PROVE  printed[i] \in Seq(Nat) /\ Len(printed[i]) = 3
  <1>1. i \in 1 .. Len(printed) /\ i \in 1 .. Len(resColl)
    <2>1. Len(printed) \in Nat /\ Len(resColl) \in Nat /\ DOMAIN printed = 1 .. Len(printed)
      BY LenProperties DEF IInv, TInv
    <2> QED
      BY <2>1 DEF IInv, PrintInv
  <1>2. resColl[i] \in Results /\ printed[i] = Stored(resColl[i])
    BY <1>1, ElementOfSeq DEF IInv, TInv, PrintInv
  <1> QED
    BY <1>2, ResultStored

\* A damaged keypair: what has to be shown of the keypair alone.
LEMMA LoadDamaged ==
  ASSUME IInv, NEW i, NEW b, Load(i, b, FALSE),
         {"private", "ellswift"} \subseteq DOMAIN kp',
         \/ loadRet' = "panic"
         \/ loadRet' = "ok" /\ Recreatable(kp')
         \/ loadRet' = "error" /\ Keyless(kp')
  PROVE  IInv'
  <1>1. ~ from'.intact /\ UNCHANGED gvars
    BY DEF Load
  <1>2. mpc' # "panicked"
    BY <1>1 DEF gvars, IInv, TInv
  <1>3. LoadInv'
    BY <1>1, <1>2 DEF LoadInv, Keyless, PrintedKeysRestore
  <1> QED
    BY <1>1, <1>3, ProgramKeeps

LEMMA LoadCutStep ==
  ASSUME IInv, LoadCut
  PROVE  IInv'
  <1>1. PICK i \in DOMAIN printed, k \in 0 .. 2 : Load(i, SubSeq(printed[i], 1, k), FALSE)
    BY DEF LoadCut
  <1> DEFINE b == SubSeq(printed[i], 1, k)
  <1>2. printed[i] \in Seq(Nat) /\ Len(printed[i]) = 3
    BY PrintedForm
  <1>3. b \in Seq(Nat) /\ Len(b) <= 2
    <2>1. \A j \in 1 .. k : printed[i][j] \in Nat
      <3>1. printed[i] \in [1 .. 3 -> Nat]
        BY <1>2, LenProperties
      <3> QED
        BY <3>1
    <2>2. b \in Seq(Nat) /\ Len(b) = IF 1 <= k THEN k - 1 + 1 ELSE 0
      BY <2>1, SubSeqProperties
    <2> QED
      BY <2>2
  <1> HIDE DEF b
  <1>4. loadRet' = "panic"
    BY <1>1, <1>3, DecodePart DEF Load, b
  <1>5. {"private", "ellswift"} \subseteq DOMAIN kp'
    <2>1. DOMAIN KeypairDecode(kp, b).kp = DOMAIN kp
      BY <1>3, DecodePart
    <2> QED
      BY <1>1, <2>1 DEF Load, b, IInv, LoadInv
  <1> QED
    BY <1>1, <1>4, <1>5, LoadDamaged

LEMMA LoadAlteredStep ==
  ASSUME IInv, LoadAltered
  PROVE  IInv'
  <1>1. PICK i \in DOMAIN printed :
          \/ \E v \in Bytes32, p \in {1, 2} : Load(i, [printed[i] EXCEPT ![p] = v], FALSE)
          \/ \E c \in CaseBytes : Load(i, [printed[i] EXCEPT ![3] = c], FALSE)
    BY DEF LoadAltered
  <1>2. PICK v \in Nat, p \in 1 .. 3 : Load(i, [printed[i] EXCEPT ![p] = v], FALSE)
    <2>1. \A v \in Bytes32 \cup CaseBytes : v \in Nat
      BY CurveAssumption
    <2>2. CASE \E v \in Bytes32, p \in {1, 2} : Load(i, [printed[i] EXCEPT ![p] = v], FALSE)
      <3>1. PICK v \in Bytes32, p \in {1, 2} : Load(i, [printed[i] EXCEPT ![p] = v], FALSE)
        BY <2>2
      <3>2. v \in Nat /\ p \in 1 .. 3
        BY <2>1
      <3> QED
        BY <3>1, <3>2
    <2>3. CASE \E c \in CaseBytes : Load(i, [printed[i] EXCEPT ![3] = c], FALSE)
      <3>1. PICK c \in CaseBytes : Load(i, [printed[i] EXCEPT ![3] = c], FALSE)
        BY <2>3
      <3>2. c \in Nat /\ 3 \in 1 .. 3
        BY <2>1
      <3> QED
        BY <3>1, <3>2
    <2> QED
      BY <1>1, <2>2, <2>3
  <1> DEFINE b == [printed[i] EXCEPT ![p] = v]
  <1>3. printed[i] \in Seq(Nat) /\ Len(printed[i]) = 3
    BY PrintedForm
  <1>4. b \in Seq(Nat) /\ Len(b) = 3
    <2>1. p \in 1 .. Len(printed[i])
      BY <1>3
    <2> DEFINE s == printed[i]
    <2>2. s \in Seq(Nat) /\ Len(s) = 3 /\ p \in 1 .. Len(s)
      BY <1>3, <2>1
    <2> HIDE DEF s
    <2>3. [s EXCEPT ![p] = v] \in Seq(Nat) /\ Len([s EXCEPT ![p] = v]) = Len(s)
      BY <2>2, ExceptSeq, SMTT(30)
    <2> QED
      BY <2>2, <2>3 DEF s
  <1> HIDE DEF b
  <1>5. /\ {"private", "ellswift"} \subseteq DOMAIN kp'
        /\ \/ loadRet' = "ok" /\ Recreatable(kp')
           \/ loadRet' = "error" /\ Keyless(kp')
    BY <1>2, <1>4, LoadWhole DEF b
  <1> QED
    BY <1>2, <1>5, LoadDamaged

-----------------------------------------------------------------------------
(* The theorems *)

LEMMA NextIInv == IInv /\ [Next]_vars => IInv'
  <1> SUFFICES ASSUME IInv, [Next]_vars PROVE IInv'
    OBVIOUS
  <1>1. ASSUME NEW w \in Workers, Worker(w) PROVE IInv'
    BY <1>1, SelectStep, FindStep, SendStep DEF Worker
  <1>2. CASE Main
    BY <1>2, ReceiveStep, PrintKeyStep, EndStep DEF Main
  <1>3. CASE Generate \/ LoadIntact \/ LoadCut \/ LoadAltered
    BY <1>3, GenerateStep, LoadIntactStep, LoadCutStep, LoadAlteredStep
  <1>4. CASE UNCHANGED vars
    <2>1. UNCHANGED gvars /\ UNCHANGED lvars
      BY <1>4 DEF vars
    <2>2. mpc' # "panicked"
      BY <2>1 DEF gvars, IInv, TInv
    <2> QED
      BY <2>1, <2>2, MainKeeps, ProgramKeeps
  <1> QED
    BY <1>1, <1>2, <1>3, <1>4 DEF Next

LEMMA Inductive == Spec => []IInv
  BY InitIInv, NextIInv, PTL DEF Spec

\* Every key found is being sent, in the channel or with main, and a worker
\* can be stuck in its send after cancel() only if 2 * maxResults + 1 keys
\* were found: for any number of workers and any capacity.
THEOREM NoResultLost == Spec => []ResultsAccounted
  <1>1. IInv => ResultsAccounted
    <2> SUFFICES ASSUME IInv PROVE ResultsAccounted
      OBVIOUS
    <2>1. Len(resColl) + Len(resultChan) + Cardinality(Sending) = finds
      BY DEF IInv, CountInv
    <2>2. ASSUME NEW w \in Sending, cancelled, Len(resultChan) = maxResults
          PROVE  finds > 2 * maxResults
      <3>1. Len(resColl) = maxResults
        BY <2>2 DEF IInv, MainInv
      <3>2. Cardinality(Sending) \in Nat /\ Cardinality(Sending) >= 1
        BY SendingFinite
      <3> QED
        BY <2>1, <2>2, <3>1, <3>2, GrinderAssumption
    <2> QED
      BY <2>1, <2>2 DEF ResultsAccounted, Sending
  <1> QED
    BY <1>1, Inductive, PTL

\* Printing never panics, and a printed keypair that is loaded intact is the
\* key that was found, with the authority key that was shown.
THEOREM PrintedKeysAreRight == Spec => []PrintedKeysRestore
  <1>1. IInv => PrintedKeysRestore
    BY DEF IInv, LoadInv
  <1> QED
    BY <1>1, Inductive, PTL

\* Unless Decode panicked, a keypair holds a private key and its encoding, the
\* public key and the stored form that belong to it, or neither a private key
\* nor an encoding, as after every error of Decode.
THEOREM KeypairsAreConsistent == Spec => []KeypairConsistent
  <1>1. IInv => KeypairConsistent
    <2> SUFFICES ASSUME IInv, loadRet # "panic"
                 PROVE  /\ kp.private = Nil <=> kp.ellswift = Nil
                        /\ loadRet = "error" => kp.private = Nil
                        /\ kp.private # Nil =>
                             /\ kp.public = kp.private /\ kp.publicX = GetXCoord(kp.private)
                             /\ kp.ellswift.t.x = kp.publicX
                             /\ KeypairDecode(NoKeypair, KeypairEncode(kp))
                                  = [ret |-> "ok", kp |-> kp]
      BY DEF KeypairConsistent
    <2>1. loadRet = "error" => kp.private = Nil
      BY DEF IInv, LoadInv
    <2>2. CASE Keyless(kp)
      BY <2>2 DEF Keyless
    <2>3. CASE Recreatable(kp)
      <3>1. kp.private # Nil
        BY <2>3, NilAssumption DEF Recreatable
      <3>2. kp.ellswift # Nil
        BY <2>3 DEF Recreatable, NewKeypairFrom
      <3> QED
        BY <2>1, <2>3, <3>1, <3>2, RecreatableIsConsistent
    <2> QED
      BY <2>2, <2>3 DEF IInv, LoadInv
  <1> QED
    BY <1>1, Inductive, PTL
=============================================================================
