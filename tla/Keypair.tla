------------------------------ MODULE Keypair ------------------------------
(***************************************************************************)
(* Keypairs and the search for an ElligatorSwift encoding of their public  *)
(* key (noise.go, ellswift.go), and the authority key's text form.  The    *)
(* curve is symbolic: private keys are numbers modulo Order, a key and its *)
(* negative have the same x-coordinate, field elements are numbers modulo  *)
(* Field, and XSwiftECInv finds a t for some of its arguments only.  A     *)
(* 32-byte value is a number that may exceed Order and Field.              *)
(***************************************************************************)
EXTENDS Integers, Sequences

CONSTANTS
  Order,     \* of the group of the curve
  Field,     \* size of the field
  Bytes32,   \* values of 32 bytes: private keys and auxRand as stored
  CaseBytes, \* values of the byte caseNum
  NumCases,  \* 8
  Solvable,  \* the triples (u, x, case) for which a t exists
  Nil        \* a nil pointer

ASSUME CurveAssumption ==
  /\ Order \in Nat \ {0} /\ Field \in Nat \ {0} /\ NumCases \in Nat \ {0}
  /\ Bytes32 \subseteq Nat /\ CaseBytes \subseteq Nat

\* A Keypair that holds a key; a nil *Keypair is none of them.
Keypairs ==
  [private : Nat, public : Nat, publicX : Nat,
   ellswift : [u : Nat, t : [u : Nat, x : Nat, c : Nat]], auxRand : Nat, caseNum : Nat]

ASSUME NilAssumption == Nil \notin Keypairs /\ Nil \notin Nat

PrivKeyFromBytes(bytes) == bytes % Order

\* x-coordinate of the public key.
GetXCoord(priv) == IF 2 * priv <= Order THEN priv ELSE Order - priv

\* u.SetBytes, normalized when it exceeds the field.
FieldVal(auxRand) == auxRand % Field

XSwiftECInv(u, x, c) == IF <<u, x, c>> \in Solvable THEN [u |-> u, x |-> x, c |-> c] ELSE Nil

\* The encoding (u, t), or Nil; the case is masked.
XElligatorSwiftAux(x, auxRand, caseNum) ==
  LET t == XSwiftECInv(FieldVal(auxRand), x, caseNum % NumCases)
  IN  IF t = Nil THEN Nil ELSE [u |-> FieldVal(auxRand), t |-> t]

EllswiftRecreateFromBytes(privBytes, auxRand, caseNum) ==
  XElligatorSwiftAux(GetXCoord(PrivKeyFromBytes(privBytes)), auxRand, caseNum)

\* Mutant: the case of an earlier round of the loop is returned.
XElligatorSwiftOtherCase(x) ==
  {[ellswift |-> XElligatorSwiftAux(x, d[1], d[2]), auxRand |-> d[1],
    caseNum |-> (d[2] + 1) % NumCases] :
     d \in {e \in Bytes32 \X CaseBytes : XElligatorSwiftAux(x, e[1], e[2]) # Nil}}

\* What the last round of the loop may return: random bytes for u and a
\* random case for which a t exists.
XElligatorSwift(x) ==
  {[ellswift |-> XElligatorSwiftAux(x, d[1], d[2]), auxRand |-> d[1],
    caseNum |-> d[2] % NumCases] :
     d \in {e \in Bytes32 \X CaseBytes : XElligatorSwiftAux(x, e[1], e[2]) # Nil}}

\* The keys EllswiftCreate may return.
EllswiftCreate ==
  UNION {{[priv |-> priv, enc |-> enc] : enc \in XElligatorSwift(GetXCoord(priv))} :
           priv \in {PrivKeyFromBytes(k) : k \in Bytes32}}

NoKeypair == [private |-> Nil, public |-> Nil, publicX |-> Nil, ellswift |-> Nil,
              auxRand |-> 0, caseNum |-> 0]

NewKeypair ==
  {[private |-> key.priv, public |-> key.priv, publicX |-> GetXCoord(key.priv),
    ellswift |-> key.enc.ellswift, auxRand |-> key.enc.auxRand, caseNum |-> key.enc.caseNum] :
     key \in EllswiftCreate}

NewKeypairFrom(privBytes, auxRand, caseNum) ==
  LET ellswift == EllswiftRecreateFromBytes(privBytes, auxRand, caseNum)
      priv == PrivKeyFromBytes(privBytes)
  IN  IF ellswift = Nil THEN Nil
      ELSE [private |-> priv, public |-> priv, publicX |-> GetXCoord(priv),
            ellswift |-> ellswift, auxRand |-> auxRand, caseNum |-> caseNum]

\* Keypair.Encode: private_key || aux_rand || case_num
KeypairEncode(kp) == <<kp.private, kp.auxRand, kp.caseNum>>

\* Mutant: a keypair that cannot be recreated keeps its private key.
KeypairDecodeKeepsKey(kp, b) ==
  LET new == NewKeypairFrom(b[1], b[2], b[3])
  IN  CASE Len(b) < 2 -> [ret |-> "panic", kp |-> kp]
        [] Len(b) = 2 -> [ret |-> "panic", kp |-> [kp EXCEPT !.auxRand = b[2]]]
        [] Len(b) > 2 /\ new = Nil ->
             [ret |-> "error", kp |-> [kp EXCEPT !.auxRand = b[2], !.caseNum = b[3]]]
        [] OTHER -> [ret |-> "ok", kp |-> new]

\* Keypair.Decode into kp of the whole b, or of its first one or two fields.
\* A field that is missing is a panic, after the fields before it have been
\* stored; a keypair that cannot be recreated loses its private key and
\* keeps the old public one.
KeypairDecode(kp, b) ==
  LET new == NewKeypairFrom(b[1], b[2], b[3])
  IN  CASE Len(b) < 2 -> [ret |-> "panic", kp |-> kp]
        [] Len(b) = 2 -> [ret |-> "panic", kp |-> [kp EXCEPT !.auxRand = b[2]]]
        [] Len(b) > 2 /\ new = Nil ->
             [ret |-> "error", kp |-> [kp EXCEPT !.private = Nil, !.ellswift = Nil,
                                                 !.auxRand = b[2], !.caseNum = b[3]]]
        [] OTHER -> [ret |-> "ok", kp |-> new]

\* base58.CheckEncode of the version bytes [1, 0] and the key.
SerializeAuthorityKey(x) == [version |-> 1, payload |-> <<0, x>>]

DeserializeAuthorityKey(s) ==
  IF s.version # 1 \/ s.payload[1] # 0 THEN Nil ELSE s.payload[2]
=============================================================================
