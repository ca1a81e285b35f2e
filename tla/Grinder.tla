------------------------------ MODULE Grinder ------------------------------
(***************************************************************************)
(* The public key grinder (examples/grinder): workers make keys until one  *)
(* has the wanted prefix and send it on a channel; main collects           *)
(* maxResults of them, cancels the workers, prints the keys with their     *)
(* encoded keypairs and waits for the workers.  Later the encoded keypairs *)
(* are loaded with Keypair.Decode, intact or damaged.                      *)
(***************************************************************************)
EXTENDS Keypair, FiniteSets

CONSTANTS
  Workers,     \* 4 in the code
  maxResults,  \* 1 in the code: results wanted, and the channel's capacity
  Vanity,      \* x-coordinates whose authority key has the wanted prefix
  MaxFinds,    \* bound on the keys found
  MaxLoads     \* bound on the keypairs loaded

ASSUME GrinderAssumption ==
  /\ IsFiniteSet(Workers) /\ maxResults \in Nat \ {0}
  /\ MaxFinds \in Nat /\ MaxLoads \in Nat

VARIABLES
  wpc,        \* "select", "create", "send" or "done" for each worker
  res,        \* the result a worker is sending
  resultChan, \* the buffered channel
  resColl,    \* results main has received
  cancelled,  \* the context's state
  mpc,        \* "receive", "print", "wait", "exit" or "panicked"
  printed,    \* encoded keypairs that main has printed
  finds,      \* keys found so far
  kp,         \* a Keypair that is loaded from storage
  loadRet,    \* result of the last Decode
  from,       \* history: the result whose keypair it read; intact: undamaged
  loads       \* keypairs loaded

gvars == <<wpc, res, resultChan, resColl, cancelled, mpc, printed, finds>>
lvars == <<kp, loadRet, from, loads>>
vars == <<gvars, lvars>>

NoResult == [pubKey |-> Nil, priv |-> 0, auxRand |-> 0, caseNum |-> 0]

Init ==
  /\ wpc = [w \in Workers |-> "select"]
  /\ res = [w \in Workers |-> NoResult]
  /\ resultChan = <<>>
  /\ resColl = <<>>
  /\ cancelled = FALSE
  /\ mpc = "receive"
  /\ printed = <<>>
  /\ finds = 0
  /\ kp = NoKeypair
  /\ loadRet = "none"
  /\ from = [result |-> NoResult, intact |-> FALSE]
  /\ loads = 0

-----------------------------------------------------------------------------
(* grinder *)

\* The context is looked at once per round, never while sending.
Select(w) ==
  /\ wpc[w] = "select"
  /\ wpc' = [wpc EXCEPT ![w] = IF cancelled THEN "done" ELSE "create"]
  /\ UNCHANGED <<res, resultChan, resColl, cancelled, mpc, printed, finds, lvars>>

\* The key does not have the prefix: nonce++ and the next round.
Miss(w) ==
  /\ wpc[w] = "create"
  /\ \E key \in EllswiftCreate : GetXCoord(key.priv) \notin Vanity
  /\ wpc' = [wpc EXCEPT ![w] = "select"]
  /\ UNCHANGED <<res, resultChan, resColl, cancelled, mpc, printed, finds, lvars>>

Find(w) ==
  /\ wpc[w] = "create"
  /\ finds < MaxFinds
  /\ \E key \in EllswiftCreate :
       /\ GetXCoord(key.priv) \in Vanity
       /\ res' = [res EXCEPT ![w] = [pubKey |-> SerializeAuthorityKey(GetXCoord(key.priv)),
                                     priv |-> key.priv, auxRand |-> key.enc.auxRand,
                                     caseNum |-> key.enc.caseNum]]
  /\ finds' = finds + 1
  /\ wpc' = [wpc EXCEPT ![w] = "send"]
  /\ UNCHANGED <<resultChan, resColl, cancelled, mpc, printed, lvars>>

\* Mutant: a result that finds the channel full is dropped.
SendOrDrop(w) ==
  /\ wpc[w] = "send"
  /\ resultChan' = IF Len(resultChan) < maxResults THEN Append(resultChan, res[w])
                   ELSE resultChan
  /\ res' = [res EXCEPT ![w] = NoResult]
  /\ wpc' = [wpc EXCEPT ![w] = "select"]
  /\ UNCHANGED <<resColl, cancelled, mpc, printed, finds, lvars>>

\* Sending blocks while the channel is full.
Send(w) ==
  /\ wpc[w] = "send"
  /\ Len(resultChan) < maxResults
  /\ resultChan' = Append(resultChan, res[w])
  /\ res' = [res EXCEPT ![w] = NoResult]
  /\ wpc' = [wpc EXCEPT ![w] = "select"]
  /\ UNCHANGED <<resColl, cancelled, mpc, printed, finds, lvars>>

-----------------------------------------------------------------------------
(* main *)

\* Mutant: cancel() is forgotten.
ReceiveNoCancel ==
  /\ mpc = "receive"
  /\ resultChan # <<>>
  /\ resColl' = Append(resColl, Head(resultChan))
  /\ resultChan' = Tail(resultChan)
  /\ mpc' = IF Len(resColl') = maxResults THEN "print" ELSE mpc
  /\ UNCHANGED <<wpc, res, cancelled, printed, finds, lvars>>

Receive ==
  /\ mpc = "receive"
  /\ resultChan # <<>>
  /\ resColl' = Append(resColl, Head(resultChan))
  /\ resultChan' = Tail(resultChan)
  /\ IF Len(resColl') = maxResults
     THEN cancelled' = TRUE /\ mpc' = "print"
     ELSE UNCHANGED <<cancelled, mpc>>
  /\ UNCHANGED <<wpc, res, printed, finds, lvars>>

\* NewKeypairFrom's error is dropped and Encode of a nil Keypair panics.
PrintKey ==
  /\ mpc = "print"
  /\ Len(printed) < Len(resColl)
  /\ LET r == resColl[Len(printed) + 1]
         k == NewKeypairFrom(r.priv, r.auxRand, r.caseNum)
     IN  IF k = Nil
         THEN mpc' = "panicked" /\ UNCHANGED printed
         ELSE printed' = Append(printed, KeypairEncode(k)) /\ UNCHANGED mpc
  /\ UNCHANGED <<wpc, res, resultChan, resColl, cancelled, finds, lvars>>

Printed ==
  /\ mpc = "print"
  /\ Len(printed) = Len(resColl)
  /\ mpc' = "wait"
  /\ UNCHANGED <<wpc, res, resultChan, resColl, cancelled, printed, finds, lvars>>

\* wg.Wait
Wait ==
  /\ mpc = "wait"
  /\ \A w \in Workers : wpc[w] = "done"
  /\ mpc' = "exit"
  /\ UNCHANGED <<wpc, res, resultChan, resColl, cancelled, printed, finds, lvars>>

-----------------------------------------------------------------------------
(* Keypair.Decode of what was stored, into a keypair that may be in use, *)
(* one made by NewKeypair for example                                    *)

Load(i, b, intact) ==
  LET d == KeypairDecode(kp, b)
  IN  /\ kp' = d.kp
      /\ loadRet' = d.ret
      /\ from' = [result |-> resColl[i], intact |-> intact]
      /\ loads' = loads + 1
      /\ UNCHANGED gvars

MayLoad == mpc = "exit" /\ loads < MaxLoads /\ loadRet # "panic"

Generate ==
  /\ MayLoad
  /\ kp' \in NewKeypair
  /\ loadRet' = "none"
  /\ from' = [result |-> NoResult, intact |-> FALSE]
  /\ loads' = loads + 1
  /\ UNCHANGED gvars

LoadIntact == MayLoad /\ \E i \in DOMAIN printed : Load(i, printed[i], TRUE)

LoadCut == MayLoad /\ \E i \in DOMAIN printed, k \in 0 .. 2 :
                         Load(i, SubSeq(printed[i], 1, k), FALSE)

LoadAltered ==
  MayLoad /\ \E i \in DOMAIN printed :
    \/ \E v \in Bytes32, p \in {1, 2} : Load(i, [printed[i] EXCEPT ![p] = v], FALSE)
    \/ \E c \in CaseBytes : Load(i, [printed[i] EXCEPT ![3] = c], FALSE)

-----------------------------------------------------------------------------
Worker(w) == Select(w) \/ Miss(w) \/ Find(w) \/ Send(w)
Main == Receive \/ PrintKey \/ Printed \/ Wait

Next ==
  \/ \E w \in Workers : Worker(w)
  \/ Main
  \/ Generate \/ LoadIntact \/ LoadCut \/ LoadAltered

Spec == Init /\ [][Next]_vars

\* Every goroutine that can run is scheduled; a worker need never find a key.
FairSpec == Spec /\ \A w \in Workers : WF_vars(Worker(w)) /\ WF_vars(Main)

-----------------------------------------------------------------------------
(* Properties *)

\* Every key found is in one place, being sent, in the channel or with main:
\* none is lost when the channel is full or when the workers are cancelled,
\* so a worker is stuck in its send for ever only after more than
\* 2 * maxResults finds (main takes maxResults, the channel keeps as many).
ResultsAccounted ==
  LET sending == {w \in Workers : wpc[w] = "send"}
  IN  /\ Len(resColl) + Len(resultChan) + Cardinality(sending) = finds
      /\ \A w \in sending : cancelled /\ Len(resultChan) = maxResults
           => finds > 2 * maxResults

\* A key that was printed is the key that was found: its encoded form is
\* printed without a panic and, loaded intact into a fresh or a used keypair,
\* restores a key whose public key is the authority key that was shown.
PrintedKeysRestore ==
  /\ mpc # "panicked"
  /\ from.intact =>
       /\ loadRet = "ok"
       /\ kp.publicX = DeserializeAuthorityKey(from.result.pubKey)
       /\ kp.publicX \in Vanity
       /\ kp.private = from.result.priv

\* Unless Decode panicked in the middle, a private key and an ElligatorSwift
\* encoding are there together or not at all, whatever was loaded into the
\* keypair before.  A keypair with a private key has the public key and the
\* encoding of that key, and its stored form recreates them.  An error of
\* Decode leaves no private key; the public key that it leaves is the one
\* from before, beside the random bytes and the case that were just read.
KeypairConsistent ==
  loadRet # "panic" =>
    /\ kp.private = Nil <=> kp.ellswift = Nil
    /\ loadRet = "error" => kp.private = Nil
    /\ kp.private # Nil =>
         /\ kp.public = kp.private /\ kp.publicX = GetXCoord(kp.private)
         /\ kp.ellswift.t.x = kp.publicX
         /\ KeypairDecode(NoKeypair, KeypairEncode(kp)) = [ret |-> "ok", kp |-> kp]

\* Once main has its results the program ends, although workers may still be
\* sending, unless they have found so many more that the channel is full.
Terminates == Len(resColl) = maxResults ~> mpc = "exit" \/ finds > 2 * maxResults
=============================================================================
