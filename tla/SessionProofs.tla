--------------------------- MODULE SessionProofs ---------------------------
(***************************************************************************)
(* Theorems about Session, for any number of clients, any channel ids and  *)
(* any width of the integers: the order of what a server reads, the        *)
(* closing of channels, and what it takes to end a process.                *)
(***************************************************************************)
EXTENDS Session, SequenceTheorems, TLAPS

MsgTypes ==
  {"ephemeral", "response", "spoiled", "SetupConnection", "OpenExtendedMiningChannel",
   "CloseChannel", "OpenExtendedMiningChannelSuccess", "NewExtendedMiningJob"}

Messages == [type : MsgTypes, id : Int]

Troubles == {"overlap", "broken", "killed early"}

ClientPCs ==
  {"dial", "initiate", "handshake", "setup", "open", "wait", "test", "closechannel", "close"}
    \cup Ended

TInv ==
  /\ kind \in {"example", "pool"}
  /\ wide \in BOOLEAN
  /\ cpc \in [Clients -> ClientPCs]
  /\ rd \in [Clients -> {"none", "reading", "returned"}]
  /\ sig \in [Clients -> BOOLEAN]
  /\ chanid \in [Clients -> Int]
  /\ spc \in [Clients -> {"none", "handshake", "seal", "keys", "first", "wrongkeys", "loop", "returned"}]
  /\ hs \in [mixed : SUBSET Clients, keyed : BOOLEAN]
  /\ down \in {"no", "signal", "fatal"}
  /\ toServer \in [Clients -> Seq(Messages)]
  /\ toClient \in [Clients -> Seq(Messages)]
  /\ sIn \in [Clients -> {"open", "eof", "cut"}]
  /\ cIn \in [Clients -> {"open", "eof", "cut"}]
  /\ opened \in [Clients -> SUBSET ChannelIDs]
  /\ got \in [Clients -> Seq(Messages)]
  /\ trouble \in [Clients -> SUBSET Troubles]

-----------------------------------------------------------------------------
(* What a client sends *)

Full == <<"ephemeral", "SetupConnection", "OpenExtendedMiningChannel", "CloseChannel">>

\* How much of it a client has sent at most, and exactly while it is alive.
Sent(pc) ==
  CASE pc \in {"dial", "initiate"}           -> 0
    [] pc \in {"handshake", "setup"}         -> 1
    [] pc = "open"                           -> 2
    [] pc \in {"wait", "test", "closechannel"} -> 3
    [] OTHER                                 -> 4

\* g has been read and q is on its way; e = 1 when the ephemeral key, which
\* is no frame, has been read too.  Channels that are closed are in ids.
Stream(e, g, q, ids) ==
  /\ \A i \in 1 .. Len(g) : g[i].type = Full[i + 1]
  /\ \A i \in 1 .. Len(q) : q[i].type = Full[e + Len(g) + i]
  /\ \A i \in 1 .. Len(g) : g[i].type = "CloseChannel" => g[i].id \in ids
  /\ \A i \in 1 .. Len(q) : q[i].type = "CloseChannel" => q[i].id \in ids

StreamAt(c, e) ==
  /\ got[c] # <<>> => e = 1
  /\ kind = "example" => (e = 0 <=> spc[c] \in {"none", "handshake"})
  /\ Stream(e, got[c], toServer[c], opened[c])
  /\ e + Len(got[c]) + Len(toServer[c]) <= Sent(cpc[c])
  /\ Alive(c) /\ cpc[c] \notin Ended \cup {"close"}
       => e + Len(got[c]) + Len(toServer[c]) = Sent(cpc[c])

StreamInv == \A c \in Clients : \E e \in {0, 1} : StreamAt(c, e)

\* chanid is the initial value or that of a channel opened for this client.
OpenedInts(c) == {ToInt(id) : id \in opened[c]}

ChanInv ==
  \A c \in Clients :
    /\ chanid[c] = -1 \/ chanid[c] \in OpenedInts(c)
    /\ cpc[c] = "closechannel" => chanid[c] \in OpenedInts(c)
    /\ \A i \in 1 .. Len(toClient[c]) :
         toClient[c][i].type = "OpenExtendedMiningChannelSuccess"
           => toClient[c][i].id \in opened[c]

-----------------------------------------------------------------------------
(* Why processes end *)

\* The client meets the end of its connection only if the server is gone or
\* the connection broke.
LinkInv ==
  \A c \in Clients :
    IF down = "no" THEN cIn[c] # "open" => Has(c, "broken") ELSE cIn[c] # "open"

\* The example server sends one message, the response, and the client leaves
\* its handshake by taking it.
ResponseInv ==
  kind = "example" =>
    \A c \in Clients :
      /\ Len(toClient[c]) <= 1
      /\ cpc[c] \notin {"dial", "initiate", "handshake"} \cup Ended => toClient[c] = <<>>
      /\ spc[c] \in {"none", "handshake", "seal"} =>
           toClient[c] = <<>> /\ cpc[c] \in {"dial", "initiate", "handshake"} \cup Ended

\* Handshakes that overlap know of it, and one that does not has the
\* HandshakeState for itself.
OverlapInv ==
  \A c \in Clients :
    spc[c] \in InHandshake /\ ~ Has(c, "overlap") =>
      /\ hs = [mixed |-> IF spc[c] = "handshake" THEN {} ELSE {c}, keyed |-> spc[c] = "keys"]
      /\ \A d \in Clients \ {c} : spc[d] \notin InHandshake

\* The server has other keys than its client only after an overlap.
KeysInv == \A c \in Clients : spc[c] = "wrongkeys" => Has(c, "overlap")

SpoiledInv ==
  \A c \in Clients : \A i \in 1 .. Len(toClient[c]) :
    toClient[c][i].type = "spoiled" => Has(c, "overlap")

\* A server that is up meets the end of a connection in the handshake, or an
\* error at any time, only where there was trouble.
Disturbed(c) == Has(c, "broken") \/ Has(c, "killed early")

DisturbedInv ==
  kind = "example" /\ down = "no" =>
    \A c \in Clients :
      /\ sIn[c] = "cut" => Disturbed(c)
      /\ spc[c] \in {"none", "handshake"} /\ sIn[c] # "open" => Disturbed(c)

\* The inductive invariant.
IInv ==
  /\ TInv
  /\ StreamInv /\ ChanInv
  /\ LinkInv /\ ResponseInv /\ OverlapInv /\ KeysInv /\ SpoiledInv /\ DisturbedInv
  /\ ServerSurvives /\ ClientSurvives

-----------------------------------------------------------------------------
(* Type correctness *)

LEMMA PrefixType ==
  ASSUME NEW S, NEW q \in Seq(S), NEW k \in 0 .. Len(q)
  PROVE  SubSeq(q, 1, k) \in Seq(S) /\ Len(SubSeq(q, 1, k)) = k
         /\ \A i \in 1 .. k : SubSeq(q, 1, k)[i] = q[i]
  <1>1. Len(q) \in Nat /\ \A i \in 1 .. k : q[i] \in S
    BY LenProperties
  <1>2. SubSeq(q, 1, k) \in Seq(S)
        /\ Len(SubSeq(q, 1, k)) = (IF 1 <= k THEN k - 1 + 1 ELSE 0)
        /\ \A i \in 1 .. k - 1 + 1 : SubSeq(q, 1, k)[i] = q[1 + i - 1]
    BY <1>1, SubSeqProperties
  <1> QED
    BY <1>1, <1>2

LEMMA ClientEndsType ==
  ASSUME TInv, NEW c \in Clients, NEW how \in Ended, ClientEnds(c, how)
  PROVE  /\ cpc' \in [Clients -> ClientPCs]
         /\ toServer' \in [Clients -> Seq(Messages)]
         /\ sIn' \in [Clients -> {"open", "eof", "cut"}]
         /\ UNCHANGED <<toClient, cIn>>
  <1>1. cpc' \in [Clients -> ClientPCs]
    BY DEF ClientEnds, Set, TInv, ClientPCs
  <1>2. sIn' \in [Clients -> {"open", "eof", "cut"}]
    <2>1. PICK v \in {"open", "eof", "cut"} : sIn' = [sIn EXCEPT ![c] = v]
      BY DEF ClientEnds, Set, TInv
    <2> QED
      BY <2>1 DEF TInv
  <1>3. toServer' \in [Clients -> Seq(Messages)]
    <2>1. CASE UNCHANGED toServer
      BY <2>1 DEF TInv
    <2>2. CASE \E k \in 0 .. Len(toServer[c]) :
                 toServer' = Set(toServer, c, SubSeq(toServer[c], 1, k))
      <3>1. PICK k \in 0 .. Len(toServer[c]) :
                 toServer' = Set(toServer, c, SubSeq(toServer[c], 1, k))
        BY <2>2
      <3>2. SubSeq(toServer[c], 1, k) \in Seq(Messages)
        BY PrefixType DEF TInv
      <3> QED
        BY <3>1, <3>2 DEF Set, TInv
    <2> QED
      BY <2>1, <2>2 DEF ClientEnds
  <1> QED
    BY <1>1, <1>2, <1>3 DEF ClientEnds

LEMMA FatalType ==
  ASSUME TInv, NEW c \in Clients, Fatal(c)
  PROVE  TInv'
  <1>1. ClientEnds(c, "fatal") /\ "fatal" \in Ended
        /\ UNCHANGED <<kind, wide, auth, rd, sig, chanid, svars, trouble>>
    BY DEF Fatal, Ended
  <1> QED
    BY <1>1, ClientEndsType DEF TInv, svars

LEMMA ServerEndsType ==
  ASSUME TInv, NEW how \in {"signal", "fatal"}, ServerEnds(how)
  PROVE  /\ down' = how
         /\ cIn' \in [Clients -> {"open", "eof", "cut"}]
         /\ \A c \in Clients : cIn'[c] # "open" /\ (cIn[c] # "open" => cIn'[c] = cIn[c])
         /\ UNCHANGED <<toServer, toClient, sIn>>
  BY DEF ServerEnds, TInv

LEMMA ServerFatalType ==
  ASSUME TInv, ServerFatal
  PROVE  TInv'
  <1>1. ServerEnds("fatal")
        /\ UNCHANGED <<kind, wide, auth, cvars, spc, hs, opened, got, trouble>>
    BY DEF ServerFatal
  <1> QED
    BY <1>1, ServerEndsType DEF TInv, cvars

\* Sending, and taking the first message.
LEMMA QueueTypes ==
  ASSUME NEW fn \in [Clients -> Seq(Messages)], NEW c \in Clients
  PROVE  /\ \A m \in Messages : Put(fn, c, m) \in [Clients -> Seq(Messages)]
         /\ fn[c] # <<>> => /\ Head(fn[c]) \in Messages
                            /\ [fn EXCEPT ![c] = Tail(@)] \in [Clients -> Seq(Messages)]
  <1>1. fn[c] \in Seq(Messages)
    OBVIOUS
  <1>2. ASSUME NEW m \in Messages PROVE Put(fn, c, m) \in [Clients -> Seq(Messages)]
    BY <1>1, AppendProperties DEF Put
  <1>3. ASSUME fn[c] # <<>>
        PROVE  Head(fn[c]) \in Messages /\ [fn EXCEPT ![c] = Tail(@)] \in [Clients -> Seq(Messages)]
    <2>1. Head(fn[c]) \in Messages /\ Tail(fn[c]) \in Seq(Messages)
      BY <1>1, <1>3, HeadTailProperties
    <2> QED
      BY <2>1
  <1> QED
    BY <1>2, <1>3

LEMMA MsgType ==
  ASSUME NEW t \in MsgTypes, NEW i \in Int
  PROVE  Msg(t, i) \in Messages /\ Msg(t, i).type = t /\ Msg(t, i).id = i
  BY DEF Msg, Messages

LEMMA IdTypes ==
  ASSUME NEW i \in Int
  PROVE  ToU32(i) \in Int /\ ToInt(i) \in Int
  BY SessionAssumption DEF ToU32, ToInt

LEMMA MainType ==
  ASSUME TInv, NEW c \in Clients, MainStep(c)
  PROVE  TInv'
  <1> USE DEF TInv, Set
  <1>1. CASE Dial(c)
    <2>1. CASE down = "no"
      BY <1>1, <2>1 DEF Dial, ClientPCs, svars, net
    <2>2. CASE down # "no"
      BY <1>1, <2>2, ClientEndsType DEF Dial, svars, Ended
    <2> QED
      BY <2>1, <2>2
  <1>2. ASSUME NEW m \in Messages, NEW next \in ClientPCs,
               toServer' = IF Alive(c) THEN Put(toServer, c, m) ELSE toServer,
               cpc' = Set(cpc, c, next),
               UNCHANGED <<kind, wide, auth, rd, sig, chanid, svars,
                           toClient, sIn, cIn, trouble>>
        PROVE  TInv'
    <2>1. toServer' \in [Clients -> Seq(Messages)]
      BY <1>2, QueueTypes
    <2>2. cpc' \in [Clients -> ClientPCs]
      BY <1>2
    <2> QED
      BY <1>2, <2>1, <2>2 DEF svars
  <1>3. CASE Initiate(c)
    <2>1. "handshake" \in ClientPCs /\ Msg("ephemeral", 0) \in Messages
      BY MsgType DEF ClientPCs, MsgTypes
    <2> QED
      BY <1>2, <1>3, <2>1 DEF Initiate
  <1>4. CASE WriteSetup(c)
    <2>1. "open" \in ClientPCs /\ Msg("SetupConnection", 0) \in Messages
      BY MsgType DEF ClientPCs, MsgTypes
    <2> QED
      BY <1>2, <1>4, <2>1 DEF WriteSetup, Write
  <1>5. CASE WriteOpen(c)
    <2>1. "wait" \in ClientPCs /\ Msg("OpenExtendedMiningChannel", 0) \in Messages
      BY MsgType DEF ClientPCs, MsgTypes
    <2> QED
      BY <1>2, <1>5, <2>1 DEF WriteOpen, Write
  <1>6. CASE WriteClose(c)
    <2>1. "close" \in ClientPCs /\ Msg("CloseChannel", ToU32(chanid[c])) \in Messages
      BY MsgType, IdTypes DEF ClientPCs, MsgTypes
    <2> QED
      BY <1>2, <1>6, <2>1 DEF WriteClose, Write
  <1>7. CASE Established(c)
    BY <1>7, QueueTypes DEF Established, ClientPCs, svars
  <1>8. CASE Refused(c)
    <2>1. toClient' \in [Clients -> Seq(Messages)]
      BY <1>8, QueueTypes DEF Refused
    <2>2. cpc' \in [Clients -> ClientPCs]
      BY <1>8 DEF Refused, ClientPCs, Ended
    <2>3. PICK v \in {"open", "eof", "cut"} : sIn' = [sIn EXCEPT ![c] = v]
      BY <1>8 DEF Refused
    <2>4. sIn' \in [Clients -> {"open", "eof", "cut"}]
      BY <2>3
    <2> QED
      BY <1>8, <2>1, <2>2, <2>4 DEF Refused, svars
  <1>9. CASE HandshakeEnds(c) \/ WriteFails(c)
    BY <1>9, FatalType DEF HandshakeEnds, WriteFails
  <1>10. CASE Wake(c) \/ Test(c)
    <2>1. PICK v \in ClientPCs : cpc' = [cpc EXCEPT ![c] = v]
      BY <1>10 DEF Wake, Test, ClientPCs
    <2>2. cpc' \in [Clients -> ClientPCs]
      BY <2>1
    <2> QED
      BY <1>10, <2>2 DEF Wake, Test, svars, net
  <1>11. CASE Exit(c)
    BY <1>11, ClientEndsType DEF Exit, Ended, svars
  <1> QED
    BY <1>1, <1>3, <1>4, <1>5, <1>6, <1>7, <1>8, <1>9, <1>10, <1>11 DEF MainStep

LEMMA ReaderType ==
  ASSUME TInv, NEW c \in Clients, ReaderStep(c)
  PROVE  TInv'
  <1>1. CASE ReadMessage(c)
    <2>1. Head(toClient[c]) \in Messages
          /\ [toClient EXCEPT ![c] = Tail(@)] \in [Clients -> Seq(Messages)]
      BY <1>1, QueueTypes DEF ReadMessage, TInv
    <2>2. ToInt(Head(toClient[c]).id) \in Int
      BY <2>1, IdTypes DEF Messages
    <2>3. chanid' \in [Clients -> Int]
      BY <1>1, <2>2 DEF ReadMessage, Set, TInv
    <2> QED
      BY <1>1, <2>1, <2>3 DEF ReadMessage, TInv, svars
  <1>2. CASE ReadEOF(c)
    BY <1>2 DEF ReadEOF, TInv, Set, svars, net
  <1>3. CASE ReadFatal(c)
    BY <1>3, FatalType DEF ReadFatal
  <1> QED
    BY <1>1, <1>2, <1>3 DEF ReaderStep

LEMMA ServerType ==
  ASSUME TInv, NEW c \in Clients, ServerStep(c)
  PROVE  TInv'
  <1> USE DEF TInv, Set
  <1>1. CASE Accept(c)
    BY <1>1 DEF Accept, Troubles, cvars, net
  <1>2. CASE Receive(c)
    BY <1>2, QueueTypes DEF Receive, cvars
  <1>3. CASE ReceiveFatal(c) \/ HandshakeFatal(c) \/ DecryptFatal(c)
    BY <1>3, ServerFatalType DEF ReceiveFatal, HandshakeFatal, DecryptFatal
  <1>4. CASE Seal(c)
    <2> DEFINE t == IF hs = [mixed |-> {c}, keyed |-> FALSE] THEN "response" ELSE "spoiled"
    <2>1. Msg(t, 0) \in Messages
      BY MsgType DEF MsgTypes
    <2> HIDE DEF t
    <2>2. Put(toClient, c, Msg(t, 0)) \in [Clients -> Seq(Messages)]
      BY <2>1, QueueTypes
    <2> QED
      BY <1>4, <2>2 DEF Seal, cvars, t
  <1>5. CASE ReadFirst(c) \/ ReadLoop(c)
    <2>1. Put(got, c, Head(toServer[c])) \in [Clients -> Seq(Messages)]
          /\ [toServer EXCEPT ![c] = Tail(@)] \in [Clients -> Seq(Messages)]
      BY <1>5, QueueTypes DEF ReadFirst, ReadLoop
    <2> QED
      BY <1>5, <2>1 DEF ReadFirst, ReadLoop, cvars
  <1>6. CASE ServeEnds(c)
    BY <1>6, ServerFatalType DEF ServeEnds, cvars, net
  <1>7. CASE ReturnKeys(c)
    BY <1>7 DEF ReturnKeys, cvars, net
  <1> QED
    BY <1>1, <1>2, <1>3, <1>4, <1>5, <1>6, <1>7 DEF ServerStep

LEMMA PoolType ==
  ASSUME TInv, NEW c \in Clients, PoolReads(c) \/ PoolSends(c)
  PROVE  TInv'
  <1>1. CASE PoolReads(c)
    <2> DEFINE m == Head(toServer[c])
    <2>1. m \in Messages /\ Put(got, c, m) \in [Clients -> Seq(Messages)]
          /\ [toServer EXCEPT ![c] = Tail(@)] \in [Clients -> Seq(Messages)]
      BY <1>1, QueueTypes DEF PoolReads, TInv
    <2>2. Put(toClient, c, Msg("response", 0)) \in [Clients -> Seq(Messages)]
      <3>1. Msg("response", 0) \in Messages
        BY MsgType DEF MsgTypes
      <3> QED
        BY <3>1, QueueTypes DEF TInv
    <2>3. ASSUME NEW id \in ChannelIDs
          PROVE  /\ [opened EXCEPT ![c] = @ \cup {id}] \in [Clients -> SUBSET ChannelIDs]
                 /\ Put(toClient, c, Msg("OpenExtendedMiningChannelSuccess", id))
                      \in [Clients -> Seq(Messages)]
      <3>1. id \in Int
        BY SessionAssumption
      <3>2. Msg("OpenExtendedMiningChannelSuccess", id) \in Messages
        BY <3>1, MsgType DEF MsgTypes
      <3>3. Put(toClient, c, Msg("OpenExtendedMiningChannelSuccess", id))
              \in [Clients -> Seq(Messages)]
        BY <3>2, QueueTypes DEF TInv
      <3>4. opened \in [Clients -> SUBSET ChannelIDs]
        BY DEF TInv
      <3> QED
        BY <3>3, <3>4
    <2> HIDE DEF m
    <2>4. got' \in [Clients -> Seq(Messages)] /\ toClient' \in [Clients -> Seq(Messages)]
          /\ opened' \in [Clients -> SUBSET ChannelIDs]
          /\ toServer' \in [Clients -> Seq(Messages)]
      <3>1. toServer' = [toServer EXCEPT ![c] = Tail(@)]
            /\ (got' = got \/ got' = Put(got, c, m))
        BY <1>1 DEF PoolReads, m
      <3>2. \/ UNCHANGED <<opened, toClient>>
            \/ opened' = opened /\ toClient' = Put(toClient, c, Msg("response", 0))
            \/ \E id \in ChannelIDs :
                 /\ opened' = [opened EXCEPT ![c] = @ \cup {id}]
                 /\ toClient' = Put(toClient, c, Msg("OpenExtendedMiningChannelSuccess", id))
        BY <1>1 DEF PoolReads
      <3>3. toServer' \in [Clients -> Seq(Messages)] /\ got' \in [Clients -> Seq(Messages)]
        BY <2>1, <3>1 DEF TInv
      <3>4. opened' \in [Clients -> SUBSET ChannelIDs]
            /\ toClient' \in [Clients -> Seq(Messages)]
        <4>1. opened \in [Clients -> SUBSET ChannelIDs]
              /\ toClient \in [Clients -> Seq(Messages)]
          BY DEF TInv
        <4>2. CASE \E id \in ChannelIDs :
                 /\ opened' = [opened EXCEPT ![c] = @ \cup {id}]
                 /\ toClient' = Put(toClient, c, Msg("OpenExtendedMiningChannelSuccess", id))
          BY <2>3, <4>2
        <4> QED
          BY <2>2, <3>2, <4>1, <4>2
      <3> QED
        BY <3>3, <3>4
    <2> QED
      BY <1>1, <2>4 DEF PoolReads, TInv, cvars
  <1>2. CASE PoolSends(c)
    <2>1. Msg("NewExtendedMiningJob", 0) \in Messages
      BY MsgType DEF MsgTypes
    <2>2. Put(toClient, c, Msg("NewExtendedMiningJob", 0)) \in [Clients -> Seq(Messages)]
      BY <2>1, QueueTypes DEF TInv
    <2> QED
      BY <1>2, <2>2 DEF PoolSends, TInv, cvars, svars
  <1> QED
    BY <1>1, <1>2

LEMMA EnvironmentType ==
  ASSUME TInv, (\E c \in Clients : Signal(c) \/ Kill(c) \/ Break(c)) \/ SignalServer
  PROVE  TInv'
  <1>1. ASSUME NEW c \in Clients, Signal(c) PROVE TInv'
    BY <1>1 DEF Signal, TInv, Set, svars, net
  <1>2. ASSUME NEW c \in Clients, Kill(c) PROVE TInv'
    <2>1. trouble' \in [Clients -> SUBSET Troubles]
      <3>1. trouble' = trouble \/ trouble' = [trouble EXCEPT ![c] = @ \cup {"killed early"}]
        BY <1>2 DEF Kill, Note
      <3>2. [trouble EXCEPT ![c] = @ \cup {"killed early"}] \in [Clients -> SUBSET Troubles]
        BY DEF TInv, Troubles
      <3> QED
        BY <3>1, <3>2 DEF TInv
    <2> QED
      BY <1>2, <2>1, ClientEndsType DEF Kill, TInv, Ended, svars
  <1>3. ASSUME NEW c \in Clients, Break(c) PROVE TInv'
    <2>1. trouble' \in [Clients -> SUBSET Troubles]
      BY <1>3 DEF Break, Note, TInv, Troubles
    <2>2. <<>> \in Seq(Messages)
      BY EmptySeq
    <2> QED
      BY <1>3, <2>1, <2>2 DEF Break, TInv, Set, cvars, svars
  <1>4. CASE SignalServer
    BY <1>4, ServerEndsType DEF SignalServer, TInv, cvars
  <1> QED
    BY <1>1, <1>2, <1>3, <1>4

LEMMA InitTInv == Init => TInv
  <1> SUFFICES ASSUME Init PROVE TInv
    OBVIOUS
  <1>1. wide \in BOOLEAN /\ \A c \in Clients : sig[c] \in BOOLEAN
    BY DEF Init
  <1>2. cpc \in [Clients -> ClientPCs]
    BY DEF Init, ClientPCs, Ended
  <1>3. hs \in [mixed : SUBSET Clients, keyed : BOOLEAN]
    BY DEF Init
  <1>4. <<>> \in Seq(Messages)
    BY EmptySeq
  <1> QED
    BY <1>1, <1>2, <1>3, <1>4 DEF Init, TInv

LEMMA NextTInv == TInv /\ [Next]_vars => TInv'
  <1> SUFFICES ASSUME TInv, [Next]_vars PROVE TInv'
    OBVIOUS
  <1>1. CASE UNCHANGED vars
    BY <1>1 DEF vars, cvars, svars, net, TInv
  <1>2. CASE Next
    BY <1>2, MainType, ReaderType, ServerType, PoolType, EnvironmentType DEF Next
  <1> QED
    BY <1>1, <1>2

-----------------------------------------------------------------------------
(* What each variable can do in a step *)

Env(c) == Signal(c) \/ Kill(c) \/ Break(c)
Step(c) == MainStep(c) \/ ReaderStep(c) \/ ServerStep(c)
           \/ PoolReads(c) \/ PoolSends(c) \/ Env(c)

\* Trouble is never forgotten.
LEMMA TroubleGrows ==
  ASSUME TInv, NEW c \in Clients, Step(c)
  PROVE  \A d \in Clients : trouble[d] \subseteq trouble'[d]
  <1>1. CASE Accept(c)
    BY <1>1 DEF Accept
  <1>2. CASE Kill(c) \/ Break(c)
    <2>1. ASSUME NEW t, trouble' = [trouble EXCEPT ![c] = @ \cup {t}], NEW d \in Clients
          PROVE  trouble[d] \subseteq trouble'[d]
      BY <2>1 DEF TInv
    <2>2. CASE UNCHANGED trouble
      BY <2>2
    <2> QED
      BY <1>2, <2>1, <2>2 DEF Kill, Break, Note
  <1>3. CASE MainStep(c)
    BY <1>3 DEF MainStep, Dial, Initiate, Established, Refused, HandshakeEnds, WriteSetup,
       WriteOpen, WriteFails, Wake, Test, WriteClose, Exit, Write, Fatal
  <1>4. CASE ServerStep(c) /\ ~ Accept(c)
    BY <1>4 DEF ServerStep, Receive, ReceiveFatal, Seal, ReturnKeys, HandshakeFatal,
       ReadFirst, ReadLoop, DecryptFatal, ServeEnds, ServerFatal
  <1>5. CASE ReaderStep(c) \/ PoolReads(c) \/ PoolSends(c) \/ Signal(c)
    BY <1>5 DEF ReaderStep, ReadMessage, ReadEOF, ReadFatal, Fatal, PoolReads, PoolSends, Signal
  <1> QED
    BY <1>1, <1>2, <1>3, <1>4, <1>5 DEF Step, Env

\* A step of one client, of its goroutine in the server or of its connection
\* leaves the others alone.
LEMMA OtherClients ==
  ASSUME TInv, NEW c \in Clients, Step(c), NEW d \in Clients, d # c
  PROVE  /\ cpc'[d] = cpc[d] /\ chanid'[d] = chanid[d]
         /\ toServer'[d] = toServer[d] /\ toClient'[d] = toClient[d] /\ sIn'[d] = sIn[d]
         /\ spc'[d] = spc[d] /\ opened'[d] = opened[d] /\ got'[d] = got[d]
  <1> USE DEF TInv, Set, Put
  <1>1. CASE \E how : ClientEnds(c, how) /\ UNCHANGED <<chanid, svars>>
    BY <1>1 DEF ClientEnds, svars
  <1>2. CASE ServerFatal
    BY <1>2 DEF ServerFatal, ServerEnds, cvars
  <1>3. CASE Dial(c) \/ HandshakeEnds(c) \/ WriteFails(c) \/ Exit(c)
    BY <1>1, <1>3 DEF Dial, HandshakeEnds, WriteFails, Exit, Fatal, svars, net
  <1>4. CASE Initiate(c) \/ WriteSetup(c) \/ WriteOpen(c) \/ WriteClose(c)
    BY <1>4 DEF Initiate, WriteSetup, WriteOpen, WriteClose, Write, svars
  <1>5. CASE Established(c) \/ Refused(c) \/ Wake(c) \/ Test(c)
    BY <1>5 DEF Established, Refused, Wake, Test, svars, net
  <1>6. CASE ReaderStep(c)
    BY <1>1, <1>6 DEF ReaderStep, ReadMessage, ReadEOF, ReadFatal, Fatal, svars, net
  <1>7. CASE Accept(c) \/ Receive(c) \/ Seal(c) \/ ReturnKeys(c)
    BY <1>7 DEF Accept, Receive, Seal, ReturnKeys, cvars, net
  <1>8. CASE ReadFirst(c) \/ ReadLoop(c) \/ ServeEnds(c)
    BY <1>2, <1>8 DEF ReadFirst, ReadLoop, ServeEnds, cvars, net
  <1>9. CASE ReceiveFatal(c) \/ HandshakeFatal(c) \/ DecryptFatal(c)
    BY <1>2, <1>9 DEF ReceiveFatal, HandshakeFatal, DecryptFatal
  <1>10. CASE PoolReads(c) \/ PoolSends(c)
    BY <1>10 DEF PoolReads, PoolSends, cvars, svars
  <1>11. CASE Env(c)
    BY <1>1, <1>11 DEF Env, Signal, Kill, Break, cvars, svars, net
  <1> QED
    BY <1>3, <1>4, <1>5, <1>6, <1>7, <1>8, <1>9, <1>10, <1>11 DEF Step, MainStep, ServerStep

\* The client's end of a connection changes when it breaks and when the
\* server ends.
LEMMA LinkChanges ==
  ASSUME TInv, NEW c \in Clients, Step(c)
  PROVE  \/ UNCHANGED <<down, cIn>>
         \/ Break(c)
         \/ ServerEnds("fatal")
  <1>1. CASE MainStep(c)
    BY <1>1 DEF MainStep, Dial, Initiate, Established, Refused, HandshakeEnds, WriteSetup,
       WriteOpen, WriteFails, Wake, Test, WriteClose, Exit, Write, Fatal, ClientEnds, svars, net
  <1>2. CASE ServerStep(c)
    BY <1>2 DEF ServerStep, Accept, Receive, ReceiveFatal, Seal, ReturnKeys, HandshakeFatal,
       ReadFirst, ReadLoop, DecryptFatal, ServeEnds, ServerFatal, net
  <1>3. CASE ReaderStep(c) \/ PoolReads(c) \/ PoolSends(c) \/ Signal(c) \/ Kill(c)
    BY <1>3 DEF ReaderStep, ReadMessage, ReadEOF, ReadFatal, Fatal, PoolReads, PoolSends,
       Signal, Kill, ClientEnds, svars, net
  <1> QED
    BY <1>1, <1>2, <1>3 DEF Step, Env

LEMMA StepLinkInv ==
  ASSUME TInv, LinkInv, NEW c \in Clients, Step(c)
  PROVE  LinkInv'
  <1>1. \A d \in Clients : trouble[d] \subseteq trouble'[d]
    BY TroubleGrows
  <1>2. CASE UNCHANGED <<down, cIn>>
    BY <1>1, <1>2 DEF LinkInv, Has
  <1>3. CASE Break(c)
    <2>1. cIn' = [cIn EXCEPT ![c] = "cut"] /\ down' = down /\ "broken" \in trouble'[c]
      BY <1>3 DEF Break, Set, Note, TInv, svars
    <2> QED
      BY <1>1, <2>1 DEF LinkInv, Has, TInv
  <1>4. CASE ServerEnds("fatal")
    BY <1>4, ServerEndsType DEF LinkInv
  <1> QED
    BY <1>2, <1>3, <1>4, LinkChanges

\* The server's handshakes.
LEMMA HandshakeChanges ==
  ASSUME TInv, NEW c \in Clients, Step(c)
  PROVE  \/ Accept(c) \/ Receive(c) \/ Seal(c) \/ ReturnKeys(c)
         \/ /\ UNCHANGED hs
            /\ \A d \in Clients : \/ spc'[d] = spc[d]
                                  \/ /\ spc[d] \in {"first", "loop", "wrongkeys"}
                                     /\ spc'[d] \in {"loop", "returned"}
  <1>1. CASE MainStep(c)
    BY <1>1 DEF MainStep, Dial, Initiate, Established, Refused, HandshakeEnds, WriteSetup,
       WriteOpen, WriteFails, Wake, Test, WriteClose, Exit, Write, Fatal, svars
  <1>2. CASE ReceiveFatal(c) \/ HandshakeFatal(c) \/ DecryptFatal(c) \/ ReadLoop(c)
    BY <1>2 DEF ReceiveFatal, HandshakeFatal, DecryptFatal, ReadLoop, ServerFatal
  <1>3. CASE ReadFirst(c) \/ ServeEnds(c)
    BY <1>3 DEF ReadFirst, ServeEnds, ServerFatal, Set, TInv
  <1>4. CASE ReaderStep(c) \/ PoolReads(c) \/ PoolSends(c) \/ Env(c)
    BY <1>4 DEF ReaderStep, ReadMessage, ReadEOF, ReadFatal, Fatal, PoolReads, PoolSends,
       Env, Signal, Kill, Break, svars
  <1> QED
    BY <1>1, <1>2, <1>3, <1>4 DEF Step, ServerStep

LEMMA StepOverlapInv ==
  ASSUME TInv, OverlapInv, NEW c \in Clients, Step(c)
  PROVE  OverlapInv'
  <1>1. \A d \in Clients : trouble[d] \subseteq trouble'[d]
    BY TroubleGrows
  <1> SUFFICES ASSUME NEW d \in Clients, spc'[d] \in InHandshake, ~ Has(d, "overlap")'
               PROVE  /\ hs' = [mixed |-> IF spc'[d] = "handshake" THEN {} ELSE {d},
                               keyed |-> spc'[d] = "keys"]
                      /\ \A e \in Clients \ {d} : spc'[e] \notin InHandshake
    BY DEF OverlapInv
  <1>2. ~ Has(d, "overlap")
    BY <1>1 DEF Has
  <1>3. CASE Accept(c)
    <2>1. hs' = [mixed |-> {}, keyed |-> FALSE] /\ spc' = [spc EXCEPT ![c] = "handshake"]
          /\ spc[c] = "none"
      BY <1>3 DEF Accept, Set
    <2>2. ~ \E e \in Clients \ {c} : d \in {c, e} /\ spc[e] \in InHandshake
      BY <1>3 DEF Accept, Has
    <2>3. d = c
      BY <2>1, <2>2 DEF TInv
    <2> QED
      BY <2>1, <2>2, <2>3 DEF TInv
  <1>4. CASE Receive(c)
    <2>1. spc' = [spc EXCEPT ![c] = "seal"] /\ spc[c] = "handshake"
          /\ hs' = [hs EXCEPT !.mixed = @ \cup {c}]
      BY <1>4 DEF Receive, Set
    <2>2. d = c
      BY <1>2, <2>1 DEF OverlapInv, InHandshake, TInv
    <2>3. hs = [mixed |-> {}, keyed |-> FALSE] /\ \A e \in Clients \ {d} : spc[e] \notin InHandshake
      BY <1>2, <2>1, <2>2 DEF OverlapInv, InHandshake
    <2> QED
      BY <2>1, <2>2, <2>3 DEF TInv
  <1>5. CASE Seal(c)
    <2>1. spc' = [spc EXCEPT ![c] = "keys"] /\ spc[c] = "seal"
          /\ hs' = [hs EXCEPT !.keyed = TRUE]
      BY <1>5 DEF Seal, Set
    <2>2. d = c
      BY <1>2, <2>1 DEF OverlapInv, InHandshake, TInv
    <2>3. hs = [mixed |-> {c}, keyed |-> FALSE] /\ \A e \in Clients \ {d} : spc[e] \notin InHandshake
      BY <1>2, <2>1, <2>2 DEF OverlapInv, InHandshake
    <2> QED
      BY <2>1, <2>2, <2>3 DEF TInv
  <1>6. CASE ReturnKeys(c)
    <2>1. spc[c] = "keys" /\ spc'[c] \in {"first", "wrongkeys"}
      BY <1>6 DEF ReturnKeys, Set, TInv
    <2>2. d # c
      BY <2>1 DEF InHandshake
    <2>3. spc'[d] = spc[d]
      BY <1>6, <2>2 DEF ReturnKeys, Set, TInv
    <2> QED
      BY <1>2, <2>1, <2>2, <2>3 DEF OverlapInv, InHandshake
  <1>7. CASE /\ UNCHANGED hs
             /\ \A e \in Clients : \/ spc'[e] = spc[e]
                                   \/ /\ spc[e] \in {"first", "loop", "wrongkeys"}
                                      /\ spc'[e] \in {"loop", "returned"}
    <2>1. \A e \in Clients : spc'[e] \in InHandshake => spc'[e] = spc[e]
      BY <1>7 DEF InHandshake
    <2> QED
      BY <1>2, <1>7, <2>1 DEF OverlapInv
  <1> QED
    BY <1>3, <1>4, <1>5, <1>6, <1>7, HandshakeChanges

LEMMA StepKeysInv ==
  ASSUME TInv, OverlapInv, KeysInv, NEW c \in Clients, Step(c)
  PROVE  KeysInv'
  <1>1. \A d \in Clients : trouble[d] \subseteq trouble'[d]
    BY TroubleGrows
  <1> SUFFICES ASSUME NEW d \in Clients, spc'[d] = "wrongkeys", ~ Has(d, "overlap")
               PROVE  FALSE
    BY <1>1 DEF KeysInv, Has
  <1>2. CASE ReturnKeys(c) /\ d = c
    <2>1. spc[c] = "keys" /\ hs # [mixed |-> {c}, keyed |-> TRUE]
      BY <1>2 DEF ReturnKeys, Set, TInv
    <2> QED
      BY <1>2, <2>1 DEF OverlapInv, InHandshake
  <1>3. CASE spc'[d] = spc[d]
    BY <1>3 DEF KeysInv
  <1>4. CASE d # c
    BY <1>3, <1>4, OtherClients
  <1>5. CASE Accept(c) \/ Receive(c) \/ Seal(c)
    BY <1>4, <1>5 DEF Accept, Receive, Seal, Set, TInv
  <1> QED
    BY <1>2, <1>3, <1>4, <1>5, HandshakeChanges

-----------------------------------------------------------------------------
(* The queues *)

LEMMA TailElements ==
  ASSUME NEW q \in Seq(Messages), q # <<>>
  PROVE  /\ Tail(q) \in Seq(Messages) /\ Len(Tail(q)) = Len(q) - 1 /\ Len(q) \in Nat \ {0}
         /\ Head(q) = q[1] /\ 1 \in 1 .. Len(q)
         /\ \A i \in 1 .. Len(Tail(q)) : i + 1 \in 1 .. Len(q) /\ Tail(q)[i] = q[i + 1]
  <1>1. Len(q) \in Nat \ {0}
    BY EmptySeq
  <1>2. Tail(q) \in Seq(Messages) /\ Len(Tail(q)) = Len(q) - 1
        /\ \A i \in 1 .. Len(Tail(q)) : Tail(q)[i] = q[i + 1]
    BY HeadTailProperties
  <1>3. \A i \in 1 .. Len(Tail(q)) : i + 1 \in 1 .. Len(q)
    BY <1>1, <1>2
  <1>4. Head(q) = q[1]
    BY DEF Head
  <1> QED
    BY <1>1, <1>2, <1>3, <1>4

LEMMA AppendElements ==
  ASSUME NEW q \in Seq(Messages), NEW m \in Messages
  PROVE  /\ Append(q, m) \in Seq(Messages) /\ Len(Append(q, m)) = Len(q) + 1 /\ Len(q) \in Nat
         /\ Append(q, m)[Len(q) + 1] = m
         /\ \A i \in 1 .. Len(q) : Append(q, m)[i] = q[i]
         /\ \A i \in 1 .. Len(Append(q, m)) : i \in 1 .. Len(q) \/ i = Len(q) + 1
  <1>1. Len(q) \in Nat
    BY LenProperties
  <1>2. Append(q, m) \in Seq(Messages) /\ Len(Append(q, m)) = Len(q) + 1
        /\ Append(q, m)[Len(q) + 1] = m
        /\ \A i \in 1 .. Len(q) : Append(q, m)[i] = q[i]
    BY AppendProperties
  <1>3. \A i \in 1 .. Len(q) + 1 : i \in 1 .. Len(q) \/ i = Len(q) + 1
    BY <1>1
  <1> QED
    BY <1>1, <1>2, <1>3

\* The messages on their way to the client.
PoolPuts(c) ==
  /\ kind = "pool" /\ UNCHANGED <<cpc, spc>>
  /\ \E m \in Messages :
       /\ m.type # "spoiled"
       /\ m.type = "OpenExtendedMiningChannelSuccess" => m.id \in opened'[c]
       /\ toClient' = Put(toClient, c, m)

Takes(c) == toClient[c] # <<>> /\ toClient' = [toClient EXCEPT ![c] = Tail(@)]

LEMMA ToClientChanges ==
  ASSUME TInv, NEW c \in Clients, Step(c)
  PROVE  \/ UNCHANGED toClient \/ Takes(c) \/ Break(c) \/ Seal(c) \/ PoolPuts(c)
  <1>1. CASE MainStep(c)
    BY <1>1 DEF MainStep, Dial, Initiate, Established, Refused, HandshakeEnds, WriteSetup, Takes,
       WriteOpen, WriteFails, Wake, Test, WriteClose, Exit, Write, Fatal, ClientEnds, net
  <1>2. CASE ServerStep(c)
    BY <1>2 DEF ServerStep, Accept, Receive, ReceiveFatal, ReturnKeys, HandshakeFatal,
       ReadFirst, ReadLoop, DecryptFatal, ServeEnds, ServerFatal, ServerEnds, net
  <1>3. CASE ReaderStep(c) \/ Signal(c) \/ Kill(c)
    BY <1>3 DEF ReaderStep, ReadMessage, ReadEOF, ReadFatal, Fatal, Takes, Signal, Kill,
       ClientEnds, net
  <1>4. CASE PoolReads(c)
    <2>1. kind = "pool" /\ UNCHANGED <<cpc, spc>>
      BY <1>4 DEF PoolReads, cvars
    <2>2. CASE UNCHANGED toClient
      BY <2>2
    <2>3. CASE toClient' = Put(toClient, c, Msg("response", 0))
      <3>1. Msg("response", 0) \in Messages /\ Msg("response", 0).type = "response"
        BY MsgType DEF MsgTypes
      <3> QED
        BY <2>1, <2>3, <3>1 DEF PoolPuts
    <2>4. ASSUME NEW id \in ChannelIDs, opened' = [opened EXCEPT ![c] = @ \cup {id}],
                 toClient' = Put(toClient, c, Msg("OpenExtendedMiningChannelSuccess", id))
          PROVE  PoolPuts(c)
      <3> DEFINE m == Msg("OpenExtendedMiningChannelSuccess", id)
      <3>1. id \in Int /\ id \in opened'[c]
        BY <2>4, SessionAssumption DEF TInv
      <3>2. m \in Messages /\ m.type = "OpenExtendedMiningChannelSuccess" /\ m.id = id
        BY <3>1, MsgType DEF MsgTypes
      <3> QED
        BY <2>1, <2>4, <3>1, <3>2 DEF PoolPuts
    <2> QED
      BY <1>4, <2>2, <2>3, <2>4 DEF PoolReads
  <1>5. CASE PoolSends(c)
    <2>1. Msg("NewExtendedMiningJob", 0) \in Messages
          /\ Msg("NewExtendedMiningJob", 0).type = "NewExtendedMiningJob"
      BY MsgType DEF MsgTypes
    <2> QED
      BY <1>5, <2>1 DEF PoolSends, PoolPuts, cvars, svars
  <1> QED
    BY <1>1, <1>2, <1>3, <1>4, <1>5 DEF Step, Env

\* What Seal sends, and when.
LEMMA SealSends ==
  ASSUME TInv, NEW c \in Clients, Seal(c)
  PROVE  /\ kind = "example" /\ spc[c] = "seal" /\ spc' = [spc EXCEPT ![c] = "keys"]
         /\ UNCHANGED <<cpc, opened, chanid, trouble, sIn, down, wide>>
         /\ \/ UNCHANGED toClient
            \/ \E m \in Messages :
                 /\ toClient' = Put(toClient, c, m)
                 /\ m.type \in {"response", "spoiled"}
                 /\ m.type = "spoiled" => hs # [mixed |-> {c}, keyed |-> FALSE]
  <1> DEFINE t == IF hs = [mixed |-> {c}, keyed |-> FALSE] THEN "response" ELSE "spoiled"
  <1>1. Msg(t, 0) \in Messages /\ Msg(t, 0).type = t
    BY MsgType DEF MsgTypes
  <1>2. t \in {"response", "spoiled"} /\ (t = "spoiled" => hs # [mixed |-> {c}, keyed |-> FALSE])
    OBVIOUS
  <1>3. toClient' = IF sIn[c] # "open" THEN toClient ELSE Put(toClient, c, Msg(t, 0))
    BY DEF Seal
  <1>4. kind = "example" /\ spc[c] = "seal" /\ spc' = [spc EXCEPT ![c] = "keys"]
        /\ UNCHANGED <<cpc, opened, chanid, trouble, sIn, down, wide>>
    BY DEF Seal, Up, Set, cvars
  <1> HIDE DEF t
  <1> QED
    BY <1>1, <1>2, <1>3, <1>4

LEMMA StepSpoiledInv ==
  ASSUME TInv, OverlapInv, SpoiledInv, NEW c \in Clients, Step(c)
  PROVE  SpoiledInv'
  <1>1. \A d \in Clients : trouble[d] \subseteq trouble'[d]
    BY TroubleGrows
  <1> SUFFICES ASSUME NEW d \in Clients, NEW i \in 1 .. Len(toClient'[d]),
                      toClient'[d][i].type = "spoiled"
               PROVE  Has(d, "overlap")'
    BY DEF SpoiledInv
  <1>2. CASE toClient'[d] = toClient[d]
    BY <1>1, <1>2 DEF SpoiledInv, Has
  <1>3. CASE Takes(c) /\ d = c
    <2>1. toClient[c] \in Seq(Messages) /\ toClient[c] # <<>> /\ toClient'[c] = Tail(toClient[c])
      BY <1>3 DEF Takes, TInv
    <2>2. PICK j \in 1 .. Len(toClient[c]) : toClient'[c][i] = toClient[c][j]
      BY <1>3, <2>1, TailElements
    <2> QED
      BY <1>1, <1>3, <2>2 DEF SpoiledInv, Has
  <1>4. CASE Break(c) /\ d = c
    <2>1. toClient'[c] = <<>>
      BY <1>4 DEF Break, TInv
    <2> QED
      BY <1>4, <2>1
  <1>5. ASSUME NEW m \in Messages, toClient' = Put(toClient, c, m), d = c,
               m.type = "spoiled" => Has(c, "overlap")
        PROVE  Has(d, "overlap")'
    <2>1. toClient[c] \in Seq(Messages) /\ toClient'[c] = Append(toClient[c], m)
      BY <1>5 DEF Put, TInv
    <2>2. (i \in 1 .. Len(toClient[c]) /\ toClient'[c][i] = toClient[c][i]) \/ toClient'[c][i] = m
      BY <1>5, <2>1, AppendElements
    <2> QED
      BY <1>1, <1>5, <2>2 DEF SpoiledInv, Has
  <1>6. CASE Seal(c) /\ d = c
    <2>1. hs # [mixed |-> {c}, keyed |-> FALSE] => Has(c, "overlap")
      BY <1>6, SealSends DEF OverlapInv, InHandshake
    <2> QED
      BY <1>2, <1>5, <1>6, <2>1, SealSends
  <1>7. CASE PoolPuts(c) /\ d = c
    BY <1>5, <1>7 DEF PoolPuts
  <1>8. CASE d # c
    BY <1>2, <1>8, OtherClients
  <1> QED
    BY <1>2, <1>3, <1>4, <1>6, <1>7, <1>8, ToClientChanges

-----------------------------------------------------------------------------
(* Trouble *)

LEMMA Fixed ==
  ASSUME NEW c \in Clients, Step(c)
  PROVE  UNCHANGED <<kind, wide, auth>>
  <1>1. CASE MainStep(c)
    BY <1>1 DEF MainStep, Dial, Initiate, Established, Refused, HandshakeEnds, WriteSetup,
       WriteOpen, WriteFails, Wake, Test, WriteClose, Exit, Write, Fatal
  <1>2. CASE ServerStep(c)
    BY <1>2 DEF ServerStep, Accept, Receive, ReceiveFatal, Seal, ReturnKeys, HandshakeFatal,
       ReadFirst, ReadLoop, DecryptFatal, ServeEnds, ServerFatal
  <1>3. CASE ReaderStep(c) \/ PoolReads(c) \/ PoolSends(c) \/ Env(c)
    BY <1>3 DEF ReaderStep, ReadMessage, ReadEOF, ReadFatal, Fatal, PoolReads, PoolSends,
       Env, Signal, Kill, Break
  <1> QED
    BY <1>1, <1>2, <1>3 DEF Step

\* The client's own steps of the program counter: it stays on its side of the
\* handshake, ends, or leaves the handshake with the response.
Before == {"dial", "initiate", "handshake"} \cup Ended

LEMMA CpcChanges ==
  ASSUME TInv, NEW c \in Clients, Step(c)
  PROVE  \/ UNCHANGED cpc
         \/ cpc[c] \in Before /\ cpc'[c] \in Before /\ (UNCHANGED <<toClient, spc>> \/ Takes(c))
         \/ cpc[c] \notin Before /\ UNCHANGED <<toClient, spc>>
         \/ Takes(c) /\ UNCHANGED spc
  <1> USE DEF TInv, Set, Before, Ended
  <1>1. CASE Dial(c) \/ HandshakeEnds(c)
    BY <1>1 DEF Dial, HandshakeEnds, Fatal, ClientEnds, svars, net
  <1>2. CASE WriteFails(c) \/ Exit(c)
    BY <1>2 DEF WriteFails, Exit, Fatal, ClientEnds, svars, net
  <1>3. CASE Initiate(c)
    BY <1>3 DEF Initiate, svars
  <1>4. CASE Established(c) \/ Refused(c)
    BY <1>4 DEF Established, Refused, svars, Takes
  <1>5. CASE WriteSetup(c) \/ WriteOpen(c) \/ WriteClose(c) \/ Wake(c) \/ Test(c)
    BY <1>5 DEF WriteSetup, WriteOpen, WriteClose, Write, Wake, Test, svars, net
  <1>6. CASE ReadMessage(c) \/ ReadEOF(c) \/ Signal(c) \/ Break(c)
    BY <1>6 DEF ReadMessage, ReadEOF, Signal, Break, cvars
  <1>7. CASE ReadFatal(c) \/ Kill(c)
    <2>1. cpc'[c] \in Ended /\ UNCHANGED <<toClient, spc>>
      BY <1>7 DEF ReadFatal, Kill, Fatal, ClientEnds, svars
    <2> QED
      BY <2>1
  <1>8. CASE ServerStep(c) \/ PoolReads(c) \/ PoolSends(c)
    BY <1>8 DEF ServerStep, Accept, Receive, ReceiveFatal, Seal, ReturnKeys, HandshakeFatal,
       ReadFirst, ReadLoop, DecryptFatal, ServeEnds, ServerFatal, PoolReads, PoolSends, cvars
  <1> QED
    BY <1>1, <1>2, <1>3, <1>4, <1>5, <1>6, <1>7, <1>8 DEF Step, MainStep, ReaderStep, Env

LEMMA StepResponseInv ==
  ASSUME TInv, ResponseInv, NEW c \in Clients, Step(c)
  PROVE  ResponseInv'
  <1> SUFFICES ASSUME kind' = "example", NEW d \in Clients
               PROVE  /\ Len(toClient'[d]) <= 1
                      /\ cpc'[d] \notin Before => toClient'[d] = <<>>
                      /\ spc'[d] \in {"none", "handshake", "seal"} =>
                           toClient'[d] = <<>> /\ cpc'[d] \in Before
    BY DEF ResponseInv, Before
  <1>1. kind = "example"
    BY Fixed
  <1>2. /\ Len(toClient[d]) <= 1
        /\ cpc[d] \notin Before => toClient[d] = <<>>
        /\ spc[d] \in {"none", "handshake", "seal"} => toClient[d] = <<>> /\ cpc[d] \in Before
    BY <1>1 DEF ResponseInv, Before
  <1>3. CASE d # c
    BY <1>2, <1>3, OtherClients
  <1>4. CASE d = c /\ Takes(c)
    <2>1. toClient[c] \in Seq(Messages) /\ toClient[c] # <<>> /\ toClient'[c] = Tail(toClient[c])
      BY <1>4 DEF Takes, TInv
    <2>2. Len(toClient'[c]) = 0 /\ toClient'[c] = <<>>
      <3>1. Len(toClient'[c]) = Len(toClient[c]) - 1 /\ Len(toClient[c]) \in Nat \ {0}
            /\ toClient'[c] \in Seq(Messages)
        BY <2>1, TailElements
      <3>2. Len(toClient[c]) <= 1
        BY <1>2, <1>4
      <3>3. Len(toClient'[c]) = 0
        <4>1. \A n \in Nat \ {0} : n <= 1 => n - 1 = 0
          OBVIOUS
        <4> QED
          BY <3>1, <3>2, <4>1
      <3> QED
        BY <3>1, <3>3, EmptySeq
    <2>3. spc[c] \notin {"none", "handshake", "seal"}
      BY <1>2, <1>4, <2>1
    <2>4. spc'[c] \notin {"none", "handshake", "seal"}
      BY <1>4, <2>3, HandshakeChanges DEF Accept, Receive, Seal, ReturnKeys, Set, TInv
    <2> QED
      BY <1>4, <2>2, <2>4
  <1>5. CASE d = c /\ Seal(c)
    <2>1. spc'[c] = "keys" /\ toClient[c] = <<>> /\ cpc'[c] \in Before
      BY <1>2, <1>5, SealSends DEF TInv
    <2>2. Len(toClient'[c]) <= 1
      <3>1. ASSUME NEW m \in Messages, toClient' = Put(toClient, c, m)
            PROVE  Len(toClient'[c]) <= 1
        <4>1. toClient[c] \in Seq(Messages) /\ toClient'[c] = Append(<<>>, m)
          BY <2>1, <3>1 DEF Put, TInv
        <4>2. <<>> \in Seq(Messages) /\ Len(<<>>) = 0
          BY EmptySeq
        <4>3. Len(Append(<<>>, m)) = Len(<<>>) + 1
          BY <4>2, AppendElements
        <4> QED
          BY <4>1, <4>2, <4>3
      <3> QED
        BY <1>2, <1>5, <3>1, SealSends
    <2> QED
      BY <1>5, <2>1, <2>2
  <1>6. CASE d = c /\ Break(c)
    <2>1. toClient'[c] = <<>> /\ cpc' = cpc /\ spc' = spc
      BY <1>6 DEF Break, cvars, svars, TInv
    <2> QED
      BY <1>2, <1>6, <2>1
  <1>7. CASE d = c /\ UNCHANGED toClient /\ ~ Takes(c) /\ ~ Seal(c)
    <2>1. spc'[c] \in {"none", "handshake", "seal"} => spc[c] \in {"none", "handshake", "seal"}
      BY <1>7, HandshakeChanges DEF Accept, Receive, ReturnKeys, Set, TInv
    <2> QED
      BY <1>2, <1>7, <2>1, CpcChanges
  <1>8. ~ PoolPuts(c)
    BY <1>1 DEF PoolPuts
  <1> QED
    BY <1>3, <1>4, <1>5, <1>6, <1>7, <1>8, ToClientChanges

\* What the server meets behind the last message: it changes when the
\* client's process ends, when the client refuses the response and closes,
\* and when the connection breaks.
LEMMA SInChanges ==
  ASSUME NEW c \in Clients, Step(c)
  PROVE  \/ UNCHANGED sIn \/ Break(c) \/ Refused(c) \/ Dial(c) \/ HandshakeEnds(c)
         \/ WriteFails(c) \/ Exit(c) \/ ReadFatal(c) \/ Kill(c)
  <1>1. CASE MainStep(c)
    BY <1>1 DEF MainStep, Initiate, Established, WriteSetup, WriteOpen, Wake, Test,
       WriteClose, Write, net
  <1>2. CASE ServerStep(c)
    BY <1>2 DEF ServerStep, Accept, Receive, ReceiveFatal, Seal, ReturnKeys, HandshakeFatal,
       ReadFirst, ReadLoop, DecryptFatal, ServeEnds, ServerFatal, ServerEnds, net
  <1>3. CASE ReaderStep(c) \/ PoolReads(c) \/ PoolSends(c) \/ Env(c)
    BY <1>3 DEF ReaderStep, ReadMessage, ReadEOF, PoolReads, PoolSends, Env, Signal, net
  <1> QED
    BY <1>1, <1>2, <1>3 DEF Step

LEMMA StepDisturbedInv ==
  ASSUME TInv, LinkInv, ResponseInv, DisturbedInv, NEW c \in Clients, Step(c)
  PROVE  DisturbedInv'
  <1> SUFFICES ASSUME kind' = "example", down' = "no", NEW d \in Clients
               PROVE  /\ sIn'[d] = "cut" => Disturbed(d)'
                      /\ spc'[d] \in {"none", "handshake"} /\ sIn'[d] # "open" => Disturbed(d)'
    BY DEF DisturbedInv
  <1>1. kind = "example" /\ down = "no"
    BY Fixed, LinkChanges DEF Break, svars, ServerEnds
  <1>2. Disturbed(d) => Disturbed(d)'
    BY TroubleGrows DEF Disturbed, Has
  <1>3. /\ sIn[d] = "cut" => Disturbed(d)
        /\ spc[d] \in {"none", "handshake"} /\ sIn[d] # "open" => Disturbed(d)
    BY <1>1 DEF DisturbedInv
  <1>4. spc'[d] \in {"none", "handshake"} => spc[d] \in {"none", "handshake"}
    BY HandshakeChanges DEF Accept, Receive, Seal, ReturnKeys, Set, TInv
  <1>5. CASE sIn'[d] = sIn[d]
    BY <1>2, <1>3, <1>4, <1>5
  <1>6. CASE d # c
    BY <1>5, <1>6, OtherClients
  <1>7. CASE d = c /\ Break(c)
    <2>1. "broken" \in trouble'[c]
      BY <1>7 DEF Break, Note, TInv
    <2> QED
      BY <1>7, <2>1 DEF Disturbed, Has
  <1>8. CASE d = c /\ Refused(c)
    <2>1. toClient[c] # <<>> /\ (sIn'[c] = sIn[c] \/ sIn'[c] = "eof")
      BY <1>8 DEF Refused, Set, TInv
    <2>2. spc[c] \notin {"none", "handshake"}
      BY <1>1, <2>1 DEF ResponseInv
    <2> QED
      BY <1>3, <1>4, <1>8, <2>1, <2>2, <1>2
  <1>9. ASSUME d = c, NEW how, ClientEnds(c, how), sIn'[c] # sIn[c],
               toClient[c] = <<>> \/ Disturbed(c)',
               spc[c] \notin {"none", "handshake"} \/ Disturbed(c)'
        PROVE  /\ sIn'[d] = "cut" => Disturbed(d)'
               /\ spc'[d] \in {"none", "handshake"} /\ sIn'[d] # "open" => Disturbed(d)'
    <2>1. sIn'[c] = "cut" => toClient[c] # <<>>
      BY <1>9 DEF ClientEnds, Set, TInv
    <2> QED
      BY <1>4, <1>9, <2>1
  <1>10. CASE d = c /\ Dial(c)
    BY <1>1, <1>5, <1>10 DEF Dial, net
  <1>11. CASE d = c /\ (HandshakeEnds(c) \/ ReadFatal(c))
    <2>1. cIn[c] # "open" /\ ClientEnds(c, "fatal")
      BY <1>11 DEF HandshakeEnds, ReadFatal, Fatal
    <2>2. Disturbed(c)'
      BY <1>1, <1>2, <1>11, <2>1 DEF LinkInv, Disturbed
    <2> QED
      BY <1>5, <1>9, <1>11, <2>1, <2>2
  <1>12. CASE d = c /\ (WriteFails(c) \/ Exit(c))
    <2>1. PICK how : ClientEnds(c, how)
      BY <1>12 DEF WriteFails, Exit, Fatal
    <2>2. cpc[c] \notin Before
      BY <1>12 DEF WriteFails, Exit, Before, Ended
    <2>3. toClient[c] = <<>> /\ spc[c] \notin {"none", "handshake"}
      BY <1>1, <2>2 DEF ResponseInv, Before
    <2> QED
      BY <1>5, <1>9, <1>12, <2>1, <2>3
  <1>13. CASE d = c /\ Kill(c)
    <2>1. ClientEnds(c, "killed") /\ cpc[c] \notin Ended \cup {"dial"}
      BY <1>13 DEF Kill
    <2>2. CASE cpc[c] \in {"initiate", "handshake"}
      <3>1. trouble' = [trouble EXCEPT ![c] = @ \cup {"killed early"}]
        BY <1>13, <2>2 DEF Kill, Note
      <3>2. "killed early" \in trouble'[c]
        BY <3>1 DEF TInv
      <3> QED
        BY <1>5, <1>9, <1>13, <2>1, <3>2 DEF Disturbed, Has
    <2>3. CASE cpc[c] \notin {"initiate", "handshake"}
      <3>1. cpc[c] \notin Before
        BY <2>1, <2>3 DEF Before
      <3>2. toClient[c] = <<>> /\ spc[c] \notin {"none", "handshake"}
        BY <1>1, <3>1 DEF ResponseInv, Before
      <3> QED
        BY <1>5, <1>9, <1>13, <2>1, <3>2
    <2> QED
      BY <2>2, <2>3
  <1> QED
    BY <1>5, <1>6, <1>7, <1>8, <1>10, <1>11, <1>12, <1>13, SInChanges

\* The steps that end the server's process, and those that end a client's
\* with an error.
LEMMA ServerDown ==
  ASSUME TInv, NEW c \in Clients, Step(c), down # "fatal", down' = "fatal"
  PROVE  \/ ReceiveFatal(c) \/ HandshakeFatal(c) \/ DecryptFatal(c)
         \/ ServeEnds(c) /\ sIn[c] = "cut"
  <1>1. CASE MainStep(c)
    BY <1>1 DEF MainStep, Dial, Initiate, Established, Refused, HandshakeEnds, WriteSetup,
       WriteOpen, WriteFails, Wake, Test, WriteClose, Exit, Write, Fatal, svars
  <1>2. CASE ServerStep(c)
    BY <1>2 DEF ServerStep, Accept, Receive, Seal, ReturnKeys, ReadFirst, ReadLoop, ServeEnds
  <1>3. CASE ReaderStep(c) \/ PoolReads(c) \/ PoolSends(c) \/ Env(c)
    BY <1>3 DEF ReaderStep, ReadMessage, ReadEOF, ReadFatal, Fatal, PoolReads, PoolSends,
       Env, Signal, Kill, Break, svars
  <1> QED
    BY <1>1, <1>2, <1>3 DEF Step

LEMMA ClientFatal ==
  ASSUME TInv, NEW c \in Clients, Step(c), cpc[c] # "fatal", cpc'[c] = "fatal"
  PROVE  Dial(c) \/ Refused(c) \/ HandshakeEnds(c) \/ WriteFails(c) \/ ReadFatal(c)
  <1> USE DEF TInv, Set
  <1>1. CASE MainStep(c)
    BY <1>1 DEF MainStep, Initiate, Established, WriteSetup, WriteOpen, Wake, Test,
       WriteClose, Exit, Write, ClientEnds
  <1>2. CASE ServerStep(c) \/ PoolReads(c) \/ PoolSends(c)
    BY <1>2 DEF ServerStep, Accept, Receive, ReceiveFatal, Seal, ReturnKeys, HandshakeFatal,
       ReadFirst, ReadLoop, DecryptFatal, ServeEnds, ServerFatal, PoolReads, PoolSends, cvars
  <1>3. CASE ReaderStep(c) \/ Env(c)
    BY <1>3 DEF ReaderStep, ReadMessage, ReadEOF, Env, Signal, Kill, Break, ClientEnds, cvars
  <1> QED
    BY <1>1, <1>2, <1>3 DEF Step

LEMMA StepServerSurvives ==
  ASSUME TInv, OverlapInv, KeysInv, DisturbedInv, ServerSurvives, NEW c \in Clients, Step(c)
  PROVE  ServerSurvives'
  <1> SUFFICES ASSUME down' = "fatal"
               PROVE  \E d \in Clients :
                        Has(d, "overlap")' \/ Has(d, "broken")' \/ Has(d, "killed early")'
    BY DEF ServerSurvives
  <1>1. \A d \in Clients : trouble[d] \subseteq trouble'[d]
    BY TroubleGrows
  <1>2. CASE down = "fatal"
    BY <1>1, <1>2 DEF ServerSurvives, Has
  <1>3. CASE down # "fatal"
    <2>1. ReceiveFatal(c) \/ HandshakeFatal(c) \/ DecryptFatal(c) \/ ServeEnds(c)
      BY <1>3, ServerDown
    <2>2. kind = "example" /\ down = "no"
      BY <2>1 DEF ReceiveFatal, HandshakeFatal, DecryptFatal, ServeEnds, Up
    <2>3. CASE ReceiveFatal(c)
      <3>1. spc[c] = "handshake" /\ spc[c] \in InHandshake /\ hs.keyed
        BY <2>3 DEF ReceiveFatal, InHandshake
      <3>2. hs = [mixed |-> {}, keyed |-> FALSE] => ~ hs.keyed
        OBVIOUS
      <3>3. ~ Has(c, "overlap") => hs = [mixed |-> {}, keyed |-> FALSE]
        BY <3>1 DEF OverlapInv
      <3>4. Has(c, "overlap")
        BY <3>1, <3>2, <3>3
      <3> QED
        BY <1>1, <3>4 DEF Has
    <2>4. CASE HandshakeFatal(c)
      <3>1. Disturbed(c)
        BY <2>2, <2>4 DEF HandshakeFatal, DisturbedInv
      <3> QED
        BY <1>1, <3>1 DEF Disturbed, Has
    <2>5. CASE ServeEnds(c)
      <3>1. sIn[c] = "cut"
        BY <1>3, <2>5 DEF ServeEnds
      <3>2. Disturbed(c)
        BY <2>2, <3>1 DEF DisturbedInv
      <3> QED
        BY <1>1, <3>2 DEF Disturbed, Has
    <2>6. CASE DecryptFatal(c)
      <3>1. Has(c, "overlap")
        BY <2>6 DEF DecryptFatal, KeysInv
      <3> QED
        BY <1>1, <3>1 DEF Has
    <2> QED
      BY <2>1, <2>3, <2>4, <2>5, <2>6
  <1> QED
    BY <1>2, <1>3

LEMMA StepClientSurvives ==
  ASSUME TInv, LinkInv, SpoiledInv, ClientSurvives, NEW c \in Clients, Step(c)
  PROVE  ClientSurvives'
  <1> SUFFICES ASSUME NEW d \in Clients, cpc'[d] = "fatal"
               PROVE  Has(d, "overlap")' \/ Has(d, "broken")' \/ auth' = "expired" \/ down' # "no"
    BY DEF ClientSurvives
  <1>1. trouble[d] \subseteq trouble'[d] /\ auth' = auth
    BY TroubleGrows, Fixed
  <1>2. down # "no" => down' # "no"
    BY LinkChanges DEF Break, svars, ServerEnds
  <1>3. CASE cpc[d] = "fatal"
    BY <1>1, <1>2, <1>3 DEF ClientSurvives, Has
  <1>4. CASE cpc[d] # "fatal"
    <2>1. d = c
      BY <1>4, OtherClients
    <2>2. Dial(c) \/ Refused(c) \/ HandshakeEnds(c) \/ WriteFails(c) \/ ReadFatal(c)
      BY <1>4, <2>1, ClientFatal
    <2>3. CASE Dial(c)
      BY <1>2, <2>1, <2>3 DEF Dial, Set, TInv
    <2>4. CASE Refused(c)
      <3>1. CASE Head(toClient[c]).type = "spoiled"
        <4>1. toClient[c] # <<>> /\ toClient[c] \in Seq(Messages)
          BY <2>4 DEF Refused, TInv
        <4>2. toClient[c][1].type = "spoiled" /\ 1 \in 1 .. Len(toClient[c])
          BY <3>1, <4>1, TailElements
        <4> QED
          BY <1>1, <2>1, <4>2 DEF SpoiledInv, Has
      <3>2. CASE auth = "expired"
        BY <1>1, <3>2
      <3> QED
        BY <2>4, <3>1, <3>2 DEF Refused
    <2>5. CASE HandshakeEnds(c) \/ WriteFails(c) \/ ReadFatal(c)
      <3>1. down # "no" \/ cIn[c] # "open"
        BY <2>5 DEF HandshakeEnds, WriteFails, ReadFatal, Alive
      <3> QED
        BY <1>1, <1>2, <2>1, <3>1 DEF LinkInv, Has
    <2> QED
      BY <2>2, <2>3, <2>4, <2>5
  <1> QED
    BY <1>3, <1>4

-----------------------------------------------------------------------------
(* The order of what a client sends *)

LEMMA FullTypes ==
  ASSUME NEW n \in 1 .. 4
  PROVE  /\ Full[n] = "ephemeral" <=> n = 1
         /\ Full[n] = "CloseChannel" <=> n = 4
         /\ Full[n] = "OpenExtendedMiningChannel" <=> n = 3
  <1>1. n = 1 \/ n = 2 \/ n = 3 \/ n = 4
    OBVIOUS
  <1>2. Full[1] = "ephemeral" /\ Full[2] = "SetupConnection"
        /\ Full[3] = "OpenExtendedMiningChannel" /\ Full[4] = "CloseChannel"
    BY DEF Full
  <1> QED
    BY <1>1, <1>2

LEMMA SentValues ==
  /\ \A pc \in ClientPCs : Sent(pc) \in 0 .. 4
  /\ \A pc \in Ended \cup {"close"} : Sent(pc) = 4
  /\ Sent("dial") = 0 /\ Sent("initiate") = 0
  /\ Sent("handshake") = 1 /\ Sent("setup") = 1 /\ Sent("open") = 2
  /\ Sent("wait") = 3 /\ Sent("test") = 3 /\ Sent("closechannel") = 3
  BY DEF Sent, ClientPCs, Ended

LEMMA StreamSend ==
  ASSUME NEW e \in {0, 1}, NEW g \in Seq(Messages), NEW q \in Seq(Messages), NEW ids,
         Stream(e, g, q, ids), NEW m \in Messages,
         m.type = Full[e + Len(g) + Len(q) + 1], m.type = "CloseChannel" => m.id \in ids
  PROVE  Stream(e, g, Append(q, m), ids)
  <1> DEFINE a == Append(q, m)
  <1>1. Len(g) \in Nat
    BY LenProperties
  <1>2. /\ Len(a) = Len(q) + 1 /\ Len(q) \in Nat /\ a[Len(q) + 1] = m
        /\ \A i \in 1 .. Len(q) : a[i] = q[i]
        /\ \A i \in 1 .. Len(a) : i \in 1 .. Len(q) \/ i = Len(q) + 1
    BY AppendElements
  <1> HIDE DEF a
  <1>3. ASSUME NEW i \in 1 .. Len(a)
        PROVE  a[i].type = Full[e + Len(g) + i] /\ (a[i].type = "CloseChannel" => a[i].id \in ids)
    <2>1. CASE i \in 1 .. Len(q)
      BY <1>2, <2>1 DEF Stream
    <2>2. CASE i = Len(q) + 1
      <3>1. \A u, v, w \in Nat : u + v + (w + 1) = u + v + w + 1
        OBVIOUS
      <3>2. e + Len(g) + i = e + Len(g) + Len(q) + 1
        BY <1>1, <1>2, <2>2, <3>1, SMTT(30)
      <3> QED
        BY <1>2, <2>2, <3>2
    <2> QED
      BY <1>2, <2>1, <2>2
  <1> QED
    BY <1>3 DEF Stream, a

\* The ephemeral key is taken off the stream.
LEMMA StreamSkip ==
  ASSUME NEW q \in Seq(Messages), NEW ids, q # <<>>, Stream(0, <<>>, q, ids)
  PROVE  Stream(1, <<>>, Tail(q), ids)
  <1> DEFINE t == Tail(q)
  <1>1. \A i \in 1 .. Len(t) : i + 1 \in 1 .. Len(q) /\ t[i] = q[i + 1]
    BY TailElements
  <1>2. Len(<<>>) = 0
    BY EmptySeq
  <1>3. \A i \in Int : 0 + 0 + (i + 1) = 1 + 0 + i
    OBVIOUS
  <1> HIDE DEF t
  <1>4. ASSUME NEW i \in 1 .. Len(t)
        PROVE  t[i].type = Full[1 + Len(<<>>) + i] /\ (t[i].type = "CloseChannel" => t[i].id \in ids)
    BY <1>1, <1>2, <1>3 DEF Stream
  <1> QED
    BY <1>2, <1>4 DEF Stream, t

\* A frame is read.
LEMMA StreamRead ==
  ASSUME NEW g \in Seq(Messages), NEW q \in Seq(Messages), NEW ids,
         q # <<>>, Stream(1, g, q, ids)
  PROVE  Stream(1, Append(g, Head(q)), Tail(q), ids)
  <1> DEFINE t == Tail(q)
             m == Head(q)
             a == Append(g, m)
  <1>1. /\ \A i \in 1 .. Len(t) : i + 1 \in 1 .. Len(q) /\ t[i] = q[i + 1]
        /\ m = q[1] /\ 1 \in 1 .. Len(q)
    BY TailElements
  <1>2. m \in Messages
    BY HeadTailProperties
  <1>3. /\ Len(a) = Len(g) + 1 /\ Len(g) \in Nat /\ a[Len(g) + 1] = m
        /\ \A i \in 1 .. Len(g) : a[i] = g[i]
        /\ \A i \in 1 .. Len(a) : i \in 1 .. Len(g) \/ i = Len(g) + 1
    BY <1>2, AppendElements
  <1> HIDE DEF t, m, a
  <1>4. m.type = Full[1 + Len(g) + 1] /\ (m.type = "CloseChannel" => m.id \in ids)
    BY <1>1 DEF Stream
  <1>5. ASSUME NEW i \in 1 .. Len(a)
        PROVE  a[i].type = Full[i + 1] /\ (a[i].type = "CloseChannel" => a[i].id \in ids)
    <2>1. CASE i \in 1 .. Len(g)
      BY <1>3, <2>1 DEF Stream
    <2>2. CASE i = Len(g) + 1
      <3>1. 1 + Len(g) + 1 = i + 1
        BY <1>3, <2>2
      <3> QED
        BY <1>3, <1>4, <2>2, <3>1
    <2> QED
      BY <1>3, <2>1, <2>2
  <1>6. ASSUME NEW i \in 1 .. Len(t)
        PROVE  t[i].type = Full[1 + Len(a) + i] /\ (t[i].type = "CloseChannel" => t[i].id \in ids)
    <2>1. 1 + Len(g) + (i + 1) = 1 + Len(a) + i
      BY <1>3
    <2> QED
      BY <1>1, <2>1 DEF Stream
  <1> QED
    BY <1>5, <1>6 DEF Stream, t, m, a

LEMMA StreamCut ==
  ASSUME NEW e, NEW g, NEW q \in Seq(Messages), NEW ids, NEW k \in 0 .. Len(q),
         Stream(e, g, q, ids)
  PROVE  Stream(e, g, SubSeq(q, 1, k), ids)
  <1>1. Len(SubSeq(q, 1, k)) = k /\ \A i \in 1 .. k : SubSeq(q, 1, k)[i] = q[i]
    BY PrefixType
  <1>2. \A i \in 1 .. k : i \in 1 .. Len(q)
    BY LenProperties
  <1> QED
    BY <1>1, <1>2 DEF Stream

\* A connection that is not alive stays so.
LEMMA AliveFalls ==
  ASSUME TInv, NEW c \in Clients, Step(c), NEW d \in Clients
  PROVE  Alive(d)' => Alive(d)
  BY LinkChanges DEF Alive, Break, ServerEnds, Set, TInv, svars

\* A client that moves on without sending, and one that sends.
LEMMA StreamMoves ==
  ASSUME TInv, NEW c \in Clients, Step(c), NEW d \in Clients, NEW e \in {0, 1}, StreamAt(d, e),
         got'[d] = got[d], toServer'[d] = toServer[d], opened[d] \subseteq opened'[d],
         kind = "example" => (spc'[d] \in {"none", "handshake"} <=> spc[d] \in {"none", "handshake"}),
         \/ cpc'[d] = cpc[d]
         \/ cpc'[d] \in Ended \cup {"close"}
         \/ cpc[d] \notin Ended \cup {"close"} /\ Sent(cpc'[d]) = Sent(cpc[d])
  PROVE  StreamAt(d, e)'
  <1>1. kind' = kind /\ (Alive(d)' => Alive(d))
    BY Fixed, AliveFalls
  <1>2. Stream(e, got'[d], toServer'[d], opened'[d])
    BY DEF StreamAt, Stream
  <1>3. e + Len(got[d]) + Len(toServer[d]) <= 4 /\ e + Len(got[d]) + Len(toServer[d]) \in Int
    <2>1. Len(got[d]) \in Nat /\ Len(toServer[d]) \in Nat /\ Sent(cpc[d]) \in 0 .. 4
      BY LenProperties, SentValues DEF TInv
    <2> QED
      BY <2>1 DEF StreamAt
  <1>4. Sent(cpc'[d]) = Sent(cpc[d]) \/ (Sent(cpc'[d]) = 4 /\ cpc'[d] \in Ended \cup {"close"})
    BY SentValues
  <1> QED
    BY <1>1, <1>2, <1>3, <1>4 DEF StreamAt

LEMMA StreamWrites ==
  ASSUME TInv, NEW c \in Clients, Step(c), NEW e \in {0, 1}, StreamAt(c, e),
         NEW m \in Messages, NEW next \in ClientPCs,
         toServer' = IF Alive(c) THEN Put(toServer, c, m) ELSE toServer,
         cpc' = [cpc EXCEPT ![c] = next], UNCHANGED <<got, opened, spc>>,
         cpc[c] \notin Ended \cup {"close"}, Sent(next) = Sent(cpc[c]) + 1,
         m.type = Full[Sent(cpc[c]) + 1], m.type = "CloseChannel" => m.id \in opened[c]
  PROVE  StreamAt(c, e)'
  <1> DEFINE n == e + Len(got[c]) + Len(toServer[c])
  <1>1. kind' = kind /\ (Alive(c)' => Alive(c)) /\ cpc'[c] = next
    BY Fixed, AliveFalls DEF TInv
  <1>2. Len(got[c]) \in Nat /\ Len(toServer[c]) \in Nat /\ Sent(cpc[c]) \in 0 .. 4
        /\ got[c] \in Seq(Messages) /\ toServer[c] \in Seq(Messages)
    BY LenProperties, SentValues DEF TInv
  <1>3. CASE Alive(c)
    <2>1. n = Sent(cpc[c]) /\ toServer'[c] = Append(toServer[c], m)
      BY <1>3 DEF StreamAt, Put, TInv
    <2>2. Stream(e, got[c], Append(toServer[c], m), opened[c])
      BY <1>2, <2>1, StreamSend DEF StreamAt
    <2>3. Len(toServer'[c]) = Len(toServer[c]) + 1
      BY <1>2, <2>1, AppendElements
    <2>4. e + Len(got[c]) + Len(toServer'[c]) = Sent(next)
      <3> DEFINE a == Len(got[c])
                 b == Len(toServer[c])
                 s == Sent(cpc[c])
      <3>1. a \in Nat /\ b \in Nat /\ s \in Int
        BY <1>2
      <3>3. e + a + b = s
        BY <2>1
      <3> HIDE DEF a, b, s
      <3>2. e + a + (b + 1) = s + 1
        BY <3>1, <3>3
      <3> QED
        BY <2>3, <3>2 DEF a, b, s
    <2>5. Sent(next) \in 0 .. 4
      BY SentValues
    <2>6. e + Len(got'[c]) + Len(toServer'[c]) = Sent(cpc'[c]) /\ Sent(cpc'[c]) <= Sent(cpc'[c])
      <3>1. got'[c] = got[c] /\ cpc'[c] = next
        BY <1>1
      <3>2. Sent(next) <= Sent(next)
        BY <2>5
      <3> QED
        BY <2>4, <3>1, <3>2
    <2>7. Stream(e, got'[c], toServer'[c], opened'[c])
      BY <2>1, <2>2
    <2>8. (got'[c] # <<>> => e = 1)
          /\ (kind' = "example" => (e = 0 <=> spc'[c] \in {"none", "handshake"}))
      BY <1>1 DEF StreamAt
    <2> QED
      BY <2>6, <2>7, <2>8 DEF StreamAt
  <1>4. CASE ~ Alive(c)
    <2>1. n <= Sent(next)
      <3> DEFINE a == Len(got[c])
                 b == Len(toServer[c])
                 s == Sent(cpc[c])
                 r == Sent(next)
      <3>1. a \in Nat /\ b \in Nat /\ s \in Int /\ e \in Int
        BY <1>2
      <3>2. e + a + b <= s
        BY DEF StreamAt
      <3>3. r = s + 1
        OBVIOUS
      <3> HIDE DEF a, b, s, r
      <3>4. e + a + b <= r
        BY <3>1, <3>2, <3>3
      <3> QED
        BY <3>4 DEF a, b, r
    <2> QED
      BY <1>1, <1>4, <2>1 DEF StreamAt
  <1> QED
    BY <1>3, <1>4

\* The server takes the ephemeral key, or a frame.
LEMMA StreamReceives ==
  ASSUME TInv, NEW c \in Clients, Step(c), NEW e \in {0, 1}, StreamAt(c, e),
         toServer[c] # <<>>, toServer' = [toServer EXCEPT ![c] = Tail(@)],
         opened[c] \subseteq opened'[c], UNCHANGED <<cpc, cIn, down>>,
         kind = "example" => spc'[c] \notin {"none", "handshake"},
         \/ e = 0 /\ UNCHANGED got
         \/ e = 1 /\ got' = Put(got, c, Head(toServer[c]))
  PROVE  StreamAt(c, 1)'
  <1>1. kind' = kind /\ (Alive(c)' => Alive(c))
    BY Fixed, AliveFalls
  <1>2. got[c] \in Seq(Messages) /\ toServer[c] \in Seq(Messages)
    BY DEF TInv
  <1>3. Len(got[c]) \in Nat /\ Len(toServer[c]) \in Nat
    BY <1>2, LenProperties
  <1>4. toServer'[c] = Tail(toServer[c])
    BY DEF TInv
  <1>5. Len(toServer'[c]) = Len(toServer[c]) - 1
    BY <1>2, <1>4, TailElements
  <1>6. Stream(1, got'[c], toServer'[c], opened[c])
        /\ 1 + Len(got'[c]) + Len(toServer'[c]) = e + Len(got[c]) + Len(toServer[c])
    <2>1. CASE e = 0 /\ UNCHANGED got
      <3>1. got[c] = <<>> /\ Len(got[c]) = 0
        BY <2>1, EmptySeq DEF StreamAt
      <3>2. Stream(1, <<>>, Tail(toServer[c]), opened[c])
        BY <1>2, <2>1, <3>1, StreamSkip DEF StreamAt
      <3>3. \A b \in Nat : 1 + 0 + (b - 1) = 0 + 0 + b
        OBVIOUS
      <3> QED
        BY <1>3, <1>4, <1>5, <2>1, <3>1, <3>2, <3>3
    <2>2. CASE e = 1 /\ got' = Put(got, c, Head(toServer[c]))
      <3>1. got'[c] = Append(got[c], Head(toServer[c]))
        BY <2>2 DEF Put, TInv
      <3>2. Stream(1, Append(got[c], Head(toServer[c])), Tail(toServer[c]), opened[c])
        BY <1>2, <2>2, StreamRead DEF StreamAt
      <3>3. Head(toServer[c]) \in Messages
        BY <1>2, HeadTailProperties
      <3>4. Len(got'[c]) = Len(got[c]) + 1
        BY <1>2, <3>1, <3>3, AppendElements
      <3>5. \A a, b \in Nat : 1 + (a + 1) + (b - 1) = 1 + a + b
        OBVIOUS
      <3> QED
        BY <1>3, <1>4, <1>5, <2>2, <3>1, <3>2, <3>4, <3>5
    <2> QED
      BY <2>1, <2>2
  <1>7. Stream(1, got'[c], toServer'[c], opened'[c])
    BY <1>6 DEF Stream
  <1>8. /\ 1 + Len(got'[c]) + Len(toServer'[c]) <= Sent(cpc'[c])
        /\ Alive(c)' /\ cpc'[c] \notin Ended \cup {"close"}
             => 1 + Len(got'[c]) + Len(toServer'[c]) = Sent(cpc'[c])
    <2>1. /\ e + Len(got[c]) + Len(toServer[c]) <= Sent(cpc[c])
          /\ Alive(c) /\ cpc[c] \notin Ended \cup {"close"}
               => e + Len(got[c]) + Len(toServer[c]) = Sent(cpc[c])
      BY DEF StreamAt
    <2>2. cpc'[c] = cpc[c]
      OBVIOUS
    <2> QED
      BY <1>1, <1>6, <2>1, <2>2
  <1>9. kind' = "example" => (1 = 0 <=> spc'[c] \in {"none", "handshake"})
    BY <1>1
  <1> QED
    BY <1>7, <1>8, <1>9 DEF StreamAt

\* What arrives is cut short when the client ends or the connection breaks.
LEMMA StreamCutShort ==
  ASSUME TInv, NEW c \in Clients, Step(c), NEW e \in {0, 1}, StreamAt(c, e),
         NEW k \in 0 .. Len(toServer[c]), toServer'[c] = SubSeq(toServer[c], 1, k),
         UNCHANGED <<got, opened, spc>>,
         cpc'[c] \in Ended \/ (cpc' = cpc /\ ~ Alive(c)')
  PROVE  StreamAt(c, e)'
  <1>1. kind' = kind
    BY Fixed
  <1>2. Len(got[c]) \in Nat /\ Len(toServer[c]) \in Nat /\ toServer[c] \in Seq(Messages)
        /\ Sent(cpc[c]) \in 0 .. 4
    BY LenProperties, SentValues DEF TInv
  <1>3. Stream(e, got[c], toServer'[c], opened[c]) /\ Len(toServer'[c]) = k
    BY <1>2, StreamCut, PrefixType DEF StreamAt
  <1>4. e + Len(got[c]) + k <= Sent(cpc[c]) /\ e + Len(got[c]) + k \in Int
    <2> DEFINE a == Len(got[c])
               b == Len(toServer[c])
               s == Sent(cpc[c])
    <2>1. a \in Nat /\ b \in Nat /\ s \in 0 .. 4 /\ k \in 0 .. b
      BY <1>2
    <2>2. e + a + b <= s
      BY DEF StreamAt
    <2> HIDE DEF a, b, s
    <2>3. e + a + k <= s /\ e + a + k \in Int
      BY <2>1, <2>2
    <2> QED
      BY <2>3 DEF a, s
  <1>5. Sent(cpc'[c]) = Sent(cpc[c]) \/ (Sent(cpc'[c]) = 4 /\ cpc'[c] \in Ended)
    BY SentValues
  <1>6. e + Len(got[c]) + k <= Sent(cpc'[c])
    BY <1>2, <1>4, <1>5
  <1> QED
    BY <1>1, <1>3, <1>6 DEF StreamAt

LEMMA StreamEnds ==
  ASSUME TInv, NEW c \in Clients, Step(c), NEW e \in {0, 1}, StreamAt(c, e),
         NEW how \in Ended, ClientEnds(c, how), UNCHANGED <<got, opened, spc>>
  PROVE  StreamAt(c, e)'
  <1>1. cpc'[c] \in Ended
    BY DEF ClientEnds, Set, TInv
  <1>2. CASE UNCHANGED toServer
    BY <1>1, <1>2, StreamMoves
  <1>3. CASE \E k \in 0 .. Len(toServer[c]) :
               toServer' = Set(toServer, c, SubSeq(toServer[c], 1, k))
    <2>1. PICK k \in 0 .. Len(toServer[c]) :
               toServer' = Set(toServer, c, SubSeq(toServer[c], 1, k))
      BY <1>3
    <2>2. toServer'[c] = SubSeq(toServer[c], 1, k)
      BY <2>1 DEF Set, TInv
    <2> QED
      BY <1>1, <2>2, StreamCutShort
  <1> QED
    BY <1>2, <1>3 DEF ClientEnds

LEMMA ToU32Inverse ==
  ASSUME NEW id \in ChannelIDs
  PROVE  ToU32(ToInt(id)) = id
  <1>1. U32 \in Nat \ {0} /\ id \in 0 .. U32 - 1
    BY SessionAssumption
  <1>2. id % U32 = id
    BY <1>1
  <1>3. (id - U32) % U32 = id
    BY <1>1
  <1> QED
    BY <1>2, <1>3 DEF ToU32, ToInt

LEMMA StreamMain ==
  ASSUME TInv, ChanInv, NEW c \in Clients, MainStep(c), NEW e \in {0, 1}, StreamAt(c, e)
  PROVE  StreamAt(c, e)'
  <1>0. Step(c)
    BY DEF Step
  <1>1. CASE Dial(c)
    <2>1. CASE down = "no"
      <3>1. cpc'[c] = "initiate" /\ cpc[c] = "dial" /\ UNCHANGED <<got, toServer, opened, spc>>
        BY <1>1, <2>1 DEF Dial, Set, net, svars, TInv
      <3> QED
        BY <1>0, <3>1, StreamMoves, SentValues DEF Ended
    <2>2. CASE down # "no"
      BY <1>0, <1>1, <2>2, StreamEnds DEF Dial, svars, Ended
    <2> QED
      BY <2>1, <2>2
  <1>2. CASE Initiate(c)
    <2>1. Msg("ephemeral", 0) \in Messages /\ Msg("ephemeral", 0).type = "ephemeral"
          /\ "handshake" \in ClientPCs
      BY MsgType DEF MsgTypes, ClientPCs
    <2>2. Full[0 + 1] = "ephemeral" /\ Sent(cpc[c]) = 0 /\ Sent("handshake") = 0 + 1
      BY <1>2, SentValues DEF Full, Initiate
    <2> QED
      BY <1>0, <1>2, <2>1, <2>2, StreamWrites DEF Initiate, Set, svars, Ended
  <1>3. CASE WriteSetup(c)
    <2>1. Msg("SetupConnection", 0) \in Messages
          /\ Msg("SetupConnection", 0).type = "SetupConnection" /\ "open" \in ClientPCs
      BY MsgType DEF MsgTypes, ClientPCs
    <2>2. Full[1 + 1] = "SetupConnection" /\ Sent(cpc[c]) = 1 /\ Sent("open") = 1 + 1
      BY <1>3, SentValues DEF Full, WriteSetup
    <2> QED
      BY <1>0, <1>3, <2>1, <2>2, StreamWrites DEF WriteSetup, Write, Set, svars, Ended
  <1>4. CASE WriteOpen(c)
    <2>1. Msg("OpenExtendedMiningChannel", 0) \in Messages
          /\ Msg("OpenExtendedMiningChannel", 0).type = "OpenExtendedMiningChannel"
          /\ "wait" \in ClientPCs
      BY MsgType DEF MsgTypes, ClientPCs
    <2>2. Full[2 + 1] = "OpenExtendedMiningChannel" /\ Sent(cpc[c]) = 2 /\ Sent("wait") = 2 + 1
      BY <1>4, SentValues DEF Full, WriteOpen
    <2> QED
      BY <1>0, <1>4, <2>1, <2>2, StreamWrites DEF WriteOpen, Write, Set, svars, Ended
  <1>5. CASE WriteClose(c)
    <2> DEFINE m == Msg("CloseChannel", ToU32(chanid[c]))
    <2>1. PICK id \in opened[c] : chanid[c] = ToInt(id)
      BY <1>5 DEF WriteClose, ChanInv, OpenedInts
    <2>2. id \in ChannelIDs
      BY DEF TInv
    <2>3. ToU32(chanid[c]) \in opened[c] /\ ToU32(chanid[c]) \in Int
      BY <2>1, <2>2, ToU32Inverse, SessionAssumption
    <2>4. m \in Messages /\ m.type = "CloseChannel" /\ m.id \in opened[c] /\ "close" \in ClientPCs
      BY <2>3, MsgType DEF MsgTypes, ClientPCs
    <2>5. Full[3 + 1] = "CloseChannel" /\ Sent(cpc[c]) = 3 /\ Sent("close") = 3 + 1
      BY <1>5, SentValues DEF Full, WriteClose
    <2>6. toServer' = (IF Alive(c) THEN Put(toServer, c, m) ELSE toServer)
          /\ cpc' = [cpc EXCEPT ![c] = "close"] /\ UNCHANGED <<got, opened, spc>>
          /\ cpc[c] \notin Ended \cup {"close"}
      BY <1>5 DEF WriteClose, Write, Set, svars, Ended
    <2> HIDE DEF m
    <2> QED
      BY <1>0, <2>4, <2>5, <2>6, StreamWrites
  <1>6. CASE Established(c) \/ Wake(c) \/ Test(c)
    <2>1. UNCHANGED <<got, toServer, opened, spc>>
      BY <1>6 DEF Established, Wake, Test, svars, net
    <2>2. \/ cpc'[c] = "close"
          \/ cpc[c] \notin Ended \cup {"close"} /\ Sent(cpc'[c]) = Sent(cpc[c])
      BY <1>6, SentValues DEF Established, Wake, Test, Set, TInv, Ended
    <2> QED
      BY <1>0, <2>1, <2>2, StreamMoves
  <1>7. CASE Refused(c)
    <2>1. UNCHANGED <<got, toServer, opened, spc>> /\ cpc'[c] \in Ended
      BY <1>7 DEF Refused, Set, TInv, svars, Ended
    <2> QED
      BY <1>0, <2>1, StreamMoves
  <1>8. CASE HandshakeEnds(c) \/ WriteFails(c) \/ Exit(c)
    <2>1. PICK how \in Ended : ClientEnds(c, how) /\ UNCHANGED <<got, opened, spc>>
      BY <1>8 DEF HandshakeEnds, WriteFails, Exit, Fatal, Ended, svars
    <2> QED
      BY <1>0, <2>1, StreamEnds
  <1> QED
    BY <1>1, <1>2, <1>3, <1>4, <1>5, <1>6, <1>7, <1>8 DEF MainStep

LEMMA StreamServer ==
  ASSUME TInv, NEW c \in Clients, ServerStep(c), NEW e \in {0, 1}, StreamAt(c, e)
  PROVE  \E f \in {0, 1} : StreamAt(c, f)'
  <1>0. Step(c)
    BY DEF Step
  <1>1. CASE Accept(c)
    <2>1. spc[c] = "none" /\ spc'[c] = "handshake" /\ UNCHANGED <<cpc, got, toServer, opened>>
      BY <1>1 DEF Accept, Set, TInv, cvars, net
    <2> QED
      BY <1>0, <2>1, StreamMoves
  <1>2. CASE Receive(c)
    <2>1. e = 0
      BY <1>2 DEF Receive, StreamAt, Up
    <2>2. spc'[c] = "seal" /\ UNCHANGED <<cpc, cIn, down, got, opened>> /\ toServer[c] # <<>>
          /\ toServer' = [toServer EXCEPT ![c] = Tail(@)]
      BY <1>2 DEF Receive, Set, TInv, cvars
    <2> QED
      BY <1>0, <2>1, <2>2, StreamReceives
  <1>3. CASE Seal(c)
    <2>1. spc[c] = "seal" /\ spc'[c] = "keys" /\ UNCHANGED <<cpc, got, toServer, opened>>
      BY <1>3 DEF Seal, Set, TInv, cvars
    <2> QED
      BY <1>0, <2>1, StreamMoves
  <1>4. CASE ReadFirst(c) \/ ReadLoop(c)
    <2>1. e = 1
      BY <1>4 DEF ReadFirst, ReadLoop, StreamAt, Up
    <2>2. spc'[c] \notin {"none", "handshake"} /\ UNCHANGED <<cpc, cIn, down, opened>>
          /\ toServer[c] # <<>> /\ toServer' = [toServer EXCEPT ![c] = Tail(@)]
          /\ got' = Put(got, c, Head(toServer[c]))
      BY <1>4 DEF ReadFirst, ReadLoop, Set, TInv, cvars
    <2> QED
      BY <1>0, <2>1, <2>2, StreamReceives
  <1>5. CASE ServerFatal
    <2>1. UNCHANGED <<cpc, got, toServer, opened, spc>>
      BY <1>5 DEF ServerFatal, ServerEnds, cvars
    <2> QED
      BY <1>0, <2>1, StreamMoves
  <1>6. CASE ServeEnds(c) /\ ~ ServerFatal
    <2>1. spc[c] \in {"first", "loop", "wrongkeys"} /\ spc'[c] = "returned"
          /\ UNCHANGED <<cpc, got, toServer, opened>>
      BY <1>6 DEF ServeEnds, Set, TInv, cvars, net
    <2> QED
      BY <1>0, <2>1, StreamMoves
  <1>7. CASE ReturnKeys(c)
    <2>1. spc[c] = "keys" /\ spc'[c] \in {"first", "wrongkeys"}
          /\ UNCHANGED <<cpc, got, toServer, opened>>
      BY <1>7 DEF ReturnKeys, Set, TInv, cvars, net
    <2> QED
      BY <1>0, <2>1, StreamMoves
  <1> QED
    BY <1>1, <1>2, <1>3, <1>4, <1>5, <1>6, <1>7
       DEF ServerStep, ReceiveFatal, HandshakeFatal, DecryptFatal

LEMMA StreamPool ==
  ASSUME TInv, NEW c \in Clients, PoolReads(c), NEW e \in {0, 1}, StreamAt(c, e)
  PROVE  StreamAt(c, 1)'
  <1>0. Step(c)
    BY DEF Step
  <1> DEFINE m == Head(toServer[c])
             n == e + Len(got[c]) + 1
  <1>1. toServer[c] # <<>> /\ toServer' = [toServer EXCEPT ![c] = Tail(@)]
        /\ UNCHANGED <<cpc, cIn, down>> /\ kind = "pool" /\ opened[c] \subseteq opened'[c]
    <2>1. opened' = opened \/ \E id \in ChannelIDs : opened' = [opened EXCEPT ![c] = @ \cup {id}]
      BY DEF PoolReads
    <2>2. opened[c] \subseteq opened'[c]
      BY <2>1 DEF TInv
    <2> QED
      BY <2>2 DEF PoolReads, cvars
  <1>2. toServer[c] \in Seq(Messages) /\ Len(got[c]) \in Nat /\ Sent(cpc[c]) \in 0 .. 4
        /\ Len(toServer[c]) \in Nat \ {0}
    BY <1>1, LenProperties, SentValues, EmptySeq DEF TInv
  <1>3. m.type = Full[n]
    BY <1>1, <1>2, TailElements DEF StreamAt, Stream
  <1>4. n \in 1 .. 4
    <2> DEFINE a == Len(got[c])
               b == Len(toServer[c])
               s == Sent(cpc[c])
    <2>1. a \in Nat /\ b \in Nat \ {0} /\ s \in 0 .. 4
      BY <1>2
    <2>2. e + a + b <= s
      BY DEF StreamAt
    <2> HIDE DEF a, b, s
    <2>3. e + a + 1 \in 1 .. 4
      BY <2>1, <2>2
    <2> QED
      BY <2>3 DEF a
  <1>5. m.type = "ephemeral" <=> n = 1
    BY <1>3, <1>4, FullTypes
  <1>6. CASE m.type = "ephemeral"
    <2>1. e = 0
      BY <1>2, <1>5, <1>6
    <2>2. UNCHANGED got
      BY <1>6 DEF PoolReads
    <2> QED
      BY <1>0, <1>1, <2>1, <2>2, StreamReceives
  <1>7. CASE m.type # "ephemeral"
    <2>1. e = 1
      <3>1. Len(<<>>) = 0
        BY EmptySeq
      <3> QED
        BY <1>2, <1>5, <1>7, <3>1 DEF StreamAt
    <2>2. got' = Put(got, c, m)
      BY <1>7 DEF PoolReads
    <2> QED
      BY <1>0, <1>1, <2>1, <2>2, StreamReceives
  <1> QED
    BY <1>6, <1>7

LEMMA StepStreamInv ==
  ASSUME TInv, ChanInv, StreamInv, NEW c \in Clients, Step(c)
  PROVE  StreamInv'
  <1> SUFFICES ASSUME NEW d \in Clients PROVE \E e \in {0, 1} : StreamAt(d, e)'
    BY DEF StreamInv
  <1>1. PICK e \in {0, 1} : StreamAt(d, e)
    BY DEF StreamInv
  <1>2. CASE d # c
    BY <1>1, <1>2, OtherClients, StreamMoves
  <1>3. CASE d = c /\ MainStep(c)
    BY <1>1, <1>3, StreamMain
  <1>4. CASE d = c /\ ServerStep(c)
    BY <1>1, <1>4, StreamServer
  <1>5. CASE d = c /\ PoolReads(c)
    BY <1>1, <1>5, StreamPool
  <1>6. CASE d = c /\ (ReadMessage(c) \/ ReadEOF(c) \/ PoolSends(c) \/ Signal(c))
    <2>1. UNCHANGED <<cpc, got, toServer, opened, spc>>
      BY <1>6 DEF ReadMessage, ReadEOF, PoolSends, Signal, cvars, svars, net
    <2> QED
      BY <1>1, <1>6, <2>1, StreamMoves
  <1>7. CASE d = c /\ (ReadFatal(c) \/ Kill(c))
    <2>1. PICK how \in Ended : ClientEnds(c, how) /\ UNCHANGED <<got, opened, spc>>
      BY <1>7 DEF ReadFatal, Kill, Fatal, Ended, svars
    <2> QED
      BY <1>1, <1>7, <2>1, StreamEnds
  <1>8. CASE d = c /\ Break(c)
    <2>1. toServer'[c] = <<>> /\ cIn'[c] = "cut" /\ UNCHANGED <<cpc, got, opened, spc>>
      BY <1>8 DEF Break, Set, TInv, cvars, svars
    <2>2. SubSeq(toServer[c], 1, 0) = <<>>
      BY SubSeqEmpty
    <2>3. 0 \in 0 .. Len(toServer[c])
      BY LenProperties DEF TInv
    <2>4. ~ Alive(c)'
      BY <2>1 DEF Alive
    <2> QED
      BY <1>1, <1>8, <2>1, <2>2, <2>3, <2>4, StreamCutShort
  <1> QED
    BY <1>2, <1>3, <1>4, <1>5, <1>6, <1>7, <1>8 DEF Step, ReaderStep, Env

-----------------------------------------------------------------------------
(* The channel's id, and CloseChannel *)

LEMMA OpenedGrows ==
  ASSUME TInv, NEW c \in Clients, Step(c), NEW d \in Clients
  PROVE  opened[d] \subseteq opened'[d] /\ OpenedInts(d) \subseteq OpenedInts(d)'
  <1>1. CASE PoolReads(c)
    <2>1. opened' = opened \/ \E id \in ChannelIDs : opened' = [opened EXCEPT ![c] = @ \cup {id}]
      BY <1>1 DEF PoolReads
    <2> QED
      <3>1. ASSUME NEW id, opened' = [opened EXCEPT ![c] = @ \cup {id}]
            PROVE  opened[d] \subseteq opened'[d]
        BY <3>1 DEF TInv
      <3>2. opened[d] \subseteq opened'[d]
        BY <2>1, <3>1
      <3> QED
        BY <3>2, Fixed DEF OpenedInts, ToInt
  <1>2. CASE MainStep(c) \/ ReaderStep(c)
    <2>1. opened' = opened
      BY <1>2 DEF MainStep, Dial, Initiate, Established, Refused, HandshakeEnds, WriteSetup,
         WriteOpen, WriteFails, Wake, Test, WriteClose, Exit, Write, Fatal, svars, ReaderStep,
         ReadMessage, ReadEOF, ReadFatal
    <2> QED
      BY <2>1, Fixed DEF OpenedInts, ToInt
  <1>3. CASE ServerStep(c) \/ PoolSends(c) \/ Env(c)
    <2>1. opened' = opened
      BY <1>3 DEF ServerStep, Accept, Receive, ReceiveFatal, Seal, ReturnKeys, HandshakeFatal,
         ReadFirst, ReadLoop, DecryptFatal, ServeEnds, ServerFatal, PoolSends, Env, Signal, Kill, Break, svars
    <2> QED
      BY <2>1, Fixed DEF OpenedInts, ToInt
  <1> QED
    BY <1>1, <1>2, <1>3 DEF Step

\* chanid changes in ReadMessage.
LEMMA ChanidChanges ==
  ASSUME TInv, NEW c \in Clients, Step(c)
  PROVE  /\ UNCHANGED chanid \/ ReadMessage(c)
         /\ cpc'[c] = "closechannel" => cpc[c] = "closechannel" \/ Test(c)
  <1> USE DEF TInv, Set
  <1>1. CASE Dial(c) \/ HandshakeEnds(c) \/ WriteFails(c)
    BY <1>1 DEF Dial, HandshakeEnds, WriteFails, Fatal, ClientEnds
  <1>2. CASE Initiate(c) \/ Established(c) \/ Refused(c) \/ WriteSetup(c) \/ WriteOpen(c)
             \/ WriteClose(c) \/ Wake(c)
    BY <1>2 DEF Initiate, Established, Refused, WriteSetup, WriteOpen, WriteClose, Write, Wake
  <1>3. CASE Test(c) \/ Exit(c)
    BY <1>3 DEF Test, Exit, ClientEnds
  <1>4. CASE ReaderStep(c)
    BY <1>4 DEF ReaderStep, ReadMessage, ReadEOF, ReadFatal, Fatal, ClientEnds
  <1>5. CASE ServerStep(c) \/ PoolReads(c) \/ PoolSends(c)
    BY <1>5 DEF ServerStep, Accept, Receive, ReceiveFatal, Seal, ReturnKeys, HandshakeFatal,
       ReadFirst, ReadLoop, DecryptFatal, ServeEnds, ServerFatal, PoolReads, PoolSends, cvars
  <1>6. CASE Env(c)
    BY <1>6 DEF Env, Signal, Kill, Break, ClientEnds, cvars
  <1> QED
    BY <1>1, <1>2, <1>3, <1>4, <1>5, <1>6 DEF Step, MainStep

LEMMA StepChanInv ==
  ASSUME TInv, ChanInv, NEW c \in Clients, Step(c)
  PROVE  ChanInv'
  <1> SUFFICES ASSUME NEW d \in Clients
               PROVE  /\ chanid'[d] = -1 \/ chanid'[d] \in OpenedInts(d)'
                      /\ cpc'[d] = "closechannel" => chanid'[d] \in OpenedInts(d)'
                      /\ \A i \in 1 .. Len(toClient'[d]) :
                           toClient'[d][i].type = "OpenExtendedMiningChannelSuccess"
                             => toClient'[d][i].id \in opened'[d]
    BY DEF ChanInv
  <1>1. opened[d] \subseteq opened'[d] /\ OpenedInts(d) \subseteq OpenedInts(d)'
    BY OpenedGrows
  <1>2. /\ chanid[d] = -1 \/ chanid[d] \in OpenedInts(d)
        /\ cpc[d] = "closechannel" => chanid[d] \in OpenedInts(d)
        /\ \A i \in 1 .. Len(toClient[d]) :
             toClient[d][i].type = "OpenExtendedMiningChannelSuccess"
               => toClient[d][i].id \in opened[d]
    BY DEF ChanInv
  <1>3. CASE d # c
    BY <1>1, <1>2, <1>3, OtherClients
  <1>4. CASE d = c
    <2>1. chanid'[d] = chanid[d] \/ chanid'[d] \in OpenedInts(d)'
      <3>1. CASE UNCHANGED chanid
        BY <3>1
      <3>2. CASE ReadMessage(c) /\ Head(toClient[c]).type = "OpenExtendedMiningChannelSuccess"
        <4>1. toClient[c] \in Seq(Messages) /\ toClient[c] # <<>>
          BY <3>2 DEF ReadMessage, TInv
        <4>2. Head(toClient[c]).id \in opened[c]
          BY <1>2, <1>4, <3>2, <4>1, TailElements
        <4>3. chanid'[c] = ToInt(Head(toClient[c]).id)
          BY <3>2 DEF ReadMessage, Set, TInv
        <4>4. chanid'[c] \in OpenedInts(c)
          BY <4>2, <4>3 DEF OpenedInts
        <4> QED
          BY <1>1, <1>4, <4>4
      <3>3. CASE ReadMessage(c) /\ Head(toClient[c]).type # "OpenExtendedMiningChannelSuccess"
        BY <3>3 DEF ReadMessage
      <3> QED
        BY <3>1, <3>2, <3>3, ChanidChanges
    <2>2. cpc'[d] = "closechannel" => chanid'[d] \in OpenedInts(d)'
      <3>1. CASE Test(c)
        <4>1. cpc'[c] = "closechannel" => chanid[c] > -1 /\ chanid' = chanid
          BY <3>1 DEF Test, Set, TInv
        <4>2. cpc'[c] = "closechannel" => chanid[c] \in OpenedInts(c)
          BY <1>2, <1>4, <4>1
        <4> QED
          BY <1>1, <1>4, <4>1, <4>2
      <3> QED
        BY <1>1, <1>2, <1>4, <2>1, <3>1, ChanidChanges
    <2>3. ASSUME NEW i \in 1 .. Len(toClient'[c]),
                 toClient'[c][i].type = "OpenExtendedMiningChannelSuccess"
          PROVE  toClient'[c][i].id \in opened'[c]
      <3>1. CASE toClient'[c] = toClient[c]
        BY <1>1, <1>2, <1>4, <2>3, <3>1
      <3>2. CASE Takes(c)
        <4>1. toClient[c] \in Seq(Messages) /\ toClient[c] # <<>> /\ toClient'[c] = Tail(toClient[c])
          BY <3>2 DEF Takes, TInv
        <4>2. PICK j \in 1 .. Len(toClient[c]) : toClient'[c][i] = toClient[c][j]
          BY <4>1, TailElements, SMTT(30)
        <4> QED
          BY <1>1, <1>2, <1>4, <2>3, <4>2
      <3>3. CASE Break(c)
        <4>1. toClient'[c] = <<>>
          BY <3>3 DEF Break, TInv
        <4> QED
          BY <2>3, <4>1
      <3>4. ASSUME NEW m \in Messages, toClient' = Put(toClient, c, m),
                   m.type = "OpenExtendedMiningChannelSuccess" => m.id \in opened'[c]
            PROVE  toClient'[c][i].id \in opened'[c]
        <4>1. toClient[c] \in Seq(Messages) /\ toClient'[c] = Append(toClient[c], m)
          BY <3>4 DEF Put, TInv
        <4>2. (i \in 1 .. Len(toClient[c]) /\ toClient'[c][i] = toClient[c][i])
              \/ toClient'[c][i] = m
          BY <2>3, <4>1, AppendElements
        <4> QED
          BY <1>1, <1>2, <1>4, <2>3, <3>4, <4>2
      <3>5. CASE Seal(c)
        BY <3>1, <3>4, <3>5, SealSends
      <3>6. CASE PoolPuts(c)
        BY <3>4, <3>6 DEF PoolPuts
      <3> QED
        BY <3>1, <3>2, <3>3, <3>5, <3>6, ToClientChanges
    <2> QED
      BY <1>1, <1>2, <1>4, <2>1, <2>2, <2>3
  <1> QED
    BY <1>3, <1>4

-----------------------------------------------------------------------------
(* The theorems *)

LEMMA InitIInv == Init => IInv
  <1> SUFFICES ASSUME Init PROVE IInv
    OBVIOUS
  <1>1. TInv
    BY InitTInv
  <1>2. \A c \in Clients : /\ cpc[c] \in {"absent", "dial"} /\ chanid[c] = -1
                           /\ spc[c] = "none" /\ toServer[c] = <<>> /\ toClient[c] = <<>>
                           /\ sIn[c] = "open" /\ cIn[c] = "open" /\ got[c] = <<>>
    BY DEF Init
  <1>3. Len(<<>>) = 0 /\ \A i \in 1 .. Len(<<>>) : FALSE
    BY EmptySeq
  <1>4. down = "no" /\ Sent("absent") = 4 /\ Sent("dial") = 0
    BY SentValues DEF Init, Ended
  <1>5. StreamInv
    <2> SUFFICES ASSUME NEW c \in Clients PROVE StreamAt(c, 0)
      BY DEF StreamInv
    <2>1. Stream(0, got[c], toServer[c], opened[c])
      BY <1>2, <1>3 DEF Stream
    <2>2. Len(got[c]) = 0 /\ Len(toServer[c]) = 0
      BY <1>2, <1>3
    <2>3. 0 + Len(got[c]) + Len(toServer[c]) = 0
      BY <2>2
    <2>4. Sent(cpc[c]) = 0 \/ (Sent(cpc[c]) = 4 /\ cpc[c] \in Ended)
      BY <1>2, <1>4 DEF Ended
    <2>5. 0 + Len(got[c]) + Len(toServer[c]) <= Sent(cpc[c])
      <3> DEFINE sum == 0 + Len(got[c]) + Len(toServer[c])
                 sent == Sent(cpc[c])
      <3>1. sum = 0 /\ sent \in {0, 4}
        BY <2>3, <2>4
      <3> HIDE DEF sum, sent
      <3>2. sum <= sent
        BY <3>1
      <3> QED
        BY <3>2 DEF sum, sent
    <2>6. cpc[c] \notin Ended => 0 + Len(got[c]) + Len(toServer[c]) = Sent(cpc[c])
      BY <2>3, <2>4
    <2>7. got[c] = <<>> /\ spc[c] = "none"
      BY <1>2
    <2> QED
      BY <2>1, <2>5, <2>6, <2>7 DEF StreamAt
  <1>6. ChanInv
    BY <1>2, <1>3 DEF ChanInv
  <1>7. LinkInv /\ ResponseInv /\ OverlapInv /\ KeysInv /\ SpoiledInv /\ DisturbedInv
    BY <1>2, <1>3, <1>4
       DEF LinkInv, ResponseInv, OverlapInv, KeysInv, SpoiledInv, DisturbedInv, InHandshake, Ended
  <1>8. ServerSurvives /\ ClientSurvives
    BY <1>2, <1>4 DEF ServerSurvives, ClientSurvives
  <1> QED
    BY <1>1, <1>5, <1>6, <1>7, <1>8 DEF IInv

LEMMA StepIInv ==
  ASSUME IInv, NEW c \in Clients, Step(c)
  PROVE  IInv'
  <1>1. TInv /\ StreamInv /\ ChanInv /\ LinkInv /\ ResponseInv /\ OverlapInv
        /\ KeysInv /\ SpoiledInv /\ DisturbedInv /\ ServerSurvives /\ ClientSurvives
    BY DEF IInv
  <1>2. TInv'
    BY <1>1, MainType, ReaderType, ServerType, PoolType, EnvironmentType DEF Step, Env
  <1>3. StreamInv' /\ ChanInv'
    BY <1>1, StepStreamInv, StepChanInv
  <1>4. LinkInv' /\ ResponseInv' /\ OverlapInv' /\ KeysInv' /\ SpoiledInv' /\ DisturbedInv'
    BY <1>1, StepLinkInv, StepResponseInv, StepOverlapInv, StepKeysInv, StepSpoiledInv, StepDisturbedInv
  <1>5. ServerSurvives' /\ ClientSurvives'
    BY <1>1, StepServerSurvives, StepClientSurvives
  <1> QED
    BY <1>2, <1>3, <1>4, <1>5 DEF IInv

\* Only the end of the server's process is not a step of one client.
LEMMA SignalServerIInv ==
  ASSUME IInv, SignalServer
  PROVE  IInv'
  <1>1. ServerEnds("signal")
        /\ UNCHANGED <<kind, wide, auth, cpc, rd, sig, chanid, spc, hs, opened, got, trouble>>
    BY DEF SignalServer, cvars
  <1>2. down' = "signal" /\ (\A c \in Clients : cIn'[c] # "open")
        /\ UNCHANGED <<toServer, toClient, sIn>>
    BY <1>1, ServerEndsType DEF IInv
  <1>3. TInv'
    BY EnvironmentType DEF IInv
  <1>4. StreamInv'
    BY <1>1, <1>2 DEF IInv, StreamInv, StreamAt, Alive
  <1>5. ChanInv'
    BY <1>1, <1>2 DEF IInv, ChanInv, OpenedInts, ToInt
  <1>6. LinkInv' /\ ResponseInv' /\ OverlapInv' /\ KeysInv' /\ SpoiledInv' /\ DisturbedInv'
    BY <1>1, <1>2 DEF IInv, LinkInv, ResponseInv, OverlapInv, KeysInv, SpoiledInv, DisturbedInv, Has
  <1>7. ServerSurvives' /\ ClientSurvives'
    BY <1>1, <1>2 DEF ServerSurvives, ClientSurvives
  <1> QED
    BY <1>3, <1>4, <1>5, <1>6, <1>7 DEF IInv

LEMMA StutterIInv ==
  ASSUME IInv, UNCHANGED vars
  PROVE  IInv'
  <1>1. UNCHANGED <<kind, wide, auth, cpc, rd, sig, chanid, spc, hs, down, opened, got,
                    toServer, toClient, sIn, cIn, trouble>>
    BY DEF vars, cvars, svars, net
  <1>2. TInv'
    BY <1>1 DEF IInv, TInv
  <1>3. StreamInv'
    BY <1>1 DEF IInv, StreamInv, StreamAt, Alive
  <1>4. ChanInv'
    BY <1>1 DEF IInv, ChanInv, OpenedInts, ToInt
  <1>5. LinkInv' /\ ResponseInv' /\ OverlapInv' /\ KeysInv' /\ SpoiledInv' /\ DisturbedInv'
    BY <1>1 DEF IInv, LinkInv, ResponseInv, OverlapInv, KeysInv, SpoiledInv, DisturbedInv, Disturbed, Has
  <1>6. ServerSurvives' /\ ClientSurvives'
    BY <1>1 DEF IInv, ServerSurvives, ClientSurvives, Has
  <1> QED
    BY <1>2, <1>3, <1>4, <1>5, <1>6 DEF IInv

LEMMA Inductive == Spec => []IInv
  <1>1. IInv /\ [Next]_vars => IInv'
    <2> SUFFICES ASSUME IInv, [Next]_vars PROVE IInv'
      OBVIOUS
    <2>1. CASE UNCHANGED vars
      BY <2>1, StutterIInv
    <2>2. CASE Next
      BY <2>2, StepIInv, SignalServerIInv DEF Next, Step, Env
    <2> QED
      BY <2>1, <2>2
  <1> QED
    BY <1>1, InitIInv, PTL DEF Spec

\* A server reads SetupConnection, OpenExtendedMiningChannel and
\* CloseChannel in this order, each at most once, and a CloseChannel names a
\* channel that was opened for this client.
THEOREM FramesInOrder == Spec => []SessionOrder
  <1>1. IInv => SessionOrder
    <2> SUFFICES ASSUME IInv, NEW c \in Clients
                 PROVE  LET order == <<"SetupConnection", "OpenExtendedMiningChannel",
                                       "CloseChannel">>
                        IN  /\ Len(got[c]) <= 3
                            /\ \A i \in DOMAIN got[c] :
                                 /\ got[c][i].type = order[i]
                                 /\ i = 3 => got[c][i].id \in opened[c]
      BY DEF SessionOrder
    <2>1. PICK e \in {0, 1} : StreamAt(c, e)
      BY DEF IInv, StreamInv
    <2>2. Len(got[c]) \in Nat /\ Len(toServer[c]) \in Nat /\ Sent(cpc[c]) \in 0 .. 4
          /\ DOMAIN got[c] = 1 .. Len(got[c]) /\ got[c] \in Seq(Messages)
      BY LenProperties, SentValues DEF IInv, TInv
    <2>3. Len(got[c]) <= 3
      <3> DEFINE a == Len(got[c])
                 b == Len(toServer[c])
                 s == Sent(cpc[c])
      <3>1. a \in Nat /\ b \in Nat /\ s \in 0 .. 4
        BY <2>2
      <3>2. e + a + b <= s
        BY <2>1 DEF StreamAt
      <3>3. a # 0 => e = 1
        BY <2>1, EmptySeq DEF StreamAt
      <3> HIDE DEF a, b, s
      <3>4. a <= 3
        BY <3>1, <3>2, <3>3
      <3> QED
        BY <3>4 DEF a
    <2>4. ASSUME NEW i \in 1 .. Len(got[c])
          PROVE  /\ got[c][i].type = <<"SetupConnection", "OpenExtendedMiningChannel",
                                       "CloseChannel">>[i]
                 /\ i = 3 => got[c][i].id \in opened[c]
      <3>1. i = 1 \/ i = 2 \/ i = 3
        BY <2>2, <2>3
      <3>2. got[c][i].type = Full[i + 1]
            /\ (got[c][i].type = "CloseChannel" => got[c][i].id \in opened[c])
        BY <2>1 DEF StreamAt, Stream
      <3>3. Full[1 + 1] = "SetupConnection" /\ Full[2 + 1] = "OpenExtendedMiningChannel"
            /\ Full[3 + 1] = "CloseChannel"
        BY DEF Full
      <3> QED
        BY <3>1, <3>2, <3>3
    <2> QED
      BY <2>2, <2>3, <2>4
  <1> QED
    BY <1>1, Inductive, PTL

\* The server's process is ended by loog.Fatal only after handshakes that
\* overlapped, a broken connection or a client killed in its handshake,
\* however many clients there are.
THEOREM ServerEndsOnlyByTrouble == Spec => []ServerSurvives
  <1>1. IInv => ServerSurvives
    BY DEF IInv
  <1> QED
    BY <1>1, Inductive, PTL

\* A client ends with an error only because of its own connection, of its
\* certificate or of a server that is gone.
THEOREM ClientEndsOnlyByTrouble == Spec => []ClientSurvives
  <1>1. IInv => ClientSurvives
    BY DEF IInv
  <1> QED
    BY <1>1, Inductive, PTL
=============================================================================
