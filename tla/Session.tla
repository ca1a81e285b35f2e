------------------------------ MODULE Session ------------------------------
(***************************************************************************)
(* Whole sessions of the example client (examples/logger) with the example *)
(* server (examples/server) or with a mining pool: dial, handshake, the    *)
(* certificate, SetupConnection, OpenExtendedMiningChannel, the goroutine  *)
(* that reads, the signal, CloseChannel and the end of either process.     *)
(*                                                                         *)
(* A connection is two queues of whole messages and, for each reader, what *)
(* it meets behind the last one: nothing yet ("open"), io.EOF, or another  *)
(* error ("cut": bytes are missing or the connection was reset, as TCP     *)
(* does when a process ends with bytes unread).  What the handshakes do to *)
(* a HandshakeState that several connections share is taken from           *)
(* Handshake.tla; frames arrive in order and once (FrameChannel.tla).      *)
(***************************************************************************)
EXTENDS Integers, Sequences, FiniteSets

CONSTANTS
  Clients,     \* processes of the example client
  ChannelIDs,  \* channel ids a pool gives
  U32          \* number of values of a 32-bit integer

ASSUME SessionAssumption ==
  U32 \in Nat \ {0} /\ U32 % 2 = 0 /\ ChannelIDs \subseteq 0 .. U32 - 1

VARIABLES
  kind,      \* "example": one server for all clients; "pool": one client
  wide,      \* int has 64 bits on the client
  auth,      \* -authority: "none", or whether the certificate verifies
  cpc,       \* where main is in each client
  rd,        \* its reading goroutine: "none", "reading", "returned"
  sig,       \* a signal is waiting in sigs
  chanid,    \* the client's chanid, -1 at first
  spc,       \* the server's goroutine for each connection
  hs,        \* the server's HandshakeState: clients mixed in, a key is set
  down,      \* the server process: "no", "signal", "fatal"
  toServer,  \* messages on their way, in both directions
  toClient,
  sIn,       \* what the server meets behind them: "open", "eof", "cut"
  cIn,       \* and the client
  opened,    \* channel ids the pool has given to each client
  got,       \* history: frames the server has read
  trouble    \* history: what has gone wrong for each connection

cvars == <<cpc, rd, sig, chanid>>
svars == <<spc, hs, down, opened, got>>
net == <<toServer, toClient, sIn, cIn>>
vars == <<kind, wide, auth, cvars, svars, net, trouble>>

Ended == {"exited", "fatal", "killed", "absent"}
InHandshake == {"handshake", "seal", "keys"}

Msg(type, id) == [type |-> type, id |-> id]

\* int(msg.ChannelID) and uint32(chanid)
ToInt(id) == IF wide \/ 2 * id < U32 THEN id ELSE id - U32
ToU32(i) == i % U32

Set(fn, c, v) == [fn EXCEPT ![c] = v]
Put(fn, c, m) == [fn EXCEPT ![c] = Append(@, m)]

Init ==
  /\ kind \in {"example", "pool"}
  /\ wide \in IF kind = "pool" THEN BOOLEAN ELSE {TRUE}
  /\ auth \in IF kind = "pool" THEN {"none", "valid"} ELSE {"none", "expired"}
  /\ \E d \in Clients :
       cpc = [c \in Clients |-> IF kind = "pool" /\ c # d THEN "absent" ELSE "dial"]
  /\ rd = [c \in Clients |-> "none"]
  /\ sig = [c \in Clients |-> FALSE]
  /\ chanid = [c \in Clients |-> -1]
  /\ spc = [c \in Clients |-> "none"]
  /\ hs = [mixed |-> {}, keyed |-> FALSE]
  /\ down = "no"
  /\ toServer = [c \in Clients |-> <<>>]
  /\ toClient = [c \in Clients |-> <<>>]
  /\ sIn = [c \in Clients |-> "open"]
  /\ cIn = [c \in Clients |-> "open"]
  /\ opened = [c \in Clients |-> {}]
  /\ got = [c \in Clients |-> <<>>]
  /\ trouble = [c \in Clients |-> {}]

Has(c, what) == what \in trouble[c]
Note(c, what) == trouble' = [trouble EXCEPT ![c] = @ \cup {what}]

-----------------------------------------------------------------------------
(* The end of a process: the kernel closes its connections.  Bytes it has  *)
(* not read turn that into a reset, and the peer may lose what is on its   *)
(* way.                                                                    *)

ClientEnds(c, how) ==
  /\ cpc' = Set(cpc, c, how)
  /\ IF sIn[c] # "open" \/ toClient[c] = <<>>
     THEN /\ sIn' = Set(sIn, c, IF sIn[c] = "open" THEN "eof" ELSE sIn[c])
          /\ UNCHANGED toServer
     ELSE /\ sIn' = Set(sIn, c, "cut")
          /\ \E k \in 0 .. Len(toServer[c]) :
               toServer' = Set(toServer, c, SubSeq(toServer[c], 1, k))
  /\ UNCHANGED <<toClient, cIn>>

ServerEnds(how) ==
  /\ down' = how
  /\ cIn' = [c \in Clients |->
               IF cIn[c] # "open" THEN cIn[c]
               ELSE IF toServer[c] = <<>> THEN "eof" ELSE "cut"]
  /\ UNCHANGED <<toServer, toClient, sIn>>

-----------------------------------------------------------------------------
(* The client *)

\* The connection is up as far as the client's kernel knows.
Alive(c) == down = "no" /\ cIn[c] = "open"

Fatal(c) ==
  /\ ClientEnds(c, "fatal")
  /\ UNCHANGED <<kind, wide, auth, rd, sig, chanid, svars, trouble>>

Dial(c) ==
  /\ cpc[c] = "dial"
  /\ IF down = "no"
     THEN cpc' = Set(cpc, c, "initiate") /\ UNCHANGED net
     ELSE ClientEnds(c, "fatal")
  /\ UNCHANGED <<kind, wide, auth, rd, sig, chanid, svars, trouble>>

\* PerformHandshakeInitiator drops the error of its write.
Initiate(c) ==
  /\ cpc[c] = "initiate"
  /\ toServer' = IF Alive(c) THEN Put(toServer, c, Msg("ephemeral", 0)) ELSE toServer
  /\ cpc' = Set(cpc, c, "handshake")
  /\ UNCHANGED <<kind, wide, auth, rd, sig, chanid, svars, toClient, sIn, cIn, trouble>>

\* The handshake succeeds and so does the verification: the reader starts.
Established(c) ==
  /\ cpc[c] = "handshake"
  /\ toClient[c] # <<>>
  /\ Head(toClient[c]).type = "response"
  /\ auth # "expired"
  /\ toClient' = [toClient EXCEPT ![c] = Tail(@)]
  /\ cpc' = Set(cpc, c, "setup")
  /\ rd' = Set(rd, c, "reading")
  /\ UNCHANGED <<kind, wide, auth, sig, chanid, svars, toServer, sIn, cIn, trouble>>

\* Mutant: a certificate is refused whenever it is checked.
RefusedAlways(c) ==
  /\ cpc[c] = "handshake"
  /\ toClient[c] # <<>>
  /\ Head(toClient[c]).type = "spoiled" \/ auth # "none"
  /\ cpc' = Set(cpc, c, "fatal")
  /\ toClient' = [toClient EXCEPT ![c] = Tail(@)]
  /\ sIn' = Set(sIn, c, IF sIn[c] = "open" THEN "eof" ELSE sIn[c])
  /\ UNCHANGED <<kind, wide, auth, rd, sig, chanid, svars, toServer, cIn, trouble>>

\* The response does not decrypt, or the certificate does not verify.
Refused(c) ==
  /\ cpc[c] = "handshake"
  /\ toClient[c] # <<>>
  /\ Head(toClient[c]).type = "spoiled" \/ auth = "expired"
  /\ cpc' = Set(cpc, c, "fatal")
  /\ toClient' = [toClient EXCEPT ![c] = Tail(@)]
  /\ sIn' = Set(sIn, c, IF sIn[c] = "open" THEN "eof" ELSE sIn[c])
  /\ UNCHANGED <<kind, wide, auth, rd, sig, chanid, svars, toServer, cIn, trouble>>

HandshakeEnds(c) ==
  /\ cpc[c] = "handshake"
  /\ toClient[c] = <<>>
  /\ cIn[c] # "open"
  /\ Fatal(c)

\* WriteFrame: a frame for a peer that has gone is accepted and lost, or the
\* write fails.
Write(c, m, next) ==
  /\ toServer' = IF Alive(c) THEN Put(toServer, c, m) ELSE toServer
  /\ cpc' = Set(cpc, c, next)
  /\ UNCHANGED <<kind, wide, auth, rd, sig, chanid, svars, toClient, sIn, cIn, trouble>>

WriteSetup(c) == cpc[c] = "setup" /\ Write(c, Msg("SetupConnection", 0), "open")


WriteOpen(c) == cpc[c] = "open" /\ Write(c, Msg("OpenExtendedMiningChannel", 0), "wait")

WriteFails(c) ==
  /\ cpc[c] \in {"setup", "open"}
  /\ ~ Alive(c)
  /\ Fatal(c)

\* <-sigs
Wake(c) ==
  /\ cpc[c] = "wait"
  /\ sig[c]
  /\ cpc' = Set(cpc, c, "test")
  /\ UNCHANGED <<kind, wide, auth, rd, sig, chanid, svars, net, trouble>>

\* Mutant: the test admits the initial value.
TestInitial(c) ==
  /\ cpc[c] = "test"
  /\ cpc' = Set(cpc, c, IF chanid[c] >= -1 THEN "closechannel" ELSE "close")
  /\ UNCHANGED <<kind, wide, auth, rd, sig, chanid, svars, net, trouble>>

\* if chanid > -1
Test(c) ==
  /\ cpc[c] = "test"
  /\ cpc' = Set(cpc, c, IF chanid[c] > -1 THEN "closechannel" ELSE "close")
  /\ UNCHANGED <<kind, wide, auth, rd, sig, chanid, svars, net, trouble>>

\* chanid is read again; an error of this write is only logged.
WriteClose(c) ==
  /\ cpc[c] = "closechannel"
  /\ Write(c, Msg("CloseChannel", ToU32(chanid[c])), "close")

\* conn.Close() and the end of main.
Exit(c) ==
  /\ cpc[c] = "close"
  /\ ClientEnds(c, "exited")
  /\ UNCHANGED <<kind, wide, auth, rd, sig, chanid, svars, trouble>>

MainStep(c) ==
  \/ Dial(c) \/ Initiate(c) \/ Established(c) \/ Refused(c) \/ HandshakeEnds(c)
  \/ WriteSetup(c) \/ WriteOpen(c) \/ WriteFails(c)
  \/ Wake(c) \/ Test(c) \/ WriteClose(c) \/ Exit(c)

-----------------------------------------------------------------------------
(* The client's reading goroutine, which runs until the process ends *)

Reading(c) == rd[c] = "reading" /\ cpc[c] \notin Ended

ReadMessage(c) ==
  /\ Reading(c)
  /\ toClient[c] # <<>>
  /\ chanid' = IF Head(toClient[c]).type = "OpenExtendedMiningChannelSuccess"
               THEN Set(chanid, c, ToInt(Head(toClient[c]).id)) ELSE chanid
  /\ toClient' = [toClient EXCEPT ![c] = Tail(@)]
  /\ UNCHANGED <<kind, wide, auth, cpc, rd, sig, svars, toServer, sIn, cIn, trouble>>

\* io.EOF ends the goroutine and leaves main waiting for its signal.
ReadEOF(c) ==
  /\ Reading(c)
  /\ toClient[c] = <<>> /\ cIn[c] = "eof"
  /\ rd' = Set(rd, c, "returned")
  /\ UNCHANGED <<kind, wide, auth, cpc, sig, chanid, svars, net, trouble>>

\* Any other error ends the process.
ReadFatal(c) ==
  /\ Reading(c)
  /\ toClient[c] = <<>> /\ cIn[c] = "cut"
  /\ Fatal(c)

ReaderStep(c) == ReadMessage(c) \/ ReadEOF(c) \/ ReadFatal(c)

-----------------------------------------------------------------------------
(* The example server *)

Up == kind = "example" /\ down = "no"

ServerFatal ==
  /\ ServerEnds("fatal")
  /\ UNCHANGED <<kind, wide, auth, cvars, spc, hs, opened, got, trouble>>

\* Accept, and PerformHandshakeResponder up to its first read.
Accept(c) ==
  /\ Up
  /\ spc[c] = "none" /\ cpc[c] # "dial"
  /\ spc' = Set(spc, c, "handshake")
  /\ hs' = [mixed |-> {}, keyed |-> FALSE]
  /\ trouble' = [d \in Clients |->
                   IF \E e \in Clients \ {c} : d \in {c, e} /\ spc[e] \in InHandshake
                   THEN trouble[d] \cup {"overlap"} ELSE trouble[d]]
  /\ UNCHANGED <<kind, wide, auth, cvars, down, opened, got, net>>

\* mixHash and decryptAndHash of an empty payload, which fails if another
\* handshake has left a key: loog.Fatal ends the process.
Receive(c) ==
  /\ Up
  /\ spc[c] = "handshake"
  /\ toServer[c] # <<>>
  /\ ~ hs.keyed
  /\ hs' = [hs EXCEPT !.mixed = @ \cup {c}]
  /\ toServer' = [toServer EXCEPT ![c] = Tail(@)]
  /\ spc' = Set(spc, c, "seal")
  /\ UNCHANGED <<kind, wide, auth, cvars, down, opened, got, toClient, sIn, cIn, trouble>>

ReceiveFatal(c) ==
  /\ Up
  /\ spc[c] = "handshake"
  /\ toServer[c] # <<>> /\ hs.keyed
  /\ ServerFatal

\* The second message: its recipient can open it only if the state holds
\* nothing but this handshake.  The error of the write is dropped.
Seal(c) ==
  /\ Up
  /\ spc[c] = "seal"
  /\ toClient' = IF sIn[c] # "open" THEN toClient
                 ELSE Put(toClient, c, Msg(IF hs = [mixed |-> {c}, keyed |-> FALSE]
                                           THEN "response" ELSE "spoiled", 0))
  /\ hs' = [hs EXCEPT !.keyed = TRUE]
  /\ spc' = Set(spc, c, "keys")
  /\ UNCHANGED <<kind, wide, auth, cvars, down, opened, got, toServer, sIn, cIn, trouble>>

\* The transport keys are derived after that write, from what the state holds
\* by then.
ReturnKeys(c) ==
  /\ Up
  /\ spc[c] = "keys"
  /\ spc' = Set(spc, c, IF hs = [mixed |-> {c}, keyed |-> TRUE] THEN "first" ELSE "wrongkeys")
  /\ UNCHANGED <<kind, wide, auth, cvars, hs, down, opened, got, net, trouble>>

\* The read of the handshake meets any error.
HandshakeFatal(c) ==
  /\ Up
  /\ spc[c] = "handshake"
  /\ toServer[c] = <<>> /\ sIn[c] # "open"
  /\ ServerFatal

\* SetupConnectionSuccess is prepared and not sent.
ReadFirst(c) ==
  /\ Up
  /\ spc[c] = "first"
  /\ toServer[c] # <<>>
  /\ got' = Put(got, c, Head(toServer[c]))
  /\ toServer' = [toServer EXCEPT ![c] = Tail(@)]
  /\ spc' = Set(spc, c, IF Head(toServer[c]).type = "SetupConnection" THEN "loop" ELSE "returned")
  /\ UNCHANGED <<kind, wide, auth, cvars, hs, down, opened, toClient, sIn, cIn, trouble>>

ReadLoop(c) ==
  /\ Up
  /\ spc[c] = "loop"
  /\ toServer[c] # <<>>
  /\ got' = Put(got, c, Head(toServer[c]))
  /\ toServer' = [toServer EXCEPT ![c] = Tail(@)]
  /\ UNCHANGED <<kind, wide, auth, cvars, spc, hs, down, opened, toClient, sIn, cIn, trouble>>

\* A frame does not open under other keys than the client's.
DecryptFatal(c) ==
  /\ Up
  /\ spc[c] = "wrongkeys"
  /\ toServer[c] # <<>>
  /\ ServerFatal

\* Mutant: io.EOF is an error like the others.
ServeEndsFatal(c) ==
  /\ Up
  /\ spc[c] \in {"first", "loop", "wrongkeys"}
  /\ toServer[c] = <<>> /\ sIn[c] # "open"
  /\ ServerFatal

\* Mutant: the goroutine reads on after io.EOF.
ServeEndsIgnored(c) == sIn[c] = "cut" /\ ServeEndsFatal(c)

\* io.EOF ends the goroutine, any other error of a read the process.
ServeEnds(c) ==
  /\ Up
  /\ spc[c] \in {"first", "loop", "wrongkeys"}
  /\ toServer[c] = <<>>
  /\ \/ /\ sIn[c] = "eof"
        /\ spc' = Set(spc, c, "returned")
        /\ UNCHANGED <<kind, wide, auth, cvars, hs, down, opened, got, net, trouble>>
     \/ sIn[c] = "cut" /\ ServerFatal

ServerStep(c) ==
  \/ Accept(c) \/ Receive(c) \/ ReceiveFatal(c) \/ Seal(c) \/ ReturnKeys(c) \/ HandshakeFatal(c)
  \/ ReadFirst(c) \/ ReadLoop(c) \/ DecryptFatal(c) \/ ServeEnds(c)

-----------------------------------------------------------------------------
(* A pool, external to the repository: it answers the handshake, opens a   *)
(* channel when asked to and sends jobs at any time.                       *)

PoolReads(c) ==
  /\ kind = "pool" /\ down = "no"
  /\ toServer[c] # <<>>
  /\ LET m == Head(toServer[c])
     IN  /\ toServer' = [toServer EXCEPT ![c] = Tail(@)]
         /\ \/ /\ m.type = "ephemeral"
               /\ toClient' = Put(toClient, c, Msg("response", 0))
               /\ UNCHANGED <<opened, got>>
            \/ /\ m.type = "OpenExtendedMiningChannel"
               /\ \E id \in ChannelIDs :
                    /\ opened' = [opened EXCEPT ![c] = @ \cup {id}]
                    /\ toClient' = Put(toClient, c, Msg("OpenExtendedMiningChannelSuccess", id))
               /\ got' = Put(got, c, m)
            \/ /\ m.type \notin {"ephemeral", "OpenExtendedMiningChannel"}
               /\ got' = Put(got, c, m)
               /\ UNCHANGED <<opened, toClient>>
  /\ UNCHANGED <<kind, wide, auth, cvars, spc, hs, down, sIn, cIn, trouble>>

PoolSends(c) ==
  /\ kind = "pool" /\ down = "no"
  /\ got[c] # <<>> /\ Len(toClient[c]) < 2 /\ sIn[c] = "open"
  /\ toClient' = Put(toClient, c, Msg("NewExtendedMiningJob", 0))
  /\ UNCHANGED <<kind, wide, auth, cvars, svars, toServer, sIn, cIn, trouble>>

-----------------------------------------------------------------------------
(* The environment *)

\* SIGINT or SIGTERM: kept in sigs until main looks.
Signal(c) ==
  /\ ~ sig[c] /\ cpc[c] \notin Ended
  /\ sig' = Set(sig, c, TRUE)
  /\ UNCHANGED <<kind, wide, auth, cpc, rd, chanid, svars, net, trouble>>

SignalServer ==
  /\ down = "no"
  /\ ServerEnds("signal")
  /\ UNCHANGED <<kind, wide, auth, cvars, spc, hs, opened, got, trouble>>

\* The client's process is killed.
Kill(c) ==
  /\ cpc[c] \notin Ended \cup {"dial"}
  /\ ClientEnds(c, "killed")
  /\ IF cpc[c] \in {"initiate", "handshake"} THEN Note(c, "killed early") ELSE UNCHANGED trouble
  /\ UNCHANGED <<kind, wide, auth, rd, sig, chanid, svars>>

\* The connection breaks: both ends meet an error behind what still arrives.
Break(c) ==
  /\ cpc[c] \notin Ended \cup {"dial"}
  /\ sIn[c] = "open" /\ cIn[c] = "open"
  /\ sIn' = Set(sIn, c, "cut")
  /\ cIn' = Set(cIn, c, "cut")
  /\ toServer' = [toServer EXCEPT ![c] = <<>>]
  /\ toClient' = [toClient EXCEPT ![c] = <<>>]
  /\ Note(c, "broken")
  /\ UNCHANGED <<kind, wide, auth, cvars, svars>>

Next ==
  \/ \E c \in Clients :
       \/ MainStep(c) \/ ReaderStep(c)
       \/ ServerStep(c) \/ PoolReads(c) \/ PoolSends(c)
       \/ Signal(c) \/ Kill(c) \/ Break(c)
  \/ SignalServer

Spec == Init /\ [][Next]_vars

\* Goroutines that can run are scheduled, and a pool answers; nothing is
\* assumed of signals, crashes and the network.
FairSpec ==
  /\ Spec
  /\ \A c \in Clients :
       /\ WF_vars(MainStep(c)) /\ WF_vars(ReaderStep(c))
       /\ WF_vars(ServerStep(c)) /\ WF_vars(PoolReads(c))

-----------------------------------------------------------------------------
(* Properties *)

\* What a server reads from the example client is SetupConnection,
\* OpenExtendedMiningChannel, CloseChannel or a beginning of that, and a
\* CloseChannel names a channel that was opened for this client, although
\* chanid is shared without a lock, is an int and starts as -1.
SessionOrder ==
  \A c \in Clients :
    LET order == <<"SetupConnection", "OpenExtendedMiningChannel", "CloseChannel">>
    IN  /\ Len(got[c]) <= 3
        /\ \A i \in DOMAIN got[c] :
             /\ got[c][i].type = order[i]
             /\ i = 3 => got[c][i].id \in opened[c]

\* The server process, whose goroutines call loog.Fatal, is not taken down by
\* clients that come and go, give up on the certificate, crash or leave at
\* any point of an established session: it takes handshakes that overlap,
\* a connection that breaks, or a client killed in its handshake.
ServerSurvives ==
  down = "fatal" =>
    \E c \in Clients :
      Has(c, "overlap") \/ Has(c, "broken") \/ Has(c, "killed early")

\* A client dies only of its own connection or of a server that went down:
\* overlapping handshakes, a break, a certificate that does not verify.
ClientSurvives ==
  \A c \in Clients :
    cpc[c] = "fatal" =>
      Has(c, "overlap") \/ Has(c, "broken") \/ auth = "expired" \/ down # "no"


\* The server's goroutine for a client that has ended returns, unless the
\* server is gone.
GoroutinesEnd ==
  \A c \in Clients :
    cpc[c] \in Ended /\ spc[c] # "none" ~> spc[c] = "returned" \/ down # "no"
=============================================================================
