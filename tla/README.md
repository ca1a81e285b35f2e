# Verification of stratumv2

TLA+ models of the Go package `stratumv2`, an implementation of the Stratum V2
mining protocol: its Noise encryption, key pairs, frames and their transport, the
encoding of messages, the arithmetic on targets, and the example programs built
on them. TLC checks the models on small instances; TLAPS proves the safety
properties that the passing runs check, for every value of the parameters. `PROJECT.json` maps every definition to the lines it models.

## The system

| part | source | state | operations |
|---|---|---|---|
| CipherState | `noise.go` 416-493 | key, AEAD, atomic nonce counter `n` | `InitializeKey`, `Encrypt(WithAd)`, `Decrypt(WithAd)` |
| Noise handshake | `noise.go` 121-414, 628-659, 714-734 | `HandshakeState`: hash `h`, chaining key `ck`, a CipherState, the peer's certificate and static key | `PerformHandshakeInitiator`, `PerformHandshakeResponder`, `VerifyServerCertificate`, `NewSignedCertificate` |
| encrypted transport | `noise.go` 495-621, `examples/shared` | a CipherState per direction, the byte stream | `EncryptFrame(ToWriter)`, `DecryptFrame(FromReader)` |
| frame and TLV | `types.go` 47-246 | header fields, payload, TLVs | `NewFrameFromParams`, `Encode`, `Decode`, `DecodeHeader`, `ReadPayload`, `DecodeFromReader` |
| binary codec | `binary.go`, sequences of `types.go` | builder: bytes and sticky error; reader: position and sticky error | `Add*`, `Read*`, `Seek` |
| messages | `core.go`, `mining.go`, certificate in `noise.go` | fields of 27 messages | `Encode`, `Decode` |
| U256 | `types.go` 411-534 | 32 bytes, most significant first | `SetBytes`, `SetString`, `Add`, `Sub`, `Compare`, `IsMetBy` |
| keys | `noise.go` 62-119, 661-712, `ellswift.go` | key pair and its ElligatorSwift form | create, recreate, encode, decode |
| example sessions | `examples/server`, `examples/logger` | goroutine per connection, channel id | handshake, set up, open a channel, read loop, close |
| grinder | `examples/grinder` | workers and a result channel | search, report, cancel |

How they interact. A server or client runs a handshake on a `net.Conn`; it ends
with two CipherStates, one per direction. Messages are encoded by a
`BinaryBuilder` into the payload of a frame, the frame is encoded, its header
and its payload are sealed by two calls of `Encrypt`, and both ciphertexts are
written at once. The peer reads and opens a header, learns the payload's length
from it, reads and opens the payload, and decodes the message with a
`BinaryReader`.

What is hard here. The comments promise concurrent use of a CipherState, whose
nonce is taken in two atomic operations. A nonce that is wrong, skipped or used
twice stops or compromises a connection, and the counter goes back when a
decryption fails. The byte stream can end anywhere. Headers and payloads are
told apart only by their order. A HandshakeState keeps results of earlier
handshakes, and the example server shares one between goroutines. The codec has
sticky errors on both sides, lengths with limits, and payloads that come from
other implementations. Encoding a frame changes the frame, and frames are
decoded into frames that were used before. The goroutines of the examples end
their whole process at most errors, share a channel id without a lock, and send
into a channel that nobody may read any more. The arithmetic carries and borrows
by hand.

The list `hazards` in `PROJECT.json` gives each of these at its line with the
properties that would catch it going wrong.

## Modules

| module | models | uses |
|---|---|---|
| `AtomicCipher` | what a CipherState promises: every call is one step, nonces are consecutive | |
| `CipherState` | its methods, one action per atomic operation, calls of several goroutines interleaved | `AtomicCipher` (refinement) |
| `FrameChannel` | what one direction of a connection promises: a FIFO of frames that may stop | |
| `Transport` | writers, byte stream, and a peer that reads or decrypts slices | `FrameChannel` (refinement) |
| `Handshake` | both roles, several connections, breaks and damage, certificates | |
| `Binary` | bytes and little-endian integers | |
| `Messages` | the layouts of all messages, Encode and Decode apart | `Binary` |
| `Codec` | builder and reader working through a layout | `Messages` |
| `Frame` | a sender's and a receiver's Frame, TLVs, both ways to decode | `Binary` |
| `Session` | clients, the example server or a pool, from dialling to the end of both processes | results of `Handshake` and `FrameChannel`, by assumption |
| `Keypair` | creating, recreating, storing and loading key pairs; the authority key's text | |
| `Grinder` | the grinder's workers and main; loading what it printed | `Keypair` |
| `U256` | the arithmetic, one action per loop iteration, and the comparison | |
| `MC*` | constants of the instances that TLC checks | |
| `*Proofs` | theorems about the module of that name, with their proofs | that module, TLAPS and its libraries |

An operator whose comment begins with "Mutant" is a deliberately wrong variant
of the definition that follows it. No specification uses it; it documents a
mistake that the named properties would reveal.

### CipherState

`n`, `key` and the history of the calls are the variables; each of the
`Goroutines` has a `pc` that follows its call: test of the limit, load of the nonce,
addition, `Seal` or `Open`, and after a failed `Open` the subtraction. The
counter has `NonceMod` values (2^64) and wraps. `maxNoiseNonce` is a parameter:
`uint64(math.Pow(2, 64)) - 1` converts a float that is out of range, and Go
leaves the result to the implementation; the instances use the outcomes that
compilers produce. Any call may begin while others are under way; the history
variable `overlapped` remembers that one did, and the properties that hold for
callers that take turns (under a lock, or in one goroutine) are stated up to
that moment. The AEAD is symbolic: `Open` succeeds exactly on what was sealed
with the same key and nonce.

### Handshake

An initiator's steps end at its operations on the connection: start and first
message, and finish or one of the errors. A responder takes one step for every
call that uses its HandshakeState (`ResponderStart` to `AddCert`), one for the
Write, and one for the transport keys, which come from the chaining key as it is
after the Write: another goroutine with the same HandshakeState can come in
between any two of these. `out` is what a responder has collected for its
message. A `plan`, chosen from the constant `Plans` at the start, says for each
connection which server it goes to and which `HandshakeState` each side uses,
so that a client can use one again and a server can share one. Hash, keys and
ciphertexts are the terms they were computed from. `Break` and `Damage` are the
network's; both writes of the handshake ignore their errors, as the code does.

### Transport

The stream is a sequence of bytes that know which ciphertext they belong to, so
a block opens exactly when it is one whole ciphertext under the expected nonce.
A call of `Encrypt` is one step here: `CallsAreAtomic` proves that this is
sound as long as no two calls on one CipherState overlap. The two calls for one frame are two steps,
and other writers may come in between; the history variable `overlapped`
remembers that a header was sealed while another frame waited for its Write.
The variable `via` says how the peer decrypts. A reader stops at the first error,
which is what the loops of the examples do. A peer that collects bytes calls
`DecryptFrame` on a slice with one frame, or with part of one; then the header's
nonce is used although the call fails, and the history variable `cutShort`
remembers it. Payloads may be empty or longer than a chunk; `Fits` tells the
lengths for which what is sealed is as long as what the reader expects.

### Codec and Messages

A layout lists the fields that `Encode` writes and those that `Decode` reads.
Integers have their real widths in bytes, with `Base` values per byte; hashes
and signatures are shortened by parameters. `Codec` takes a message through
`Encode` field by field, hands the bytes over whole, cut, or with one byte
changed, and takes them through `Decode` into a message that is new or was used
before. The embedded message of `OpenExtendedMiningChannel` has a builder of its
own, whose error discards the bytes (`Embedded`, `EmbeddedFails`). A panic is a
result of its own. Floats are their bits, strings and the
serialised coinbase outputs are byte sequences.

### Frame

One `Frame` of a sender and one of a receiver, each used again and again. The
sender fills its frame (`FromParams`), may set TLVs, and encodes it once or, as
`WriteFrame` does to log it, twice; `Encode` is an operator that returns the
error, the changed frame and the bytes. The receiver either reads a byte stream
with `DecodeFromReader`, in which other frames follow and which can end anywhere,
or calls `Decode` on a slice: whole, with TLVs that a peer appended and a few
bytes of garbage, or cut. One action is one iteration of the loop over TLVs.
Slicing is bounded by the capacity of the array behind the slice, so a cut slice
may be read past its end; `spare` is what the array holds there.

### Session

Each client has a main goroutine (`cpc`) and a reading goroutine (`rd`) that
share `chanid`; the example server has a goroutine per connection (`spc`) and one
`HandshakeState` (`hs`); a pool is an external process that follows the protocol.
A connection is two queues of whole messages and what a reader meets behind
them: `io.EOF`, another error, or nothing yet. `loog.Fatal` ends the process and
with it every connection it has, and a process that ends with unread bytes resets
its connections. `Kill`, `Signal`, `SignalServer` and `Break` may come at any
time. Of the handshake the model keeps what matters to the session: whether a
shared state was mixed with another connection's or had a key already, which is
what `Handshake` shows to spoil it. As there, the transport keys are derived
after the Write, so that the server may read with other keys than its client
writes with (`"wrongkeys"`), and its first read then fails.

### Keypair and Grinder

The curve is symbolic: private keys are numbers modulo a small `Order`, a key and
its negative have one x-coordinate, and an ElligatorSwift encoding exists for the
triples `Solvable` only, so that recreating a key pair can fail. The grinder's
workers look at their context once per round, and their send blocks while the
buffered channel is full. What `main` printed is loaded again with
`Keypair.Decode`, intact, cut or altered, into a key pair that may be in use.

### U256

`Begin` starts a loop and `AddByte` and `SubByte` are its iterations. `Compare`
and `IsMetBy` are operators, checked in every state on the two numbers there.

## Runs

| run | shows |
|---|---|
| `cipher` | calls that may overlap: no increment or decrement is lost; and as long as none has overlapped, no nonce twice, no ciphertext accepted twice, none skipped, the limit holds, and the calls are atomic |
| `cipher_overlap_reuse` | violated: overlapping calls use a nonce twice |
| `handshake` | a client that uses its HandshakeState again, or two clients at once: keys agree, nonces are fresh, damage is detected, verdicts are right, handshakes do not disturb each other, every one ends |
| `handshake_shared` | violated: they do disturb each other when the server shares one HandshakeState |
| `transport` | two writers: what is delivered is a prefix of what was written, headers are never taken for payloads, and unless frames overlap, do not fit or are decrypted in parts the peer stays in step and gets everything while the connection is up |
| `codec` | 26 layouts: round trip, every cut noticed, only canonical bytes accepted, what the builder holds at an error, and no refusal without a field that is too long (B0_16M left out) |
| `frame` | MessageLength and Payload stay in step however often a frame is encoded; the reader gets every message, in step with the sender; Decode walks a peer's TLVs without losing its place, except that it does not start on a lone empty one |
| `frame_tlv` | violated: a single TLV without a value, five bytes, is taken for garbage |
| `session` | the order of the client's messages, and that its CloseChannel names a channel it was given; what it takes to bring down a client or the whole server; a signalled client ends, and so does the server's goroutine of a client that has gone |
| `grinder` | no key found is lost; every printed key restores the key that was shown; a key pair that has a private key is consistent and can be stored again, and one that an error left has neither private key nor encoding; the program ends unless the channel is full |
| `u256` | addition, subtraction, and that no strict answer of the comparison is wrong |
| `u256_compare` | violated: a hash above the target is accepted |

The violated properties quote a comment or a test; `findings` in `PROJECT.json`
gives the line.

### Limitations of the code that the models show

These are kept apart from the properties, either by a condition in the property
that names them or by leaving an input out of the instances.

* Overlapping calls break what `AcceptOnce` and `LimitNeverOvershot` say as they
  break the freshness of nonces (`SafeForConcurrentAccess`), by the same
  interleaving of load and add: two calls of Decrypt
  accept one ciphertext, and two calls that pass the limit test together step
  over the limit, which is tested with `==`.
* `maxNoiseNonce` need not be 2^64-1 (see CipherState); where it is smaller,
  calls are refused before the nonces are used up. All three outcomes are in the
  cipher instances.
* A payload above 65519 bytes is sealed in one piece, and the reader expects a
  MAC per chunk, as `constants.go:15` describes; it waits for bytes that do not
  come or fails. `PlainTextLenToCipherTextLen(0)` is 0, but a sealed empty
  payload is a MAC of 16 bytes, so an empty frame is not delivered either. Both
  are excepted by `Fits`, and TLC takes the reader through them.
* `DecryptFrame` on part of a frame uses up the header's nonce; the next call
  with the whole frame fails, and so does every one after it.
* A payload that ends too early makes some `Read*` methods panic instead of
  setting the error (`binary.go` 322, 334, 351, 384; `mining.go` 489).
  `TruncationNoticed` counts a panic as noticing.
* `limit16m` is `2^24 - 1`, which in Go is (2 xor 24) - 1 = 25: `AddBin16M` refuses more
  than 25 bytes, while its comment (`binary.go:185`) and the text of its error
  (`binary.go:192`) say 2^24-1. The model keeps the 25, and
  `RefusedOnlyWhenTooLong`, which would not hold of it, leaves B0_16M out. No
  message has such a field. A peer's B0_16M of more than 25 bytes is read, but
  could not be written again.
* `SetCustomMiningJob.Decode` never reads the outputs and the Merkle path that
  Encode writes (`mining.go:699` has a FIXME). Its layout is in `Messages`, and
  `MCNames` leaves it out.
* `TLV.Encode` writes the length twice, so TLVs that this package wrote are not
  the ones it reads (`types.go:117` has a FIXME). TLVs that a sender sets become
  part of its own payload; `TrailingTLVs` is about TLVs that a peer appends in
  the form that `Decode` reads. Each Encode appends the TLVs again, so a frame
  that goes through `WriteFrame` carries them twice, and a frame can outgrow the
  U24 length in its header (`wraps`). `MessagesArrive` asks for the message at the front of the
  payload only. A single empty TLV behind a payload is not read (`frame_tlv`;
  `TrailingTLVs` excepts exactly this), and a frame that is decoded into twice keeps the TLVs of the first time.
* `Frame.Decode` panics on a slice whose array ends too early, and reads past the
  slice where the array is longer. It keeps a view of the caller's array:
  encoding a decoded frame with TLVs may write into it, which is not modelled.
* Two handshakes on the example server at the same time disturb its one
  `HandshakeState`; a decryption then fails and `loog.Fatal` ends the server for
  all clients, as do a connection that breaks and a client that dies in its
  handshake (`ServerSurvives` lists exactly these). The server's certificate is
  valid from second 0 to 65535 of 1970, so a client that checks it gives up, and
  SetupConnectionSuccess is prepared but never sent.
  A handshake that resets the chaining key between another's Write and its HKDF
  leaves the two sides of that one with different transport keys, so the
  properties of `Handshake` are checked and proved for servers that have a
  HandshakeState per connection.
* A client whose channel id arrives after it has looked for one (`logger.go:156`)
  and before it closes its connection (171) leaves its channel open; and as it
  may close with frames unread, the reset can overtake the CloseChannel it has
  written. Both are in the model, and no property excludes them.
* Where an int has 32 bits a channel id from 2^31 on is negative for the client,
  which then leaves its channel open.
* After more than `2 * maxResults` finds a grinder's worker blocks for ever in its
  send, and main in `wg.Wait`.
* `Keypair.Decode` of fewer than 65 bytes panics after it has stored the fields
  that were there. After an error it has no private key and no encoding, but the
  random bytes and the case of the new key beside the public key of the old.
* The benchmarks of `IsMetBy` (`types_test.go:127-130`, 143-146) stop with
  `b.Fatal` when the target 00ff..00 is met by the hash 00..ff00, and `TestU256`
  (`types_test.go:24-28`) requires that it is. The code, and
  `StrictAnswersRight`, agree with the test and with the comment of `IsMetBy`.

### Bounds and why they suffice

* CipherState: two goroutines show every overlap of two calls; the counter
  wraps at a small `NonceMod`, with the limit at its end and below it. Two
  initialisations of the key, so that the history has uses of an older one.
* Handshake: two connections are enough for one to see what another left in a
  HandshakeState or does to it; four timestamps put the clock before, at both
  ends of and after a certificate's validity, and the clock runs over twice as
  many seconds, so that its conversion to a uint32 does truncate.
* Transport: two writers and three frames; a header of one byte and a MAC of
  one byte with payloads of one byte, whose ciphertext is as long as a header's,
  of a full chunk of three, of one byte more, and empty; nonces for two frames or for two and a half, so
  that they run out before a header and between a header and its payload.
* Codec: bytes of four values, so that booleans and counts can be invalid and
  the limits of B0_32, STR0_255, B0_64K and sequences are reached and exceeded
  by one. One field at a time is at an edge. `MaxAltered` bounds the payloads in
  which a byte is altered; all but those with a field of maximal length fit.
* Frame: bytes of three values, with which MaxU24 is 26 and the longest TLV
  value 8; messages that are empty, short, as long as the header can say, and
  too long; TLVs out of order, empty and too long. Two frames let the second meet
  what the first left in both Frames.
* Session: two clients at the example server show every overlap of two
  connections; a pool has one client, whose connection is independent of others.
  32-bit integers have four values, with ids on both sides of the sign. A pool
  has at most two messages on their way when it sends a job.
* Grinder: two workers and two results, so that collecting is interrupted and the
  channel fills; five finds are one more than the channel and main can take, so
  that a worker does block. 32-byte values lie on both sides of the order and the
  field, and case bytes on both sides of the mask.
* U256: three digits to base three; a carry or borrow can arise, pass through
  and leave a digit.

The histories (`MaxKeys`, `MaxCalls`, `MaxFrames`, `MaxSends`,
`MaxFinds`, `MaxLoads`) bound behaviours that
otherwise never end. Deadlock is not checked where these bounds or the end of a
connection stop the system.

### Fairness

`Transport!FairSpec` assumes that the reader's loop keeps running, which is a
goroutine that does nothing else, or that `DecryptFrame` is called on all that has
come; nothing is assumed of writers or network.
`Session!FairSpec` assumes that each goroutine that can run is scheduled (the
client's main and its reader, the server's goroutines) and that a pool reads and
answers; nothing is assumed of signals, crashes, breaks or a pool's jobs.
`Grinder!FairSpec` assumes the same of workers and main, and not that a worker
ever finds a key.
`Handshake!FairSpec` assumes that both goroutines of a connection keep running.
The code sets no deadlines: with a peer that stays connected and silent a
handshake waits for ever, which these assumptions leave out.

## Proofs

The theorems hold for every value of the constants that meets the named ASSUMEs
of the modules; TLC evaluates these in the runs. Every module has one inductive
invariant, and its theorems follow from that without further induction. Besides
ranges of constants the assumptions are: `nil` is no key pair
and no number (`Keypair!NilAssumption`) and no pair of CipherStates (`Handshake!NoneAssumption`),
certificates come from `NewSignedCertificate` (`Handshake!CertsAssumption`),
messages and TLVs have fields of the widths of their Go types
(`Frame!SentAssumption`, `Frame!TLVAssumption`), the `Length` of a TLV is that of
its `Value`, and the garbage behind a peer's TLVs is not one more TLV
(`Frame!TLVAssumption`).

| module | theorem | states |
|---|---|---|
| `CipherStateProofs` | `IncrementsAreKept` | `NoLostIncrement`, however calls overlap |
| | `NoncesAreFresh`, `CiphertextsAreAcceptedOnce`, `CounterStopsAtLimit`, `NoncesAreConsecutive` | `NoNonceReuse`, `AcceptOnce`, `LimitNeverOvershot`, `NoNonceSkipped`, as long as no calls have overlapped |
| | `CallsAreAtomic` | `CipherState` implements `AtomicCipher`, as long as no calls have overlapped |
| `HandshakeProofs` | `KeysAgree`, `DamageIsDetected`, `NoncesAreFresh`, `VerdictsAreRight`, `FailuresAreExplained` | `KeyAgreement`, `DamageDetected`, `HandshakeNoncesFresh`, `VerdictIsRight`, `FailsOnlyWhenDisturbed`, when every responder has a HandshakeState of its own (`Separate`) |
| `TransportProofs` | `TypeCorrect`, `RejectsOnlyForCause`, `HeadersStayHeaders` | `TypeOK`, `NeverOutOfStep`, `HeadersAreHeaders` |
| | `Refinement` | `Transport` implements `FrameChannel` |
| `FrameProofs` | `LengthsInStep`, `MessagesInOrder`, `TLVsWalked` | `LengthsAgree`, `MessagesArrive`, `TrailingTLVs` (all but a lone empty TLV) |
| `CodecProofs` | `StopsAtFirstError`, `RefusalsJustified` | `BytesStopAtFirstError`, `RefusedOnlyWhenTooLong` (all types but B0_16M), for every message |
| | `RoundTrips`, `TruncationsNoticed`, `AcceptedReencodes` | `RoundTrip`, `TruncationNoticed`, `Reencodes`, for every set of messages without `SetCustomMiningJob` |
| `SessionProofs` | `FramesInOrder`, `ServerEndsOnlyByTrouble`, `ClientEndsOnlyByTrouble` | `SessionOrder`, `ServerSurvives`, `ClientSurvives` |
| `GrinderProofs` | `NoResultLost`, `PrintedKeysAreRight`, `KeypairsAreConsistent` | `ResultsAccounted`, `PrintedKeysRestore`, `KeypairConsistent` |
| `U256Proofs` | `LoopsAreRight`, `ArithmeticIsModular`, `StrictComparison` | `LoopInv`, `Modular`, `StrictAnswersRight` |

The arguments:

* **CipherState, until calls overlap.** Freshness is not inductive: that the next nonce
  is unused follows from all used ones being below `n`, and this fails in the
  middle of a call, between the addition and `Seal` or `Open`, and between a
  failed `Open` and the subtraction. `IInv` therefore has, besides the types,
  `TakingTurns` (at most one goroutine is inside a call), `CounterInv` (where `n`
  stands relative to the nonce the call has taken, for every value of `pc`, and
  that it is at most the limit) and `HistoryInv` (the nonces used under the
  current key are those below `n`, or below the taken nonce during a call). All of it is stated
  under `~ overlapped` (`TurnsInv`). The refinement maps the counter of a call in
  progress back to its value before the call.
* **CipherState, overlapping.** A completed call adds one record only because
  every call has its own number (`NumberInv`); the sets that are counted stay
  finite (`FiniteInv`); and `RoundsInv` writes the count as whole rounds of the
  counter and `n`, which one addition or subtraction keeps.
* **Handshake.** `AloneInv` is what the hypothesis `Separate` gives: nobody else
  touches the HandshakeState a responder works on. So `ResponderInv` can say, for
  each of its steps, which hashes, keys and ciphertexts made from the first
  message it read are in that state (`StateAt`) and in its buffer (`BufferAt`),
  and `Part2At` with which keys the two ciphertexts of its message
  were sealed, damaged or not. An initiator that opens
  both ciphertexts has the same key sequences, so its ephemeral key is the one the
  responder received: that is `KeysAt`, and, with `Spoiled` (where the damage
  is), `DamageAt`. For the nonces `SealedInv` finds the connection whose responder
  made a key from its last two secrets. For the verdict `ExclusiveInv` and
  `CertInv` say whose certificate a HandshakeState holds between a handshake and
  its check. `FailuresAreExplained` adds `HonestInv`: what a handshake that
  nothing disturbs looks like on both sides. `Separate` is what the example
  server does not keep (run `handshake_shared`).
* **Transport.** `StreamInv` describes the whole byte stream by where every
  ciphertext in it starts (`Layout`): one behind the other, header and payload of
  a frame next to each other unless writers overlapped. `SenderInv` says what a
  writer between its two calls has sealed, `ReaderInv` which ciphertext the
  reader stands before.
* **Frame.** `TInv` has the types and lengths of both Frames: `Encode` only ever
  appends to a payload (`Grown`), so the sender's still starts with the message's
  parameters (`Carries`). `ReaderInv` adds where every frame that is not read yet
  starts on the wire (`Layout`), until one has outgrown its header: sending
  appends a frame to the layout (`LayoutGrows`), reading drops the first
  (`LayoutShifts`), and what the reader has returned or read of a header is the
  message sent in that place. `SliceInv` says of a slice where each of the peer's
  TLVs starts (`Cuts`) and that the loop stands at one of these places (`Walked`);
  what `NextTLV` does at such a place (`NextIs`) and at the end (`NextIsNone`)
  is all that a step needs. Underneath are the lemmas that little-endian bytes
  give back the integer that was written (`DecodesLow`), and on where the parts of
  a flattened sequence lie (`FlattenCuts`).
* **Codec.** The 28 layouts are shown one by one to consist of types that meet
  `IsScalar` or `IsList` and to be read as they are written (`Matches`); from there
  on only these facts are used. Of the builder, `BuilderInv` says that it holds the
  bytes of the fields before the first one that is too long (`Built`, `Parts`), and
  nothing once an embedded message has failed. Of
  the reader, each operation has two lemmas, for scalars, sequences and whole
  fields: a value is read back from its bytes or the payload is too short
  (`FieldFits`), and what is read without an error is written as the bytes that
  were read (`FieldBack`); an error sticks (`FieldBad`). Neither property of Decode
  is inductive by itself: that fields agree needs the place of the reader, which
  needs the lengths of the fields before. `ReaderInv` keeps both (`Taken`): while
  there is no error the fields read so far are within their limits, their bytes
  are the ones in front of the reader, and they are the message's if the payload
  goes on as the bytes of the message do (`Agrees`). A B0_16M needs one more step,
  as its reader accepts lengths that its builder refuses: a payload is no longer
  than what the builder wrote. `SetCustomMiningJob` is excluded by hypothesis,
  because its Decode does skip fields. That each mutant of these definitions
  breaks a property on TLC's instance shows that the hypotheses leave real cases.
* **Session.** `StreamInv` describes both queues and what was read from them as
  one sequence per direction; `ChanInv` and `LinkInv` relate the two
  goroutines of a client, the channel id they share and the state of the
  connection; `ResponseInv`, `OverlapInv`, `KeysInv`, `SpoiledInv` and `DisturbedInv` say
  what must have happened for a handshake or a read to fail.
* **Grinder.** `CountInv` counts the finds wherever they are (finite sets and
  sequences); `PrintInv` and `LoadInv` say that what is in the channel, collected or
  printed came from a key and its encoding that belong together, and that a loaded
  key pair is either such a one (`Recreatable`) or has no key (`Keyless`).
* **U256.** `LowValue(w, k)` is the number in the last `k` digits, and
  `LoopInv`, that it is right up to the carry, is kept by an iteration because of
  what one byte does (`Remainder` and the lemmas on the `uint16` that wraps).

Recursive functions are reasoned about through their defining equation, and
statements about all their arguments by taking the least counterexample
(`WellFoundedInduction` applied to the order on Nat, with sets instead of the
operator parameter that the induction theorems of the library have).

Only model-checked: liveness (`HandshakesEnd`, and the termination properties of
`Transport`, `Session` and `Grinder`), which the prover does not handle.

## Not modelled

The cryptography is symbolic: the arithmetic on the curve in `ellswift.go`, hashes
and signatures are out of TLC's reach, and the models keep which inputs a result
depends on and whether it exists. Tables of constants and `MessageTypeToString`
have no state. `jobdeclaration.go` and `templatedistribution.go` hold a package
clause only. `Grow` and the capacity of slices have no effect on results, except
where `Frame.Decode` slices past a length. Within the codec, `Seek` and `Read` of
`BinaryReader` appear only as the reads of the other models (the component is
`partly` modelled), and the types no message uses are left out. Logging and the
text of errors are left out throughout.

## What is left

What is modelled covers the parts of the package that keep state, and the safety
properties of all modules are proved. Liveness stays with TLC. Left to model:

1. `SetCustomMiningJob.Decode`, once it reads all that its Encode writes: its
   layout is in `Messages` already, and with it in `Names` the hypothesis of the
   three theorems about Decode falls away.
2. `TLV.Encode`, once its FIXME is resolved: `TrailingTLVs` could then be stated
   about TLVs that this package wrote.
3. `jobdeclaration.go` and `templatedistribution.go`, when they hold messages: a
   layout each, and a lemma each in `CodecProofs`.
