----------------------------- MODULE Transport -----------------------------
(***************************************************************************)
(* One direction of an established connection: goroutines that write       *)
(* frames with EncryptFrameToWriter over the shared sending CipherState,   *)
(* the byte stream of the connection, and the peer's loop of               *)
(* DecryptFrameFromReader (noise.go), which ends at the first error as the *)
(* loops of the examples do, or its calls of DecryptFrame on the bytes it  *)
(* has collected.                                                          *)
(*                                                                         *)
(* The stream is a sequence of bytes and a byte names the AEAD ciphertext  *)
(* it belongs to and its position there, so that gcm.Open succeeds exactly *)
(* on the bytes of one whole ciphertext under the nonce it was sealed      *)
(* with.  Calls of Encrypt are single steps: this is what CipherState.tla  *)
(* proves of callers that take turns.  The sizes are parameters.           *)
(***************************************************************************)
EXTENDS Integers, Sequences

CONSTANTS
  Writers,                \* goroutines that write frames
  Lengths,                \* payload lengths of the frames they write
  FrameHeaderSize,        \* 6
  MacLen,                 \* 16
  MaxPlaintextChunkSize,  \* 65519
  MaxNonceOutcomes,       \* what uint64(math.Pow(2, 64)) - 1 may evaluate to
  MaxFrames,              \* bound on the frames written
  MayClose                \* TRUE: the connection may break

ASSUME SizesAssumption ==
  /\ FrameHeaderSize \in Nat \ {0}
  /\ MacLen \in Nat \ {0}
  /\ MaxPlaintextChunkSize \in Nat \ {0}
ASSUME LengthsAssumption == Lengths \subseteq Nat
ASSUME LimitsAssumption == MaxNonceOutcomes \subseteq Nat /\ MaxFrames \in Nat
ASSUME MayCloseAssumption == MayClose \in BOOLEAN

VARIABLES
  via,        \* how the peer decrypts: "reader" or "slice"
  maxNoiseNonce,  \* nonce at which Encrypt and Decrypt of both sides give up
  n,          \* the sender's nonce counter
  began,      \* frames whose encryption has begun; names the latest
  wpc,        \* where each writer is: "idle", "header", "payload", "write"
  frame,      \* the frame each writer is working on
  hnonce,     \* nonce its header was sealed with
  pnonce,     \* nonce its payload was sealed with
  overlapped, \* history: two frames were between sealing and Write at once
  stream,     \* bytes written and not yet read
  closed,     \* the connection has broken
  rn,         \* the reader's nonce counter
  rpc,        \* "header", "payload" or "stopped"
  header,     \* the header the reader has decoded
  rerr,       \* why the reader stopped
  cutShort,   \* history: DecryptFrame was called on part of a frame
  written,    \* frames written, in the order of their bytes
  delivered   \* frames returned by DecryptFrameFromReader

wvars == <<n, began, wpc, frame, hnonce, pnonce, overlapped>>
rvars == <<rn, rpc, header, rerr, cutShort, delivered>>
vars == <<via, maxNoiseNonce, wvars, rvars, stream, closed, written>>

NoiseHeaderSize == FrameHeaderSize + MacLen
MaxNoiseFrameSize == MaxPlaintextChunkSize + MacLen

Frames == [id : 1 .. MaxFrames, len : Lengths]
NoFrame == [id |-> 0, len |-> 0]

\* Mutant: the MAC of the last, shorter chunk is forgotten.
CipherTextLenNoMac(plainTextLen) ==
  (plainTextLen \div MaxPlaintextChunkSize) * MaxNoiseFrameSize
    + (plainTextLen % MaxPlaintextChunkSize)

\* Mutant: a MAC is also counted after the last full chunk.
CipherTextLenExtraMac(plainTextLen) ==
  (plainTextLen \div MaxPlaintextChunkSize) * MaxNoiseFrameSize
    + (plainTextLen % MaxPlaintextChunkSize) + MacLen

\* The reader's idea of how long the ciphertext of a payload is.
PlainTextLenToCipherTextLen(plainTextLen) ==
  LET rem == plainTextLen % MaxPlaintextChunkSize
  IN  (plainTextLen \div MaxPlaintextChunkSize) * MaxNoiseFrameSize
        + (IF rem > 0 THEN rem + MacLen ELSE 0)

\* gcm.Seal: a ciphertext is its plaintext's length plus the MAC.
Sealed(nonce, kind, f, plainLen) ==
  [p \in 1 .. plainLen + MacLen |->
     [nonce |-> nonce, kind |-> kind, frame |-> f, pos |-> p, size |-> plainLen + MacLen]]

\* gcm.Open: the bytes are one whole ciphertext, sealed with this nonce.
Opens(bytes, nonce) ==
  /\ bytes # <<>>
  /\ \A p \in DOMAIN bytes :
       /\ bytes[p].nonce = nonce
       /\ bytes[p].pos = p
       /\ bytes[p].size = Len(bytes)

\* EncryptFrame: the ciphertexts of the header and of the whole payload.
EncryptFrame(f, hn, pn) ==
  Sealed(hn, "header", f, FrameHeaderSize) \o Sealed(pn, "payload", f, f.len)

Init ==
  /\ via \in {"reader", "slice"}
  /\ maxNoiseNonce \in MaxNonceOutcomes
  /\ n = 0
  /\ began = 0
  /\ wpc = [w \in Writers |-> "idle"]
  /\ frame = [w \in Writers |-> NoFrame]
  /\ hnonce = [w \in Writers |-> 0]
  /\ pnonce = [w \in Writers |-> 0]
  /\ overlapped = FALSE
  /\ stream = <<>>
  /\ closed = FALSE
  /\ rn = 0
  /\ rpc = "header"
  /\ header = NoFrame
  /\ rerr = "none"
  /\ cutShort = FALSE
  /\ written = <<>>
  /\ delivered = <<>>

-----------------------------------------------------------------------------
(* EncryptFrameToWriter *)

\* frame.Encode() succeeds: MessageLength is the length of the payload.
Encode(w, len) ==
  /\ wpc[w] = "idle"
  /\ began < MaxFrames
  /\ began' = began + 1
  /\ frame' = [frame EXCEPT ![w] = [id |-> began + 1, len |-> len]]
  /\ wpc' = [wpc EXCEPT ![w] = "header"]
  /\ UNCHANGED <<n, hnonce, pnonce, overlapped, stream, closed, rvars, written>>

\* Mutant: the limit is not tested.
EncryptHeaderUnlimited(w) ==
  /\ wpc[w] = "header"
  /\ hnonce' = [hnonce EXCEPT ![w] = n]
  /\ n' = n + 1
  /\ wpc' = [wpc EXCEPT ![w] = "payload"]
  /\ overlapped' = (overlapped \/ \E v \in Writers : wpc[v] \in {"payload", "write"})
  /\ UNCHANGED <<began, frame, pnonce, stream, closed, rvars, written>>

EncryptHeader(w) ==
  /\ wpc[w] = "header"
  /\ n # maxNoiseNonce
  /\ hnonce' = [hnonce EXCEPT ![w] = n]
  /\ n' = n + 1
  /\ wpc' = [wpc EXCEPT ![w] = "payload"]
  /\ overlapped' = (overlapped \/ \E v \in Writers : wpc[v] \in {"payload", "write"})
  /\ UNCHANGED <<began, frame, pnonce, stream, closed, rvars, written>>

EncryptPayload(w) ==
  /\ wpc[w] = "payload"
  /\ n # maxNoiseNonce
  /\ pnonce' = [pnonce EXCEPT ![w] = n]
  /\ n' = n + 1
  /\ wpc' = [wpc EXCEPT ![w] = "write"]
  /\ UNCHANGED <<began, frame, hnonce, overlapped, stream, closed, rvars, written>>

\* The call returns and its locals are gone.
Return(w) ==
  /\ wpc' = [wpc EXCEPT ![w] = "idle"]
  /\ frame' = [frame EXCEPT ![w] = NoFrame]
  /\ hnonce' = [hnonce EXCEPT ![w] = 0]
  /\ pnonce' = [pnonce EXCEPT ![w] = 0]

\* "error while encrypting header" or "... payload": nothing is written; the
\* nonce of a header that was already encrypted stays used.
Exhausted(w) ==
  /\ wpc[w] \in {"header", "payload"}
  /\ n = maxNoiseNonce
  /\ Return(w)
  /\ UNCHANGED <<n, began, overlapped, stream, closed, rvars, written>>

\* One call of Write for header and payload.
Write(w) ==
  /\ wpc[w] = "write"
  /\ ~ closed
  /\ stream' = stream \o EncryptFrame(frame[w], hnonce[w], pnonce[w])
  /\ written' = Append(written, frame[w])
  /\ Return(w)
  /\ UNCHANGED <<n, began, overlapped, closed, rvars>>

\* Write on a broken connection returns its error.
WriteFails(w) ==
  /\ wpc[w] = "write"
  /\ closed
  /\ Return(w)
  /\ UNCHANGED <<n, began, overlapped, stream, closed, rvars, written>>

\* The connection breaks and the last bytes in flight are lost.
Break(kept) ==
  /\ MayClose /\ via = "reader"
  /\ ~ closed
  /\ closed' = TRUE
  /\ stream' = SubSeq(stream, 1, kept)
  /\ UNCHANGED <<via, maxNoiseNonce, wvars, rvars, written>>

-----------------------------------------------------------------------------
(* DecryptFrameFromReader, called in a loop *)

\* io.ReadFull takes size bytes, and the rest of the stream is left; a block
\* opens unless the nonces are used up or it does not authenticate.
Block(size) == SubSeq(stream, 1, size)
Readable(size) == Len(stream) >= size
Accepts(size) == rn # maxNoiseNonce /\ Opens(Block(size), rn)

Stop(why) ==
  /\ rpc' = "stopped"
  /\ rerr' = why
  /\ UNCHANGED <<rn, header, cutShort, delivered>>

PayloadSize == PlainTextLenToCipherTextLen(header.len)

ReadHeader ==
  /\ rpc = "header"
  /\ Readable(NoiseHeaderSize)
  /\ Accepts(NoiseHeaderSize)
  /\ header' = Block(NoiseHeaderSize)[1].frame
  /\ rn' = rn + 1
  /\ rpc' = "payload"
  /\ stream' = SubSeq(stream, NoiseHeaderSize + 1, Len(stream))
  /\ UNCHANGED <<wvars, closed, rerr, cutShort, delivered, written>>

\* The frame has the length of the header and the contents of the payload.
Received == [id |-> Block(PayloadSize)[1].frame.id, len |-> header.len]

\* Mutant: after a payload the reader takes the next ciphertext for another.
ReadPayloadAgain ==
  /\ rpc = "payload"
  /\ Readable(PayloadSize)
  /\ Accepts(PayloadSize)
  /\ delivered' = Append(delivered, Received)
  /\ rn' = rn + 1
  /\ stream' = SubSeq(stream, PayloadSize + 1, Len(stream))
  /\ UNCHANGED <<wvars, closed, rpc, header, rerr, cutShort, written>>

ReadPayload ==
  /\ rpc = "payload"
  /\ Readable(PayloadSize)
  /\ Accepts(PayloadSize)
  /\ delivered' = Append(delivered, Received)
  /\ rn' = rn + 1
  /\ rpc' = "header"
  /\ header' = NoFrame
  /\ stream' = SubSeq(stream, PayloadSize + 1, Len(stream))
  /\ UNCHANGED <<wvars, closed, rerr, cutShort, written>>

\* "error while decrypting header" or "... payload": the loop ends.
Reject(size) ==
  /\ Readable(size)
  /\ ~ Accepts(size)
  /\ Stop("decrypt")
  /\ stream' = SubSeq(stream, size + 1, Len(stream))
  /\ UNCHANGED <<wvars, closed, written>>

RejectHeader == rpc = "header" /\ Reject(NoiseHeaderSize)
RejectPayload == rpc = "payload" /\ Reject(PayloadSize)

\* The connection ends before size bytes have come: io.EOF when none has,
\* io.ErrUnexpectedEOF otherwise.
Ended(size) ==
  /\ closed
  /\ ~ Readable(size)
  /\ Stop(IF stream = <<>> THEN "EOF" ELSE "unexpected EOF")
  /\ stream' = <<>>
  /\ UNCHANGED <<wvars, closed, written>>

HeaderEnded == rpc = "header" /\ Ended(NoiseHeaderSize)
PayloadEnded == rpc = "payload" /\ Ended(PayloadSize)

Reader ==
  /\ via = "reader"
  /\ \/ ReadHeader \/ ReadPayload
     \/ RejectHeader \/ RejectPayload
     \/ HeaderEnded \/ PayloadEnded
  /\ UNCHANGED <<via, maxNoiseNonce>>

-----------------------------------------------------------------------------
(* DecryptFrame, called on the bytes that have come, again with more bytes *)
(* when it fails for want of them.  A slice shorter than a header changes  *)
(* nothing.                                                                *)

SliceHeader == Block(NoiseHeaderSize)[1].frame
SlicePayload == PlainTextLenToCipherTextLen(SliceHeader.len)
HeaderOpens == via = "slice" /\ rpc = "header" /\ Readable(NoiseHeaderSize) /\ Accepts(NoiseHeaderSize)
PayloadOpens ==
  /\ rn + 1 # maxNoiseNonce
  /\ Opens(SubSeq(stream, NoiseHeaderSize + 1, NoiseHeaderSize + SlicePayload), rn + 1)

DecryptFrame ==
  /\ HeaderOpens
  /\ Readable(NoiseHeaderSize + SlicePayload)
  /\ PayloadOpens
  /\ delivered' = Append(delivered, SliceHeader)
  /\ rn' = rn + 2
  /\ stream' = SubSeq(stream, NoiseHeaderSize + SlicePayload + 1, Len(stream))
  /\ UNCHANGED <<wvars, closed, rpc, header, rerr, cutShort, written>>

\* The payload is not there yet, or not all of it is in the slice: the
\* header's nonce is used up and the bytes stay for the next call.
DecryptFrameShort ==
  /\ HeaderOpens
  /\ rn' = rn + 1
  /\ cutShort' = TRUE
  /\ UNCHANGED <<wvars, closed, rpc, header, rerr, delivered, stream, written>>

\* The bytes do not decrypt, now or later: the caller gives up.
DecryptFrameFails ==
  /\ via = "slice" /\ rpc = "header"
  /\ Readable(NoiseHeaderSize)
  /\ HeaderOpens => Readable(NoiseHeaderSize + SlicePayload) /\ ~ PayloadOpens
  /\ Stop("decrypt")
  /\ UNCHANGED <<wvars, closed, stream, written>>

Slices ==
  /\ DecryptFrame \/ DecryptFrameShort \/ DecryptFrameFails
  /\ UNCHANGED <<via, maxNoiseNonce>>

Writer(w) ==
  /\ \/ \E len \in Lengths : Encode(w, len)
     \/ EncryptHeader(w) \/ EncryptPayload(w) \/ Exhausted(w)
     \/ Write(w) \/ WriteFails(w)
  /\ UNCHANGED <<via, maxNoiseNonce>>

Next ==
  \/ \E w \in Writers : Writer(w)
  \/ Reader \/ Slices
  \/ \E kept \in 0 .. Len(stream) : Break(kept)

Spec == Init /\ [][Next]_vars

\* The peer's goroutine calls ReadFrame, or DecryptFrame with all that has
\* come, again and again.
FairSpec ==
  Spec /\ WF_vars(Reader)
       /\ WF_vars((DecryptFrame \/ DecryptFrameFails) /\ UNCHANGED <<via, maxNoiseNonce>>)

-----------------------------------------------------------------------------
(* Properties *)

TypeOK ==
  /\ via \in {"reader", "slice"}
  /\ maxNoiseNonce \in MaxNonceOutcomes
  /\ n \in 0 .. maxNoiseNonce
  /\ began \in 0 .. MaxFrames
  /\ wpc \in [Writers -> {"idle", "header", "payload", "write"}]
  /\ frame \in [Writers -> Frames \cup {NoFrame}]
  /\ hnonce \in [Writers -> Nat]
  /\ pnonce \in [Writers -> Nat]
  /\ overlapped \in BOOLEAN
  /\ closed \in BOOLEAN
  /\ rn \in 0 .. maxNoiseNonce
  /\ rpc \in {"header", "payload", "stopped"}
  /\ header \in Frames \cup {NoFrame}
  /\ cutShort \in BOOLEAN
  /\ rerr \in {"none", "decrypt", "EOF", "unexpected EOF"}
  /\ written \in Seq(Frames)
  /\ delivered \in Seq(Frames)

\* Frames come out in order, once, and none that was not written, whatever
\* the writers interleave and wherever the connection breaks.
Channel == INSTANCE FrameChannel
ImplementsFrameChannel == Channel!Spec

\* The ciphertexts of headers and of payloads are sealed with the same key
\* and no additional data: only the order in which they are read keeps the
\* reader from taking one for the other.
HeadersAreHeaders ==
  /\ rpc = "header" /\ Readable(NoiseHeaderSize) /\ Accepts(NoiseHeaderSize)
       => \A p \in 1 .. NoiseHeaderSize : stream[p].kind = "header"
  /\ rpc = "payload" /\ Readable(PayloadSize) /\ Accepts(PayloadSize)
       => \A p \in 1 .. PayloadSize : stream[p].kind = "payload" /\ stream[p].frame = header

\* A payload of one chunk at most, and not empty: what is sealed in one piece
\* is then as long as the reader expects.
Fits(f) == f.len \in 1 .. MaxPlaintextChunkSize
AllFit(k) == \A i \in 1 .. k : Fits(written[i])

\* The peer meets a ciphertext it cannot open only after two writers have
\* overlapped, after a frame that does not fit, or after DecryptFrame was
\* given part of a frame: neither frames one after the other, nor nonces that
\* run out between a header and its payload, nor a broken connection cause
\* that.
NeverOutOfStep == rerr = "decrypt" => overlapped \/ cutShort \/ ~ AllFit(Len(written))

\* A connection that stays up delivers every frame that was written up to the
\* first one that does not fit, unless writers have overlapped or a frame was
\* decrypted in parts.
AllDelivered ==
  \A k \in 1 .. MaxFrames :
    Len(written) = k /\ AllFit(k) ~> Len(delivered) >= k \/ closed \/ overlapped \/ cutShort
=============================================================================
