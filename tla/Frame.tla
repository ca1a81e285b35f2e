------------------------------- MODULE Frame -------------------------------
(***************************************************************************)
(* Frames and their TLV fields (types.go), in plaintext.  A sender fills   *)
(* its frame with FromParams, may set TLVs, and encodes it: once           *)
(* (EncryptFrame) or, through the examples' WriteFrame, twice.  A receiver *)
(* either reads the stream with DecodeFromReader, again and again into the *)
(* same frame, or calls Decode on the bytes of one frame, to which a peer  *)
(* may have added TLV fields.                                              *)
(***************************************************************************)
EXTENDS Binary

CONSTANTS
  Msgs,       \* messages: ext, type and what their Encode returns
  TLVLists,   \* the TLVs an application sets, and a peer adds
  Trailers,   \* bytes that end a slice after the last TLV
  MaxSends    \* bound on the frames sent

VARIABLES
  via,     \* how the receiver decodes: "reader" or "slice"
  f,       \* the sender's Frame
  msg,     \* history: the message in the sender's frame
  ret,     \* the sender's last error, "none" if there was none
  sent,    \* history: the messages sent; wraps: its length was above MaxU24
  out,     \* the bytes of a frame for Decode, none when it has been called
  wire,    \* bytes written and not yet read
  closed,  \* the connection has ended
  g,       \* the receiver's Frame, used for every frame it decodes
  rpc,     \* "header", "payload", "stopped"; "idle", "tlvs", "panicked"
  got,     \* frames the reader has returned
  b,       \* the slice that is decoded
  n,       \* where its payload ends
  lastLen, \* how far behind n the next TLV is
  added    \* history: TLVs in g before this Decode, and those the peer added

svars == <<f, msg, ret, sent, out>>
dvars == <<b, n, lastLen, added>>
vars == <<via, svars, wire, closed, g, rpc, got, dvars>>

FrameHeaderSize == 6
TLVHeaderSize == 5
MaxU24 == Weight[3] - 1
Limit64K == Weight[2] - 1

ASSUME SentAssumption ==
  /\ \A m \in Msgs : m.ext \in 0 .. Limit64K /\ m.type \in Bytes /\ m.params \in Seq(Bytes)
  /\ MaxSends \in Nat

TLVs == [ext : 0 .. Limit64K, field : Bytes, len : Nat, value : Seq(Bytes)]

\* The Length of a TLV is that of its Value, and a trailer is not another TLV:
\* it is shorter than the header or than its header says.
ASSUME TLVAssumption ==
  /\ \A tlvs \in TLVLists : tlvs \in Seq(TLVs) /\ \A i \in DOMAIN tlvs : tlvs[i].len = Len(tlvs[i].value)
  /\ \A t \in Trailers :
       /\ t \in Seq(Bytes)
       /\ Len(t) < TLVHeaderSize + (IF Len(t) < TLVHeaderSize THEN 0
                                    ELSE FromLittleEndian(SubSeq(t, 4, 5)))

NoMsg == [ext |-> 0, type |-> 0, params |-> <<>>]
NoFrame == [ext |-> 0, type |-> 0, len |-> 0, payload |-> <<>>, tlvs |-> <<>>]

-----------------------------------------------------------------------------
(* Encoding *)

\* AddU16, AddU8, AddU24: what does not fit in the width is cut off.
EncodeHeader(ext, type, len) ==
  LittleEndian(ext, 2) \o LittleEndian(type, 1) \o LittleEndian(len, 3)

TLVHeader(t) ==
  LittleEndian(t.ext, 2) \o LittleEndian(t.field, 1) \o LittleEndian(t.len, 2)

\* TLV.Encode writes Length, and AddBin64K the length of Value once more.
TLVEncode(t) == TLVHeader(t) \o LittleEndian(Len(t.value), 2) \o t.value

\* slices.SortStableFunc by ExtensionType: each TLV goes behind those before
\* it that are not greater.
SortStable(tlvs) ==
  LET Place(s, t) == Cardinality({i \in DOMAIN s : s[i].ext <= t.ext}) + 1
      sorted[i \in 0 .. Len(tlvs)] ==
        IF i = 0 THEN <<>>
        ELSE InsertAt(sorted[i - 1], Place(sorted[i - 1], tlvs[i]), tlvs[i])
  IN  sorted[Len(tlvs)]

TLVTooLong(tlvs) == \E i \in DOMAIN tlvs : Len(tlvs[i].value) > Limit64K

\* Mutant: the TLVs are appended to the output only.
AppendTLVsUncounted(fr) ==
  [fr EXCEPT !.tlvs = SortStable(@),
             !.payload = @ \o FlattenSeq([i \in DOMAIN fr.tlvs |->
                                            TLVEncode(SortStable(fr.tlvs)[i])])]

\* The TLVs are sorted in place and appended to the frame's own Payload.
AppendTLVs(fr) ==
  LET tlvs == SortStable(fr.tlvs)
      tlvOut == FlattenSeq([i \in DOMAIN tlvs |-> TLVEncode(tlvs[i])])
  IN  [fr EXCEPT !.tlvs = tlvs, !.len = @ + Len(tlvOut), !.payload = @ \o tlvOut]

\* Mutant: the header is written before the TLVs are appended.
EncodeHeaderFirst(fr) ==
  LET full == AppendTLVs(fr)
  IN  IF TLVTooLong(fr.tlvs) THEN
        [err |-> "tlv", frame |-> [fr EXCEPT !.tlvs = full.tlvs], bytes |-> <<>>]
      ELSE
        [err |-> "none", frame |-> full,
         bytes |-> EncodeHeader(fr.ext, fr.type, fr.len) \o full.payload]

\* Frame.Encode: the error, what has become of the frame, and the bytes.
Encode(fr) ==
  LET full == AppendTLVs(fr)
  IN  IF fr.len # Len(fr.payload) THEN
        [err |-> "length", frame |-> fr, bytes |-> <<>>]
      ELSE IF TLVTooLong(fr.tlvs) THEN
        [err |-> "tlv", frame |-> [fr EXCEPT !.tlvs = full.tlvs], bytes |-> <<>>]
      ELSE
        [err |-> "none", frame |-> full,
         bytes |-> EncodeHeader(full.ext, full.type, full.len) \o full.payload]

-----------------------------------------------------------------------------
(* The sender *)

\* FromParams: the frame is replaced and its TLVs are gone.
FromParams(m) ==
  /\ Len(m.params) <= MaxU24
  /\ f' = [ext |-> m.ext, type |-> m.type, len |-> Len(m.params), payload |-> m.params,
           tlvs |-> <<>>]
  /\ msg' = m
  /\ ret' = "none"
  /\ UNCHANGED <<via, sent, out, wire, closed, g, rpc, got, dvars>>

\* A message that is too long leaves the frame as it was.
FromParamsFails(m) ==
  /\ Len(m.params) > MaxU24
  /\ ret' = "too long"
  /\ UNCHANGED <<via, f, msg, sent, out, wire, closed, g, rpc, got, dvars>>

SetTLVs(tlvs) ==
  /\ f.tlvs # tlvs
  /\ f' = [f EXCEPT !.tlvs = tlvs]
  /\ UNCHANGED <<via, msg, ret, sent, out, wire, closed, g, rpc, got, dvars>>

\* The result e of the last Encode is written unless it is an error.
Written(e) ==
  /\ f' = e.frame
  /\ ret' = e.err
  /\ IF e.err = "none"
     THEN /\ IF via = "reader" THEN wire' = wire \o e.bytes /\ UNCHANGED out
                               ELSE out' = e.bytes /\ UNCHANGED wire
          /\ sent' = Append(sent, [msg |-> msg, wraps |-> e.frame.len > MaxU24])
     ELSE UNCHANGED <<out, wire, sent>>
  /\ UNCHANGED <<via, msg, closed, g, rpc, got, dvars>>

\* A slice is decoded before the next frame is made.
MaySend == ~ closed /\ Len(sent) < MaxSends /\ out = <<>> /\ rpc \notin {"tlvs", "panicked"}

\* EncryptFrame, EncryptFrameToWriter
Send == MaySend /\ Written(Encode(f))

\* Sv2Conn.WriteFrame encodes the frame to log it; the error is dropped.
WriteFrame == MaySend /\ Written(Encode(Encode(f).frame))

Close ==
  /\ via = "reader" /\ ~ closed
  /\ closed' = TRUE
  /\ UNCHANGED <<via, svars, wire, g, rpc, got, dvars>>

-----------------------------------------------------------------------------
(* Decoding *)

\* DecodeHeader: the other fields of the frame are left alone.
DecodeHeader(fr, s) ==
  [fr EXCEPT !.ext = FromLittleEndian(SubSeq(s, 1, 2)),
             !.type = s[3],
             !.len = FromLittleEndian(SubSeq(s, 4, 6))]

\* DecodeFromReader: header and payload are two blocking reads.
ReadHeader ==
  /\ rpc = "header"
  /\ Len(wire) >= FrameHeaderSize
  /\ g' = LET fr == DecodeHeader(g, SubSeq(wire, 1, FrameHeaderSize))
          IN  [fr EXCEPT !.payload = [i \in 1 .. fr.len |-> 0]]
  /\ wire' = SubSeq(wire, FrameHeaderSize + 1, Len(wire))
  /\ rpc' = "payload"
  /\ UNCHANGED <<via, svars, closed, got, dvars>>

ReadPayload ==
  /\ rpc = "payload"
  /\ Len(wire) >= g.len
  /\ g' = [g EXCEPT !.payload = SubSeq(wire, 1, g.len)]
  /\ got' = Append(got, g')
  /\ wire' = SubSeq(wire, g.len + 1, Len(wire))
  /\ rpc' = "header"
  /\ UNCHANGED <<via, svars, closed, dvars>>

\* The connection ends early; a payload is filled as far as its bytes go.
ReadEnds ==
  /\ rpc \in {"header", "payload"}
  /\ closed
  /\ Len(wire) < (IF rpc = "header" THEN FrameHeaderSize ELSE g.len)
  /\ g' = IF rpc = "header" THEN g
          ELSE [g EXCEPT !.payload = wire \o SubSeq(@, Len(wire) + 1, Len(@))]
  /\ wire' = <<>>
  /\ rpc' = "stopped"
  /\ UNCHANGED <<via, svars, closed, got, dvars>>

\* Frame.Decode up to its payload.  Slicing b is bounded by its capacity:
\* spare is what the array behind b holds after its end.
DecodeSlice(s, spare, tlvs) ==
  LET whole == s \o spare
      fr == DecodeHeader(g, SubSeq(whole, 1, FrameHeaderSize))
      end == FrameHeaderSize + fr.len
      fits == Len(whole) >= FrameHeaderSize /\ Len(whole) >= end
  IN  /\ rpc = "idle"
      /\ b' = s
      /\ out' = <<>>
      /\ added' = [before |-> g.tlvs, peer |-> tlvs]
      /\ lastLen' = 0
      /\ IF fits
         THEN /\ g' = [fr EXCEPT !.payload = SubSeq(whole, FrameHeaderSize + 1, end)]
              /\ n' = end
              /\ rpc' = IF Len(s) > end + TLVHeaderSize THEN "tlvs" ELSE "idle"
         ELSE /\ g' = IF Len(whole) >= FrameHeaderSize THEN fr ELSE g
              /\ n' = 0
              /\ rpc' = "panicked"
      /\ UNCHANGED <<via, f, msg, ret, sent, wire, closed, got>>

\* The peer appends TLVs, without the second length, and a few more bytes.
PeerTLVs(tlvs) == FlattenSeq([i \in DOMAIN tlvs |-> TLVHeader(tlvs[i]) \o tlvs[i].value])

DecodeWhole ==
  /\ out # <<>>
  /\ \E tlvs \in TLVLists, tail \in Trailers :
       ~ TLVTooLong(tlvs) /\ DecodeSlice(out \o PeerTLVs(tlvs) \o tail, <<>>, tlvs)

\* The slice ends too early, at the end of its array or inside it.
DecodeCut ==
  /\ out # <<>>
  /\ \E k \in 0 .. Len(out) - 1, spare \in {<<>>, [i \in 1 .. FrameHeaderSize |-> 0]} :
       DecodeSlice(SubSeq(out, 1, k), spare, <<>>)

\* TLV.Decode at the position reached.
NextTLV ==
  LET rest == SubSeq(b, n + lastLen + 1, Len(b))
      len == FromLittleEndian(SubSeq(rest, 4, 5))
  IN  [ext |-> FromLittleEndian(SubSeq(rest, 1, 2)), field |-> rest[3], len |-> len,
       value |-> IF TLVHeaderSize + len > Len(rest) THEN <<>>
                 ELSE SubSeq(rest, TLVHeaderSize + 1, TLVHeaderSize + len)]

\* Mutant: the position advances by the value only.
DecodeTLVShort ==
  /\ rpc = "tlvs"
  /\ Len(b) - (n + lastLen) >= TLVHeaderSize
  /\ IF Len(NextTLV.value) = NextTLV.len
     THEN /\ g' = [g EXCEPT !.tlvs = Append(@, NextTLV)]
          /\ lastLen' = lastLen + NextTLV.len
          /\ rpc' = rpc
     ELSE /\ rpc' = "idle"
          /\ UNCHANGED <<g, lastLen>>
  /\ UNCHANGED <<via, svars, wire, closed, got, b, n, added>>

\* One iteration of the loop; a value past the end of b is an error.
DecodeTLV ==
  /\ rpc = "tlvs"
  /\ Len(b) - (n + lastLen) >= TLVHeaderSize
  /\ IF Len(NextTLV.value) = NextTLV.len
     THEN /\ g' = [g EXCEPT !.tlvs = Append(@, NextTLV)]
          /\ lastLen' = lastLen + NextTLV.len + TLVHeaderSize
          /\ rpc' = rpc
     ELSE /\ rpc' = "idle"
          /\ UNCHANGED <<g, lastLen>>
  /\ UNCHANGED <<via, svars, wire, closed, got, b, n, added>>

DecodeReturns ==
  /\ rpc = "tlvs"
  /\ Len(b) - (n + lastLen) < TLVHeaderSize
  /\ rpc' = "idle"
  /\ UNCHANGED <<via, svars, wire, closed, g, got, dvars>>

-----------------------------------------------------------------------------
Init ==
  /\ via \in {"reader", "slice"}
  /\ f = NoFrame
  /\ msg = NoMsg
  /\ ret = "none"
  /\ sent = <<>>
  /\ out = <<>>
  /\ wire = <<>>
  /\ closed = FALSE
  /\ g = NoFrame
  /\ rpc = IF via = "reader" THEN "header" ELSE "idle"
  /\ got = <<>>
  /\ b = <<>>
  /\ n = 0
  /\ lastLen = 0
  /\ added = [before |-> <<>>, peer |-> <<>>]

Sender ==
  \/ MaySend /\ \E m \in Msgs : FromParams(m) \/ FromParamsFails(m)
  \/ MaySend /\ \E tlvs \in TLVLists : SetTLVs(tlvs)
  \/ Send \/ WriteFrame
  \/ Close

Receiver ==
  \/ ReadHeader \/ ReadPayload \/ ReadEnds
  \/ DecodeWhole \/ DecodeCut \/ DecodeTLV \/ DecodeReturns

Next == Sender \/ Receiver

Spec == Init /\ [][Next]_vars

-----------------------------------------------------------------------------
(* Properties *)

\* However often a frame is encoded, re-encoded and resent, with whatever
\* TLVs, its MessageLength and its Payload stay in step: Encode never meets
\* "MessageLength != len(Payload)", and a frame that was decoded can be
\* encoded again (ReadFrame does, to log it).
LengthsAgree ==
  /\ ret # "length" /\ f.len = Len(f.payload)
  /\ rpc # "panicked" => g.len = Len(g.payload)

\* The frames of the k first messages have not outgrown their headers.
Sound(k) == \A i \in 1 .. k : ~ sent[i].wraps

\* The reader stays in step with the sender, although Encode grows the frame
\* behind its back: frame by frame it returns the header and, first in the
\* payload, the parameters of the message that was sent, and when nothing is
\* on the wire it has returned all of them.  Only a frame whose TLVs push it
\* past MaxU24 takes it out of step.
MessagesArrive ==
  /\ \A k \in DOMAIN got : k <= Len(sent) /\ Sound(k) =>
       /\ got[k].ext = sent[k].msg.ext /\ got[k].type = sent[k].msg.type
       /\ IsPrefix(sent[k].msg.params, got[k].payload)
  /\ via = "reader" /\ Sound(Len(sent)) =>
       /\ Len(got) <= Len(sent)
       /\ rpc = "header" /\ wire = <<>> => Len(got) = Len(sent)

\* Behind the payload are five bytes, and they are a TLV with an empty Value.
LoneEmptyTLV == Len(added.peer) = 1 /\ Len(b) = n + TLVHeaderSize

\* Decode walks a peer's trailing TLVs from one to the next: after each step
\* the frame holds those it held before and a prefix of the peer's, and when
\* it returns all of them.  The frame's own bytes are not taken for TLVs
\* unless it has outgrown its header.  A single empty TLV is left out: the
\* test l > n+5 skips it, and DecodesEveryTLV shows it.
TrailingTLVs ==
  via = "slice" /\ rpc # "panicked" /\ Sound(Len(sent)) =>
    /\ IsPrefix(g.tlvs, added.before \o added.peer)
    /\ rpc = "idle" /\ ~ LoneEmptyTLV => g.tlvs = added.before \o added.peer

\* "if remainder is less than this its just garbage": only fewer than five
\* bytes behind a payload are garbage, so a Decode that has returned has put
\* every TLV of the peer into the frame.
DecodesEveryTLV ==
  via = "slice" /\ rpc = "idle" /\ Sound(Len(sent)) => g.tlvs = added.before \o added.peer
=============================================================================
