-------------------------------- MODULE Codec --------------------------------
(***************************************************************************)
(* Encoding and decoding of messages, binary.go and types.go: the fields   *)
(* of a message go one by one through a BinaryBuilder, the bytes reach the *)
(* other side whole, cut short or with one byte that this library would    *)
(* not have written, and are read field by field by a BinaryReader into a  *)
(* message that may have been used before.                                 *)
(***************************************************************************)
EXTENDS Messages

CONSTANTS
  Names,       \* the messages to encode
  MaxAltered   \* bound: longest payload in which a byte is altered

ASSUME NamesAssumption == Names \subseteq DOMAIN Layouts

VARIABLES
  name,     \* type of the message
  layout,   \* the fields that its Encode and its Decode go through
  msg,      \* the message that is encoded
  bb,       \* BinaryBuilder: the bytes and the sticky error
  k,        \* the next field of Encode or Decode
  phase,    \* "encode", "decode", or the result
  payload,  \* the bytes handed to Decode
  isNil,    \* they are a nil slice
  br,       \* BinaryReader: position and sticky error
  out       \* the message that is decoded into

vars == <<name, layout, msg, bb, k, phase, payload, isNil, br, out>>

-----------------------------------------------------------------------------
(* BinaryBuilder *)

\* Mutant: bytes are appended after an error.
AddBytesAlways(b, bytes) == [b EXCEPT !.data = @ \o bytes]

AddBytes(b, bytes) == IF b.err THEN b ELSE [b EXCEPT !.data = @ \o bytes]

AddInt(b, w, v) == AddBytes(b, LittleEndian(v, w))

AddBool(b, v) == AddBytes(b, <<IF v THEN 1 ELSE 0>>)

\* Mutant: the longest value allowed is refused.
AddCountedStrict(b, T, len, enc) ==
  IF b.err \/ len >= T.limit THEN [b EXCEPT !.err = TRUE]
  ELSE AddBytes(AddInt(b, T.width, len), enc)

\* A value behind its length, or the first error.
AddCounted(b, T, len, enc) ==
  IF b.err \/ len > T.limit THEN [b EXCEPT !.err = TRUE]
  ELSE AddBytes(AddInt(b, T.width, len), enc)

AddScalar(b, T, v) ==
  CASE T.kind = "int" -> AddInt(b, T.width, v)
    [] T.kind = "bool" -> AddBool(b, v)
    [] T.kind \in {"fixed", "array"} -> AddBytes(b, v)

NewBinaryBuilder == [data |-> <<>>, err |-> FALSE]

\* Sequence.Encode: the elements through a builder of their own.
SequenceEncode(T, v) ==
  FlattenSeq([i \in DOMAIN v |-> AddScalar(NewBinaryBuilder, T, v[i]).data])

AddField(b, T, v) ==
  CASE T.kind = "bin" -> AddCounted(b, T, Len(v), v)
    [] T.kind \in {"seq", "loop"} -> AddCounted(b, T, Len(v), SequenceEncode(T.elem, v))
    [] OTHER -> AddScalar(b, T, v)

-----------------------------------------------------------------------------
(* BinaryReader: a reader r has a position and a sticky error; an operation *)
(* returns it with the value read and whether the operation panicked.       *)

Zero(T) ==
  CASE T.kind = "int" -> 0
    [] T.kind = "bool" -> FALSE
    [] T.kind \in {"fixed", "array"} -> [i \in 1 .. T.width |-> 0]
    [] OTHER -> <<>>

\* Mutant: a read past the end returns what is left.
ReadRest(r, l) ==
  IF r.err THEN [r EXCEPT !.val = <<>>]
  ELSE IF r.pos + l > Len(payload)
  THEN [r EXCEPT !.pos = Len(payload), !.val = SubSeq(payload, r.pos + 1, Len(payload))]
  ELSE [r EXCEPT !.pos = @ + l, !.val = SubSeq(payload, r.pos + 1, r.pos + l)]

\* read: past the end it returns an empty slice and the error.
Read(r, l) ==
  IF r.err THEN [r EXCEPT !.val = <<>>]
  ELSE IF r.pos + l > Len(payload)
  THEN [r EXCEPT !.pos = Len(payload), !.err = TRUE, !.val = <<>>]
  ELSE [r EXCEPT !.pos = @ + l, !.val = SubSeq(payload, r.pos + 1, r.pos + l)]

\* Mutant: every byte but zero is TRUE.
BoolOfAny(r) == [r EXCEPT !.val = (r.val[1] # 0)]

BoolOf(r) == [r EXCEPT !.val = (r.val[1] = 1), !.err = (r.val[1] \notin {0, 1})]

\* The guard of an integer or boolean is b == nil, which an empty slice of a
\* payload that is not nil passes: indexing it panics.
ReadScalar(r, T) ==
  LET s == Read(r, T.width)
  IN  CASE r.err -> [r EXCEPT !.val = Zero(T)]
        [] ~r.err /\ s.err ->
             [s EXCEPT !.val = Zero(T),
                       !.panic = (T.kind = "array" \/ (T.kind \in {"int", "bool"} /\ ~isNil))]
        [] ~r.err /\ ~s.err ->
             CASE T.kind = "int" -> [s EXCEPT !.val = FromLittleEndian(s.val)]
               [] T.kind = "bool" -> BoolOf(s)
               [] T.kind \in {"fixed", "array"} -> s

\* Strings and byte arrays: a length and that many bytes.
ReadBin(r, T) ==
  LET l == ReadScalar(r, Uint(T.width))
  IN  CASE r.err \/ l.panic -> [l EXCEPT !.val = <<>>]
        [] ~r.err /\ ~l.panic /\ l.val > T.checked -> [l EXCEPT !.err = TRUE, !.val = <<>>]
        [] ~r.err /\ ~l.panic /\ l.val <= T.checked -> Read(l, l.val)

\* Sequence.Decode: n elements, whatever the reader's error.
SequenceDecode(r, T, n) ==
  LET read[i \in 0 .. n] ==
        IF i = 0 THEN [r EXCEPT !.val = <<>>]
        ELSE LET acc == read[i - 1]
                 e == ReadScalar(acc, T)
             IN  IF acc.panic THEN acc ELSE [e EXCEPT !.val = Append(acc.val, @)]
  IN  read[n]

\* ReadSeq returns nil after any error, and the caller asserts its type.
ReadSeq(r, T) ==
  LET l == ReadScalar(r, Uint(T.width))
      s == SequenceDecode(l, T.elem, l.val)
  IN  IF r.err \/ l.panic \/ l.val > T.checked THEN [l EXCEPT !.err = TRUE, !.panic = TRUE]
      ELSE [s EXCEPT !.panic = @ \/ s.err]

\* SetGroupChannel.Decode has a loop of its own and asserts nothing.
ReadLoop(r, T) ==
  LET l == ReadScalar(r, Uint(T.width))
  IN  IF l.panic THEN l ELSE SequenceDecode(l, T.elem, l.val)

ReadField(r, T) ==
  CASE T.kind = "bin" -> ReadBin(r, T)
    [] T.kind = "seq" -> ReadSeq(r, T)
    [] T.kind = "loop" -> ReadLoop(r, T)
    [] OTHER -> ReadScalar(r, T)

NewBinaryReader == [pos |-> 0, err |-> FALSE]

-----------------------------------------------------------------------------
(* The messages that are encoded: every field has a value of its own, and  *)
(* one of them may be at an edge of its type or a step beyond it.          *)

Enc == layout.enc
Dec == layout.dec

Typical(T, j) ==
  LET Plain(U) ==
        CASE U.kind = "int" -> j % Weight[U.width]
          [] U.kind = "bool" -> j % 2 = 1
          [] OTHER -> [i \in 1 .. U.width |-> (i + j) % Base]
  IN  CASE T.kind = "bin" -> <<j % Base>>
        [] T.kind \in {"seq", "loop"} -> <<Plain(T.elem)>>
        [] OTHER -> Plain(T)

Edges(T) ==
  CASE T.kind = "int" -> {0, Weight[T.width - 1], Weight[T.width] - 1}
    [] T.kind = "bool" -> BOOLEAN
    [] T.kind \in {"fixed", "array"} -> {Zero(T), [i \in 1 .. T.width |-> Base - 1]}
    [] T.kind = "bin" -> {[i \in 1 .. n |-> i % Base] : n \in {0, T.limit, T.limit + 1}}
    [] OTHER -> {[i \in 1 .. n |-> Typical(T.elem, i)] : n \in {0, T.limit, T.limit + 1}}

Filled(n, offset) ==
  LET enc == Layouts[n].enc
      Field(f) == CHOOSE j \in DOMAIN enc : enc[j].name = f
  IN  [f \in {enc[j].name : j \in DOMAIN enc} |-> Typical(enc[Field(f)].type, Field(f) + offset)]

Inputs(n) ==
  {Filled(n, 0)} \union
  UNION {{[Filled(n, 0) EXCEPT ![Layouts[n].enc[j].name] = v] : v \in Edges(Layouts[n].enc[j].type)}
         : j \in DOMAIN Layouts[n].enc}

\* A new message, with the zero values, or one that was decoded into before.
Targets(n) ==
  LET enc == Layouts[n].enc
      Field(f) == CHOOSE j \in DOMAIN enc : enc[j].name = f
  IN  {Filled(n, 1), [f \in {enc[j].name : j \in DOMAIN enc} |-> Zero(enc[Field(f)].type)]}

-----------------------------------------------------------------------------
Init ==
  /\ name \in Names
  /\ layout = Layouts[name]
  /\ msg \in Inputs(name)
  /\ out \in Targets(name)
  /\ bb = NewBinaryBuilder
  /\ k = 1
  /\ phase = "encode"
  /\ payload = <<>>
  /\ isNil = TRUE
  /\ br = NewBinaryReader

\* The Encode of the embedded struct has gone through its fields, and failed.
EmbeddedError == bb.err /\ k = Embedded(name) + 1

\* One call in the chain of Encode, or in that of the embedded struct.
EncodeField ==
  /\ phase = "encode"
  /\ k <= Len(Enc)
  /\ ~ EmbeddedError
  /\ bb' = AddField(bb, Enc[k].type, msg[Enc[k].name])
  /\ k' = k + 1
  /\ UNCHANGED <<name, layout, msg, phase, payload, isNil, br, out>>

\* Encode returns an error, and no frame is made.
EncodeFails ==
  /\ phase = "encode"
  /\ k > Len(Enc)
  /\ bb.err
  /\ phase' = "refused"
  /\ UNCHANGED <<name, layout, msg, bb, k, payload, isNil, br, out>>

\* Encode returns nil and the error of the embedded struct.
EmbeddedFails ==
  /\ phase = "encode"
  /\ EmbeddedError
  /\ phase' = "refused"
  /\ bb' = [bb EXCEPT !.data = <<>>]
  /\ UNCHANGED <<name, layout, msg, k, payload, isNil, br, out>>

\* Encode has returned the bytes without an error.
Encoded == phase = "encode" /\ k > Len(Enc) /\ ~bb.err

\* Decode is called with what arrives of them.
Deliver(p, nil) ==
  /\ phase' = "decode"
  /\ payload' = p
  /\ isNil' = nil
  /\ k' = 1
  /\ UNCHANGED <<name, layout, msg, bb, br, out>>

DeliverIntact == Encoded /\ Deliver(bb.data, FALSE)

DeliverCut ==
  /\ Encoded
  /\ \E n \in 0 .. Len(bb.data) - 1, nil \in BOOLEAN :
       (nil => n = 0) /\ Deliver(SubSeq(bb.data, 1, n), nil)

DeliverAltered ==
  /\ Encoded
  /\ Len(bb.data) <= MaxAltered
  /\ \E i \in DOMAIN bb.data, b \in Bytes :
       b # bb.data[i] /\ Deliver([bb.data EXCEPT ![i] = b], FALSE)

\* The certificate is the one message whose length Decode checks first.
WrongLength == name = "SIGNATURE_NOISE_MESSAGE" /\ Len(payload) # 10 + SigLen

RejectLength ==
  /\ phase = "decode"
  /\ k = 1
  /\ WrongLength
  /\ phase' = "failed"
  /\ UNCHANGED <<name, layout, msg, bb, k, payload, isNil, br, out>>

\* One assignment of Decode.
DecodeField ==
  /\ phase = "decode"
  /\ k <= Len(Dec)
  /\ ~WrongLength
  /\ LET start == [pos |-> br.pos, err |-> br.err, val |-> 0, panic |-> FALSE]
         r == ReadField(start, Dec[k].type)
     IN  /\ br' = [pos |-> r.pos, err |-> r.err]
         /\ IF r.panic
            THEN phase' = "panicked" /\ out' = out /\ k' = k
            ELSE phase' = phase /\ out' = [out EXCEPT ![Dec[k].name] = r.val] /\ k' = k + 1
  /\ UNCHANGED <<name, layout, msg, bb, payload, isNil>>

DecodeReturns ==
  /\ phase = "decode"
  /\ k > Len(Dec)
  /\ phase' = IF br.err THEN "failed" ELSE "accepted"
  /\ UNCHANGED <<name, layout, msg, bb, k, payload, isNil, br, out>>

Next ==
  \/ EncodeField
  \/ EncodeFails
  \/ EmbeddedFails
  \/ DeliverIntact
  \/ DeliverCut
  \/ DeliverAltered
  \/ RejectLength
  \/ DecodeField
  \/ DecodeReturns

Spec == Init /\ [][Next]_vars

-----------------------------------------------------------------------------
(* Properties *)

Ended == phase \in {"failed", "accepted", "panicked"}
Intact == Ended /\ payload = bb.data
Cut == Ended /\ IsStrictPrefix(payload, bb.data)

\* The builder after the first n fields of message m.
Image(m, n) ==
  LET image[j \in 0 .. n] ==
        IF j = 0 THEN NewBinaryBuilder
        ELSE AddField(image[j - 1], Enc[j].type, m[Enc[j].name])
  IN  image[n]

\* Decode undoes Encode: a payload that arrives whole is accepted, read to its
\* end, and gives back every field, whatever was in the target before.
RoundTrip == Intact => phase = "accepted" /\ out = msg /\ br.pos = Len(payload)

\* "the encoded bytes will be returned up the point of the first error": the
\* builder holds the fields before the first one that is too long, and no byte
\* of it or of a later one; only Encode of a message that embeds another gives
\* up what it has when the embedded part is refused.
BytesStopAtFirstError ==
  phase \in {"encode", "refused"} =>
    LET TooLong == {j \in 1 .. k - 1 : "limit" \in DOMAIN Enc[j].type
                                       /\ Len(msg[Enc[j].name]) > Enc[j].type.limit}
        last == IF TooLong = {} THEN k - 1
                ELSE IF phase = "refused" /\ Min(TooLong) <= Embedded(name) THEN 0
                ELSE Min(TooLong) - 1
        images == [j \in 1 .. last |-> AddField(NewBinaryBuilder, Enc[j].type, msg[Enc[j].name]).data]
    IN  bb.err = (TooLong # {}) /\ bb.data = FlattenSeq(images)

\* A field of a message is refused only when it is longer than the comment of
\* its builder method allows ("Allowed range of length is ..."), whatever
\* limit and however many fields came before it.  The type that no message
\* uses is left out: AddBin16M refuses what its comment allows.
RefusedOnlyWhenTooLong ==
  bb.err /\ name # "B0_16M" =>
    \E j \in DOMAIN Enc :
      "range" \in DOMAIN Enc[j].type /\ Len(msg[Enc[j].name]) > Enc[j].type.range

\* A payload that was cut short is never accepted as a message.
TruncationNoticed == Cut => phase # "accepted"

\* What Decode accepts, Encode can write, and writes as the very bytes that
\* were read: no two byte strings stand for the same message, and a message
\* that came in can go out again.
Reencodes ==
  phase = "accepted" => Image(out, Len(Enc)) = [data |-> SubSeq(payload, 1, br.pos), err |-> FALSE]
=============================================================================
