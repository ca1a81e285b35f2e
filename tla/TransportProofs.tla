-------------------------- MODULE TransportProofs --------------------------
(***************************************************************************)
(* Theorems about Transport, for any number of writers, any sizes and any  *)
(* bounds: what the reader returns are the frames that were written, in    *)
(* the order of their bytes; a ciphertext it opens as a header is one; and *)
(* it meets a ciphertext it cannot open only after writers overlapped,     *)
(* after a frame that does not fit or after a slice that was cut short.    *)
(*                                                                         *)
(* The argument is about where ciphertexts lie in the stream.  The first   *)
(* and the last of the stream may have been read or cut in part, so        *)
(* start[i], the place of the i-th frame written, counts from the byte the *)
(* reader takes next, and is negative for what it has read already.        *)
(***************************************************************************)
EXTENDS Transport, SequenceTheorems, TLAPS

Bytes == [nonce : Nat, kind : {"header", "payload"}, frame : Frames, pos : Nat, size : Nat]

TInv ==
  /\ TypeOK
  /\ stream \in Seq(Bytes)
  /\ \A w \in Writers : wpc[w] # "idle" => frame[w] \in Frames
  /\ rpc = "payload" => header \in Frames

FrameSize(f) == NoiseHeaderSize + (f.len + MacLen)
IsByte(b, kind, f, q, size) == b.kind = kind /\ b.frame = f /\ b.pos = q /\ b.size = size

\* Frame i+1 begins where frame i ends.
Chain(start, fs) ==
  /\ start \in [Nat -> Int]
  /\ \A i \in 1 .. Len(fs) :
       start[i + 1] = start[i] + FrameSize(fs[i]) /\ start[i + 1] <= start[Len(fs) + 1]

\* Unless the connection has broken, the stream ends with the last frame.
Ends(start, s, fs, broken) ==
  /\ Len(s) <= start[Len(fs) + 1]
  /\ broken \/ Len(s) = start[Len(fs) + 1]

\* The bytes of the headers and of the payloads that are in the stream; when
\* no frames were mixed, the ciphertexts carry the nonces in order.
HeaderBytes(start, s, fs, mixed) ==
  \A i \in 1 .. Len(fs) : \A q \in 1 .. NoiseHeaderSize :
    start[i] + q \in 1 .. Len(s) =>
      /\ IsByte(s[start[i] + q], "header", fs[i], q, NoiseHeaderSize)
      /\ mixed \/ s[start[i] + q].nonce = 2 * (i - 1)

PayloadBytes(start, s, fs, mixed) ==
  \A i \in 1 .. Len(fs) : \A q \in 1 .. fs[i].len + MacLen :
    start[i] + NoiseHeaderSize + q \in 1 .. Len(s) =>
      /\ IsByte(s[start[i] + NoiseHeaderSize + q], "payload", fs[i], q, fs[i].len + MacLen)
      /\ mixed \/ s[start[i] + NoiseHeaderSize + q].nonce = 2 * i - 1

Layout(start, s, fs, broken, mixed) ==
  /\ Chain(start, fs)
  /\ Ends(start, s, fs, broken)
  /\ HeaderBytes(start, s, fs, mixed)
  /\ PayloadBytes(start, s, fs, mixed)

\* The reader, which has returned k frames, is at the header of the next one,
\* or, with its header, at its payload.
Position(start, pc, h, k, fs) ==
  /\ k \in 0 .. Len(fs)
  /\ pc = "header" => start[k + 1] = 0
  /\ pc = "payload" => k < Len(fs) /\ h = fs[k + 1] /\ start[k + 1] = - NoiseHeaderSize

StreamInv ==
  rpc # "stopped" =>
    \E start : /\ Layout(start, stream, written, closed, overlapped)
               /\ Position(start, rpc, header, Len(delivered), written)

\* Writers between sealing a header and the end of the call.
Active == {w \in Writers : wpc[w] \in {"payload", "write"}}

\* Writers that do not overlap have used two nonces for each frame written,
\* and those of the one that is being written.
SenderInv ==
  ~ overlapped =>
    /\ 2 * Len(written) <= n
    /\ \A v, w \in Active : v = w
    /\ ~ closed =>
         /\ Active = {} => n = 2 * Len(written) \/ n = maxNoiseNonce
         /\ \A w \in Writers :
              /\ wpc[w] = "payload" => n = 2 * Len(written) + 1 /\ hnonce[w] = 2 * Len(written)
              /\ wpc[w] = "write" => /\ n = 2 * Len(written) + 2
                                     /\ hnonce[w] = 2 * Len(written)
                                     /\ pnonce[w] = 2 * Len(written) + 1

\* The reader has used two for each frame it has returned.
ReaderInv ==
  ~ cutShort =>
    /\ rpc = "header" => rn = 2 * Len(delivered)
    /\ rpc = "payload" => rn = 2 * Len(delivered) + 1

\* The inductive invariant.
IInv == TInv /\ StreamInv /\ SenderInv /\ ReaderInv /\ NeverOutOfStep

-----------------------------------------------------------------------------
(* Sizes and ciphertexts *)

LEMMA HeaderSize == NoiseHeaderSize \in Nat \ {0} /\ NoiseHeaderSize = FrameHeaderSize + MacLen
  BY SizesAssumption DEF NoiseHeaderSize

LEMMA FrameTypes ==
  ASSUME NEW f \in Frames
  PROVE  f.id \in 1 .. MaxFrames /\ f.len \in Lengths /\ f.len \in Nat
         /\ f = [id |-> f.id, len |-> f.len]
  BY LengthsAssumption DEF Frames

LEMMA SizeTypes ==
  ASSUME NEW f \in Frames
  PROVE  f.len + MacLen \in Nat \ {0} /\ FrameSize(f) \in Nat
         /\ FrameSize(f) = NoiseHeaderSize + (f.len + MacLen)
  BY FrameTypes, HeaderSize, SizesAssumption DEF FrameSize

LEMMA CipherTextLenType ==
  ASSUME NEW len \in Nat
  PROVE  PlainTextLenToCipherTextLen(len) \in Nat
  <1> DEFINE a == len \div MaxPlaintextChunkSize
             b == len % MaxPlaintextChunkSize
             c == MaxNoiseFrameSize
  <1>1. a \in Nat /\ b \in Nat
    BY SizesAssumption
  <1>2. c \in Nat
    BY SizesAssumption DEF MaxNoiseFrameSize
  <1> HIDE DEF a, b, c
  <1>3. a * c \in Nat
    BY <1>1, <1>2
  <1>4. a * c + (IF b > 0 THEN b + MacLen ELSE 0) \in Nat
    BY <1>1, <1>3, SizesAssumption
  <1> QED
    BY <1>4 DEF PlainTextLenToCipherTextLen, a, b, c

\* What is sealed in one piece is as long as the reader expects when it fits.
LEMMA CipherTextLenFits ==
  ASSUME NEW len \in 1 .. MaxPlaintextChunkSize
  PROVE  PlainTextLenToCipherTextLen(len) = len + MacLen
  <1> DEFINE m == MaxPlaintextChunkSize
  <1>1. m \in Nat \ {0} /\ len \in Nat /\ MacLen \in Nat
    BY SizesAssumption
  <1>2. CASE len < m
    <2>1. len \div m = 0 /\ len % m = len
      BY <1>1, <1>2
    <2>2. 0 * MaxNoiseFrameSize = 0
      BY SizesAssumption DEF MaxNoiseFrameSize
    <2> QED
      BY <1>1, <2>1, <2>2 DEF PlainTextLenToCipherTextLen
  <1>3. CASE len = m
    <2>1. len \div m = 1 /\ len % m = 0
      BY <1>1, <1>3
    <2>2. 1 * MaxNoiseFrameSize = len + MacLen /\ len + MacLen \in Nat
      BY <1>1, <1>3, SizesAssumption DEF MaxNoiseFrameSize
    <2> QED
      BY <1>1, <2>1, <2>2 DEF PlainTextLenToCipherTextLen
  <1> QED
    BY <1>1, <1>2, <1>3

LEMMA SealedProperties ==
  ASSUME NEW nonce \in Nat, NEW kind \in {"header", "payload"}, NEW f \in Frames, NEW len \in Nat
  PROVE  LET s == Sealed(nonce, kind, f, len)
         IN  /\ s \in Seq(Bytes)
             /\ Len(s) = len + MacLen
             /\ \A q \in 1 .. len + MacLen :
                  IsByte(s[q], kind, f, q, len + MacLen) /\ s[q].nonce = nonce
  <1> DEFINE m == len + MacLen
             s == Sealed(nonce, kind, f, len)
  <1>1. m \in Nat
    BY SizesAssumption
  <1>2. s = [p \in 1 .. m |-> [nonce |-> nonce, kind |-> kind, frame |-> f, pos |-> p, size |-> m]]
    BY DEF Sealed
  <1> HIDE DEF m, s
  <1>3. \A q \in 1 .. m : s[q] = [nonce |-> nonce, kind |-> kind, frame |-> f, pos |-> q, size |-> m]
    BY <1>2
  <1>4. \A q \in 1 .. m : s[q] \in Bytes
    <2> SUFFICES ASSUME NEW q \in 1 .. m PROVE s[q] \in Bytes
      OBVIOUS
    <2>1. q \in Nat
      BY <1>1
    <2>2. [nonce |-> nonce, kind |-> kind, frame |-> f, pos |-> q, size |-> m] \in Bytes
      BY <1>1, <2>1 DEF Bytes
    <2> QED
      BY <1>3, <2>2
  <1>5. s \in [1 .. m -> Bytes]
    BY <1>2, <1>4
  <1>6. s \in Seq(Bytes)
    BY <1>1, <1>5, SeqDef
  <1>7. Len(s) = m
    BY <1>1, <1>5, <1>6, LenProperties
  <1> QED
    BY <1>3, <1>6, <1>7 DEF m, s, IsByte

\* The bytes of one whole frame.
IsFrame(s, f, hn, pn) ==
  /\ s \in Seq(Bytes)
  /\ Len(s) = FrameSize(f)
  /\ \A q \in 1 .. NoiseHeaderSize :
       IsByte(s[q], "header", f, q, NoiseHeaderSize) /\ s[q].nonce = hn
  /\ \A q \in 1 .. f.len + MacLen :
       /\ IsByte(s[NoiseHeaderSize + q], "payload", f, q, f.len + MacLen)
       /\ s[NoiseHeaderSize + q].nonce = pn

LEMMA EncryptFrameProperties ==
  ASSUME NEW f \in Frames, NEW hn \in Nat, NEW pn \in Nat
  PROVE  IsFrame(EncryptFrame(f, hn, pn), f, hn, pn)
  <1> DEFINE h == Sealed(hn, "header", f, FrameHeaderSize)
             p == Sealed(pn, "payload", f, f.len)
             s == EncryptFrame(f, hn, pn)
             m == f.len + MacLen
  <1>1. /\ h \in Seq(Bytes) /\ Len(h) = NoiseHeaderSize
        /\ \A q \in 1 .. NoiseHeaderSize :
             IsByte(h[q], "header", f, q, NoiseHeaderSize) /\ h[q].nonce = hn
    <2>1. FrameHeaderSize \in Nat /\ FrameHeaderSize + MacLen = NoiseHeaderSize
      BY SizesAssumption, HeaderSize
    <2>2. /\ h \in Seq(Bytes) /\ Len(h) = FrameHeaderSize + MacLen
          /\ \A q \in 1 .. FrameHeaderSize + MacLen :
               IsByte(h[q], "header", f, q, FrameHeaderSize + MacLen) /\ h[q].nonce = hn
      BY <2>1, SealedProperties, ZenonT(40)
    <2> QED
      BY <2>1, <2>2
  <1>2. /\ p \in Seq(Bytes) /\ Len(p) = m
        /\ \A q \in 1 .. m : IsByte(p[q], "payload", f, q, m) /\ p[q].nonce = pn
    BY SealedProperties, FrameTypes
  <1>3. s = h \o p
    BY DEF EncryptFrame
  <1>4. m \in Nat
    BY SizeTypes
  <1> HIDE DEF h, p, s, m
  <1>5. /\ s \in Seq(Bytes)
        /\ Len(s) = NoiseHeaderSize + m
        /\ \A q \in 1 .. NoiseHeaderSize + m :
             s[q] = IF q <= NoiseHeaderSize THEN h[q] ELSE p[q - NoiseHeaderSize]
    BY <1>1, <1>2, <1>3, ConcatProperties
  <1>6. \A q \in 1 .. NoiseHeaderSize : s[q] = h[q]
    BY <1>4, <1>5, HeaderSize
  <1>7. \A q \in 1 .. m : s[NoiseHeaderSize + q] = p[q]
    <2> SUFFICES ASSUME NEW q \in 1 .. m PROVE s[NoiseHeaderSize + q] = p[q]
      OBVIOUS
    <2>1. NoiseHeaderSize + q \in 1 .. NoiseHeaderSize + m /\ ~ (NoiseHeaderSize + q <= NoiseHeaderSize)
          /\ (NoiseHeaderSize + q) - NoiseHeaderSize = q
      BY <1>4, HeaderSize
    <2> QED
      BY <1>5, <2>1
  <1> QED
    BY <1>1, <1>2, <1>5, <1>6, <1>7 DEF s, m, FrameSize, IsFrame

LEMMA RestProperties ==
  ASSUME NEW S, NEW s \in Seq(S), NEW m \in 0 .. Len(s)
  PROVE  LET t == SubSeq(s, m + 1, Len(s))
         IN  t \in Seq(S) /\ Len(t) = Len(s) - m /\ \A j \in 1 .. Len(s) - m : t[j] = s[m + j]
  <1> DEFINE t == SubSeq(s, m + 1, Len(s))
  <1>1. Len(s) \in Nat /\ m \in Nat /\ m <= Len(s)
    BY LenProperties
  <1>2. \A i \in m + 1 .. Len(s) : s[i] \in S
    BY <1>1, ElementOfSeq
  <1>3. /\ t \in Seq(S)
        /\ Len(t) = IF m + 1 <= Len(s) THEN Len(s) - (m + 1) + 1 ELSE 0
        /\ \A i \in 1 .. Len(s) - (m + 1) + 1 : t[i] = s[(m + 1) + i - 1]
    BY <1>1, <1>2, SubSeqProperties
  <1> HIDE DEF t
  <1>4. Len(t) = Len(s) - m
    BY <1>1, <1>3
  <1>5. \A j \in 1 .. Len(s) - m : t[j] = s[m + j]
    <2> SUFFICES ASSUME NEW j \in 1 .. Len(s) - m PROVE t[j] = s[m + j]
      OBVIOUS
    <2>1. j \in 1 .. Len(s) - (m + 1) + 1 /\ (m + 1) + j - 1 = m + j
      BY <1>1
    <2> QED
      BY <1>3, <2>1
  <1> QED
    BY <1>3, <1>4, <1>5 DEF t

LEMMA FirstProperties ==
  ASSUME NEW S, NEW s \in Seq(S), NEW m \in 0 .. Len(s)
  PROVE  LET t == SubSeq(s, 1, m)
         IN  t \in Seq(S) /\ Len(t) = m /\ \A j \in 1 .. m : t[j] = s[j]
  <1> DEFINE t == SubSeq(s, 1, m)
  <1>1. Len(s) \in Nat /\ m \in Nat /\ m <= Len(s)
    BY LenProperties
  <1>2. \A i \in 1 .. m : s[i] \in S
    BY <1>1, ElementOfSeq
  <1>3. /\ t \in Seq(S)
        /\ Len(t) = IF 1 <= m THEN m - 1 + 1 ELSE 0
        /\ \A i \in 1 .. m - 1 + 1 : t[i] = s[1 + i - 1]
    BY <1>1, <1>2, SubSeqProperties
  <1> HIDE DEF t
  <1>4. Len(t) = m
    BY <1>1, <1>3
  <1>5. \A j \in 1 .. m : t[j] = s[j]
    <2> SUFFICES ASSUME NEW j \in 1 .. m PROVE t[j] = s[j]
      OBVIOUS
    <2>1. j \in 1 .. m - 1 + 1 /\ 1 + j - 1 = j
      BY <1>1
    <2> QED
      BY <1>3, <2>1
  <1> QED
    BY <1>3, <1>4, <1>5 DEF t

-----------------------------------------------------------------------------
(* What reading, breaking and writing do to the layout of the stream *)

LEMMA ChainTypes ==
  ASSUME NEW fs \in Seq(Frames), NEW start, Chain(start, fs)
  PROVE  /\ Len(fs) \in Nat
         /\ \A i \in Nat : start[i] \in Int
         /\ \A i \in 1 .. Len(fs) : i \in Nat /\ i + 1 \in Nat /\ fs[i] \in Frames
  <1>1. Len(fs) \in Nat
    BY LenProperties
  <1>2. \A i \in 1 .. Len(fs) : fs[i] \in Frames
    BY ElementOfSeq
  <1> QED
    BY <1>1, <1>2 DEF Chain

\* m bytes are read.
LEMMA LayoutConsume ==
  ASSUME NEW s \in Seq(Bytes), NEW fs \in Seq(Frames), NEW start, NEW broken, NEW mixed,
         Layout(start, s, fs, broken, mixed), NEW m \in 0 .. Len(s)
  PROVE  Layout([i \in Nat |-> start[i] - m], SubSeq(s, m + 1, Len(s)), fs, broken, mixed)
  <1> DEFINE t == SubSeq(s, m + 1, Len(s))
             new == [i \in Nat |-> start[i] - m]
             L == Len(s)
             K == Len(fs)
  <1>1. L \in Nat /\ m \in Nat /\ m <= L
    BY LenProperties
  <1>2. Len(t) = L - m /\ \A j \in 1 .. L - m : t[j] = s[m + j]
    BY RestProperties
  <1>3. Chain(start, fs) /\ Ends(start, s, fs, broken)
        /\ HeaderBytes(start, s, fs, mixed) /\ PayloadBytes(start, s, fs, mixed)
    BY DEF Layout
  <1>4. /\ K \in Nat
        /\ \A i \in Nat : start[i] \in Int
        /\ \A i \in 1 .. K : i \in Nat /\ i + 1 \in Nat /\ fs[i] \in Frames
    BY <1>3, ChainTypes
  <1>5. new \in [Nat -> Int] /\ \A i \in Nat : new[i] = start[i] - m
    BY <1>1, <1>4
  <1> HIDE DEF t, new
  <1>6. Chain(new, fs)
    <2> SUFFICES ASSUME NEW i \in 1 .. K
                 PROVE  new[i + 1] = new[i] + FrameSize(fs[i]) /\ new[i + 1] <= new[K + 1]
      BY <1>5 DEF Chain
    <2>1. start[i + 1] = start[i] + FrameSize(fs[i]) /\ start[i + 1] <= start[K + 1]
      BY <1>3 DEF Chain
    <2>2. new[i] = start[i] - m /\ new[i + 1] = start[i + 1] - m /\ new[K + 1] = start[K + 1] - m
      BY <1>4, <1>5, SMTT(30)
    <2>3. start[i] \in Int /\ start[i + 1] \in Int /\ start[K + 1] \in Int /\ FrameSize(fs[i]) \in Nat
      BY <1>4, SizeTypes
    <2> QED
      BY <1>1, <2>1, <2>2, <2>3, SMTT(30)
  <1>7. Ends(new, t, fs, broken)
    <2>1. L <= start[K + 1] /\ (broken \/ L = start[K + 1])
      BY <1>3 DEF Ends
    <2>2. new[K + 1] = start[K + 1] - m /\ start[K + 1] \in Int
      BY <1>4, <1>5
    <2>3. L - m <= new[K + 1] /\ (L = start[K + 1] => L - m = new[K + 1])
      BY <1>1, <2>1, <2>2
    <2> QED
      BY <1>2, <2>1, <2>3 DEF Ends
  <1>8. HeaderBytes(new, t, fs, mixed)
    <2> SUFFICES ASSUME NEW i \in 1 .. K, NEW q \in 1 .. NoiseHeaderSize, new[i] + q \in 1 .. L - m
                 PROVE  /\ IsByte(t[new[i] + q], "header", fs[i], q, NoiseHeaderSize)
                        /\ mixed \/ t[new[i] + q].nonce = 2 * (i - 1)
      BY <1>2 DEF HeaderBytes
    <2>1. q \in Nat /\ start[i] \in Int /\ new[i] = start[i] - m
      BY <1>4, <1>5, HeaderSize, SMTT(30)
    <2>2. m + (new[i] + q) = start[i] + q /\ start[i] + q \in 1 .. L
      BY <1>1, <2>1
    <2>3. t[new[i] + q] = s[start[i] + q]
      BY <1>2, <2>2
    <2> QED
      BY <1>3, <2>2, <2>3 DEF HeaderBytes
  <1>9. PayloadBytes(new, t, fs, mixed)
    <2> SUFFICES ASSUME NEW i \in 1 .. K, NEW q \in 1 .. fs[i].len + MacLen,
                        new[i] + NoiseHeaderSize + q \in 1 .. L - m
                 PROVE  /\ IsByte(t[new[i] + NoiseHeaderSize + q], "payload", fs[i], q, fs[i].len + MacLen)
                        /\ mixed \/ t[new[i] + NoiseHeaderSize + q].nonce = 2 * i - 1
      BY <1>2 DEF PayloadBytes
    <2> DEFINE x == start[i]
               y == new[i]
    <2>1. x \in Int /\ y = x - m
      BY <1>4, <1>5
    <2>4. fs[i] \in Frames
      BY <1>4
    <2>5. q \in Nat
      BY <2>4, SizeTypes
    <2>6. y + NoiseHeaderSize + q \in 1 .. L - m
      OBVIOUS
    <2> HIDE DEF x, y
    <2>7. m + (y + NoiseHeaderSize + q) = x + NoiseHeaderSize + q
          /\ x + NoiseHeaderSize + q \in 1 .. L
      BY <1>1, <2>1, <2>5, <2>6, HeaderSize, SMTT(30)
    <2>2. m + (new[i] + NoiseHeaderSize + q) = start[i] + NoiseHeaderSize + q
          /\ start[i] + NoiseHeaderSize + q \in 1 .. L
      BY <2>7 DEF x, y
    <2>3. t[new[i] + NoiseHeaderSize + q] = s[start[i] + NoiseHeaderSize + q]
      BY <1>2, <2>2
    <2> QED
      BY <1>3, <2>2, <2>3 DEF PayloadBytes
  <1> QED
    BY <1>6, <1>7, <1>8, <1>9 DEF Layout, t, new

\* The connection breaks and keeps the first m bytes.
LEMMA LayoutCut ==
  ASSUME NEW s \in Seq(Bytes), NEW fs \in Seq(Frames), NEW start, NEW broken, NEW mixed,
         Layout(start, s, fs, broken, mixed), NEW m \in 0 .. Len(s)
  PROVE  Layout(start, SubSeq(s, 1, m), fs, TRUE, mixed)
  <1> DEFINE t == SubSeq(s, 1, m)
  <1>1. Len(s) \in Nat /\ m \in Nat /\ m <= Len(s)
    BY LenProperties
  <1>2. Len(t) = m /\ \A j \in 1 .. m : t[j] = s[j]
    BY FirstProperties
  <1>3. Chain(start, fs) /\ Ends(start, s, fs, broken)
        /\ HeaderBytes(start, s, fs, mixed) /\ PayloadBytes(start, s, fs, mixed)
    BY DEF Layout
  <1>4. Len(fs) \in Nat /\ start[Len(fs) + 1] \in Int
    BY <1>3, ChainTypes
  <1> HIDE DEF t
  <1>5. 1 .. m \subseteq 1 .. Len(s)
    BY <1>1
  <1>6. Ends(start, t, fs, TRUE)
    BY <1>1, <1>2, <1>3, <1>4 DEF Ends
  <1>7. HeaderBytes(start, t, fs, mixed)
    BY <1>2, <1>3, <1>5 DEF HeaderBytes
  <1>8. PayloadBytes(start, t, fs, mixed)
    BY <1>2, <1>3, <1>5 DEF PayloadBytes
  <1> QED
    BY <1>3, <1>6, <1>7, <1>8 DEF Layout, t

\* Once frames have been mixed the order of the nonces is no longer claimed.
LEMMA LayoutMixed ==
  ASSUME NEW s, NEW fs, NEW start, NEW broken, NEW mixed, NEW more,
         Layout(start, s, fs, broken, mixed), mixed => more
  PROVE  Layout(start, s, fs, broken, more)
  BY DEF Layout, HeaderBytes, PayloadBytes

\* One call of Write appends a header and a payload.
LEMMA LayoutWrite ==
  ASSUME NEW s \in Seq(Bytes), NEW fs \in Seq(Frames), NEW start, NEW mixed,
         Layout(start, s, fs, FALSE, mixed),
         NEW f \in Frames, NEW hn \in Nat, NEW pn \in Nat,
         mixed \/ (hn = 2 * Len(fs) /\ pn = 2 * Len(fs) + 1)
  PROVE  Layout([start EXCEPT ![Len(fs) + 2] = Len(s) + FrameSize(f)],
                s \o EncryptFrame(f, hn, pn), Append(fs, f), FALSE, mixed)
  <1> DEFINE e == EncryptFrame(f, hn, pn)
             t == s \o e
             gs == Append(fs, f)
             L == Len(s)
             K == Len(fs)
             N == NoiseHeaderSize
             M == f.len + MacLen
             new == [start EXCEPT ![K + 2] = L + FrameSize(f)]
  <1>1. Chain(start, fs) /\ Ends(start, s, fs, FALSE)
        /\ HeaderBytes(start, s, fs, mixed) /\ PayloadBytes(start, s, fs, mixed)
    BY DEF Layout
  <1>2. /\ K \in Nat
        /\ \A i \in Nat : start[i] \in Int
        /\ \A i \in 1 .. K : i \in Nat /\ i + 1 \in Nat /\ fs[i] \in Frames
    BY <1>1, ChainTypes
  <1>3. L \in Nat /\ N \in Nat /\ M \in Nat /\ FrameSize(f) = N + M
    BY LenProperties, SizeTypes, HeaderSize
  <1>4. /\ e \in Seq(Bytes) /\ Len(e) = N + M
        /\ \A q \in 1 .. N : IsByte(e[q], "header", f, q, N) /\ e[q].nonce = hn
        /\ \A q \in 1 .. M : IsByte(e[N + q], "payload", f, q, M) /\ e[N + q].nonce = pn
    <2>1. IsFrame(e, f, hn, pn)
      BY EncryptFrameProperties
    <2> HIDE DEF e
    <2> QED
      BY <1>3, <2>1 DEF IsFrame
  <1>5. /\ Len(t) = L + (N + M)
        /\ \A i \in 1 .. L + (N + M) : t[i] = IF i <= L THEN s[i] ELSE e[i - L]
    <2> HIDE DEF e, N, M
    <2>1. /\ Len(t) = Len(s) + Len(e)
          /\ \A i \in 1 .. Len(s) + Len(e) : t[i] = IF i <= Len(s) THEN s[i] ELSE e[i - Len(s)]
      BY <1>4, ConcatProperties
    <2> QED
      BY <1>4, <2>1
  <1>6. /\ Len(gs) = K + 1 /\ gs[K + 1] = f
        /\ \A i \in 1 .. K : gs[i] = fs[i]
    BY AppendProperties
  <1>7. start[K + 1] = L
    BY <1>1 DEF Ends
  <1>8. /\ new \in [Nat -> Int]
        /\ new[K + 2] = L + (N + M) /\ new[K + 1] = L
        /\ \A i \in 1 .. K : new[i] = start[i] /\ new[i + 1] = start[i + 1]
    <2>1. start \in [Nat -> Int] /\ K + 2 \in Nat /\ L + (N + M) \in Int
      BY <1>1, <1>2, <1>3 DEF Chain
    <2>2. new = [start EXCEPT ![K + 2] = L + (N + M)]
      BY <1>3
    <2>3. \A i \in Nat : i # K + 2 => new[i] = start[i]
      BY <2>1, <2>2
    <2>4. K + 1 \in Nat /\ K + 1 # K + 2 /\ \A i \in 1 .. K : i # K + 2 /\ i + 1 # K + 2
      BY <1>2
    <2>5. new \in [Nat -> Int] /\ new[K + 2] = L + (N + M)
      BY <2>1, <2>2
    <2> QED
      BY <1>2, <1>7, <2>3, <2>4, <2>5
  <1> HIDE DEF e, t, gs, new, L, K, N, M
  <1>9. ASSUME NEW i \in 1 .. K
        PROVE  /\ start[i] \in Int /\ start[i + 1] \in Int
               /\ FrameSize(fs[i]) \in Nat /\ fs[i].len + MacLen \in Nat
               /\ FrameSize(fs[i]) = N + (fs[i].len + MacLen)
               /\ start[i + 1] = start[i] + FrameSize(fs[i]) /\ start[i + 1] <= L
    <2>1. start[i + 1] = start[i] + FrameSize(fs[i]) /\ start[i + 1] <= start[K + 1]
      BY <1>1 DEF Chain, K
    <2>2. fs[i] \in Frames /\ start[i] \in Int /\ start[i + 1] \in Int
      BY <1>2
    <2>3. FrameSize(fs[i]) \in Nat /\ fs[i].len + MacLen \in Nat
          /\ FrameSize(fs[i]) = N + (fs[i].len + MacLen)
      BY <2>2, SizeTypes DEF N
    <2> QED
      BY <1>7, <2>1, <2>2, <2>3
  <1>10. Chain(new, gs)
    <2> SUFFICES ASSUME NEW i \in 1 .. K + 1
                 PROVE  new[i + 1] = new[i] + FrameSize(gs[i]) /\ new[i + 1] <= new[(K + 1) + 1]
      BY <1>6, <1>8 DEF Chain
    <2>1. (K + 1) + 1 = K + 2
      BY <1>2
    <2>2. CASE i = K + 1
      <3>1. new[i + 1] = L + (N + M) /\ new[i] = L /\ FrameSize(gs[i]) = N + M
        BY <1>3, <1>6, <1>8, <2>1, <2>2
      <3> QED
        BY <1>3, <1>8, <2>1, <3>1
    <2>3. CASE i \in 1 .. K
      <3>1. new[i + 1] = start[i + 1] /\ new[i] = start[i] /\ gs[i] = fs[i]
        BY <1>6, <1>8, <2>3
      <3>2. start[i + 1] = start[i] + FrameSize(fs[i]) /\ start[i + 1] <= L /\ start[i + 1] \in Int
        BY <1>9, <2>3
      <3>3. start[i + 1] <= L + (N + M)
        BY <1>3, <3>2
      <3> QED
        BY <1>8, <2>1, <3>1, <3>2, <3>3
    <2> QED
      BY <1>2, <2>2, <2>3
  <1>11. Ends(new, t, gs, FALSE)
    <2>1. (K + 1) + 1 = K + 2 /\ L + (N + M) \in Nat
      BY <1>2, <1>3
    <2>2. L + (N + M) <= L + (N + M)
      BY <2>1
    <2> QED
      BY <1>5, <1>6, <1>8, <2>1, <2>2 DEF Ends
  <1>12. HeaderBytes(new, t, gs, mixed)
    <2> SUFFICES ASSUME NEW i \in 1 .. K + 1, NEW q \in 1 .. N, new[i] + q \in 1 .. L + (N + M)
                 PROVE  /\ IsByte(t[new[i] + q], "header", gs[i], q, N)
                        /\ mixed \/ t[new[i] + q].nonce = 2 * (i - 1)
      BY <1>5, <1>6 DEF HeaderBytes, N
    <2>1. CASE i = K + 1
      <3>1. new[i] + q = L + q /\ ~ (L + q <= L) /\ (L + q) - L = q
        BY <1>3, <1>8, <2>1
      <3>2. t[new[i] + q] = e[q]
        BY <1>5, <3>1
      <3>3. 2 * (i - 1) = 2 * K
        BY <1>2, <2>1
      <3>4. mixed \/ hn = 2 * (i - 1)
        BY <3>3 DEF K
      <3> QED
        BY <1>4, <1>6, <2>1, <3>2, <3>4
    <2>2. CASE i \in 1 .. K
      <3> DEFINE x == start[i]
                 y == start[i + 1]
                 z == fs[i].len + MacLen
      <3>1. x \in Int /\ y \in Int /\ z \in Nat /\ y = x + (N + z) /\ y <= L /\ new[i] = x
        BY <1>8, <1>9, <2>2
      <3> HIDE DEF x, y, z
      <3>2. x + q \in 1 .. L /\ new[i] + q = x + q
        BY <1>3, <3>1
      <3>3. t[new[i] + q] = s[x + q]
        BY <1>3, <1>5, <3>2
      <3>4. IsByte(s[x + q], "header", fs[i], q, N) /\ (mixed \/ s[x + q].nonce = 2 * (i - 1))
        BY <1>1, <2>2, <3>2 DEF HeaderBytes, x, N, K, L
      <3> QED
        BY <1>6, <2>2, <3>3, <3>4
    <2> QED
      BY <1>2, <2>1, <2>2
  <1>13. PayloadBytes(new, t, gs, mixed)
    <2> SUFFICES ASSUME NEW i \in 1 .. K + 1, NEW q \in 1 .. gs[i].len + MacLen,
                        new[i] + N + q \in 1 .. L + (N + M)
                 PROVE  /\ IsByte(t[new[i] + N + q], "payload", gs[i], q, gs[i].len + MacLen)
                        /\ mixed \/ t[new[i] + N + q].nonce = 2 * i - 1
      BY <1>5, <1>6 DEF PayloadBytes, N
    <2>1. CASE i = K + 1
      <3>0. q \in 1 .. M
        BY <1>6, <2>1 DEF M
      <3>1. new[i] + N + q = L + N + q /\ ~ (L + N + q <= L) /\ (L + N + q) - L = N + q
        BY <1>3, <1>8, <2>1, <3>0
      <3>2. t[new[i] + N + q] = e[N + q]
        BY <1>5, <3>1
      <3>3. 2 * i - 1 = 2 * K + 1
        BY <1>2, <2>1
      <3>4. mixed \/ pn = 2 * i - 1
        BY <3>3 DEF K
      <3>5. gs[i] = f /\ gs[i].len + MacLen = M
        BY <1>6, <2>1 DEF M
      <3> QED
        BY <1>4, <3>0, <3>2, <3>4, <3>5
    <2>2. CASE i \in 1 .. K
      <3> DEFINE x == start[i]
                 y == start[i + 1]
                 z == fs[i].len + MacLen
      <3>0. gs[i] = fs[i] /\ q \in 1 .. z
        BY <1>6, <2>2
      <3>1. x \in Int /\ y \in Int /\ z \in Nat /\ y = x + (N + z) /\ y <= L /\ new[i] = x
        BY <1>8, <1>9, <2>2
      <3> HIDE DEF x, y, z
      <3>2. x + N + q \in 1 .. L /\ new[i] + N + q = x + N + q
        BY <1>3, <3>0, <3>1
      <3>3. t[new[i] + N + q] = s[x + N + q]
        BY <1>3, <1>5, <3>2
      <3>4. IsByte(s[x + N + q], "payload", fs[i], q, z) /\ (mixed \/ s[x + N + q].nonce = 2 * i - 1)
        BY <1>1, <2>2, <3>0, <3>2 DEF PayloadBytes, x, z, N, K, L
      <3> QED
        BY <3>0, <3>3, <3>4 DEF z
    <2> QED
      BY <1>2, <2>1, <2>2
  <1>14. Layout(new, t, gs, FALSE, mixed)
    BY <1>10, <1>11, <1>12, <1>13 DEF Layout
  <1> QED
    BY <1>14 DEF new, t, gs, e, K, L

-----------------------------------------------------------------------------
(* What the reader finds at its position *)

\* Nothing is left of a stream whose frames have all been read.
LEMMA NothingLeft ==
  ASSUME NEW s \in Seq(Bytes), NEW fs \in Seq(Frames), NEW start, NEW broken, NEW mixed,
         Layout(start, s, fs, broken, mixed), NEW k \in 0 .. Len(fs),
         start[k + 1] = 0, Len(s) # 0
  PROVE  k + 1 \in 1 .. Len(fs)
  <1>1. Len(s) \in Nat /\ Len(fs) \in Nat
    BY LenProperties
  <1>2. k = Len(fs) => Len(s) <= 0
    BY DEF Layout, Ends
  <1> QED
    BY <1>1, <1>2

\* The next bytes are those of the header of frame i.
LEMMA AtHeader ==
  ASSUME NEW s \in Seq(Bytes), NEW fs \in Seq(Frames), NEW start, NEW broken, NEW mixed,
         Layout(start, s, fs, broken, mixed), NEW i \in 1 .. Len(fs),
         start[i] = 0, Len(s) >= NoiseHeaderSize
  PROVE  \A q \in 1 .. NoiseHeaderSize :
           /\ IsByte(s[q], "header", fs[i], q, NoiseHeaderSize)
           /\ mixed \/ s[q].nonce = 2 * (i - 1)
  <1> SUFFICES ASSUME NEW q \in 1 .. NoiseHeaderSize
               PROVE  /\ IsByte(s[q], "header", fs[i], q, NoiseHeaderSize)
                      /\ mixed \/ s[q].nonce = 2 * (i - 1)
    OBVIOUS
  <1>1. Len(s) \in Nat
    BY LenProperties
  <1>2. start[i] + q = q /\ q \in 1 .. Len(s)
    BY <1>1, HeaderSize
  <1> QED
    BY <1>2 DEF Layout, HeaderBytes

\* From NoiseHeaderSize bytes on, they are those of its payload.
LEMMA AtPayload ==
  ASSUME NEW s \in Seq(Bytes), NEW fs \in Seq(Frames), NEW start, NEW broken, NEW mixed,
         Layout(start, s, fs, broken, mixed), NEW i \in 1 .. Len(fs),
         NEW q \in 1 .. fs[i].len + MacLen, NEW at \in Nat,
         start[i] + NoiseHeaderSize = at, at + q <= Len(s)
  PROVE  /\ IsByte(s[at + q], "payload", fs[i], q, fs[i].len + MacLen)
         /\ mixed \/ s[at + q].nonce = 2 * i - 1
  <1>1. Len(s) \in Nat
    BY LenProperties
  <1>2. fs[i] \in Frames
    BY ElementOfSeq
  <1>3. q \in Nat \ {0}
    BY <1>2, SizeTypes
  <1>4. start[i] + NoiseHeaderSize + q = at + q /\ at + q \in 1 .. Len(s)
    BY <1>1, <1>3
  <1> QED
    BY <1>4 DEF Layout, PayloadBytes

-----------------------------------------------------------------------------
(* Types *)

LEMMA Below ==
  ASSUME NEW m \in Nat, NEW x \in 0 .. m, x # m
  PROVE  x \in Nat /\ x + 1 \in 0 .. m /\ x + 1 \in 1 .. m /\ x + 2 = (x + 1) + 1
  OBVIOUS

LEMMA Naturals ==
  ASSUME NEW m \in Nat, NEW x \in 0 .. m
  PROVE  x \in Nat
  OBVIOUS

LEMMA Counters ==
  ASSUME TInv
  PROVE  maxNoiseNonce \in Nat /\ n \in 0 .. maxNoiseNonce /\ rn \in 0 .. maxNoiseNonce
         /\ MaxFrames \in Nat /\ began \in 0 .. MaxFrames
  <1>1. maxNoiseNonce \in MaxNonceOutcomes /\ n \in 0 .. maxNoiseNonce
        /\ rn \in 0 .. maxNoiseNonce /\ began \in 0 .. MaxFrames
    BY DEF TInv, TypeOK
  <1> QED
    BY <1>1, LimitsAssumption

\* The bytes that io.ReadFull returns.
LEMMA BlockProperties ==
  ASSUME TInv, NEW size \in Nat, Readable(size)
  PROVE  /\ Block(size) \in Seq(Bytes) /\ Len(Block(size)) = size
         /\ \A p \in 1 .. size : Block(size)[p] = stream[p] /\ stream[p] \in Bytes
         /\ SubSeq(stream, size + 1, Len(stream)) \in Seq(Bytes)
         /\ size \in 0 .. Len(stream)
  <1>1. stream \in Seq(Bytes)
    BY DEF TInv
  <1>2. Len(stream) \in Nat /\ Len(stream) >= size
    BY <1>1, LenProperties DEF Readable
  <1>3. size \in 0 .. Len(stream)
    BY <1>2
  <1>4. Block(size) \in Seq(Bytes) /\ Len(Block(size)) = size
        /\ \A p \in 1 .. size : Block(size)[p] = stream[p]
    BY <1>1, <1>3, FirstProperties DEF Block
  <1>5. \A p \in 1 .. size : stream[p] \in Bytes
    BY <1>1, <1>2, ElementOfSeq
  <1>6. SubSeq(stream, size + 1, Len(stream)) \in Seq(Bytes)
    BY <1>1, <1>3, RestProperties
  <1> QED
    BY <1>3, <1>4, <1>5, <1>6

\* gcm.Open on them.
LEMMA OpenedBlock ==
  ASSUME TInv, NEW size \in Nat, Readable(size), NEW nonce
  PROVE  Opens(Block(size), nonce)
           <=> size # 0 /\ \A p \in 1 .. size : /\ stream[p].nonce = nonce
                                                /\ stream[p].pos = p
                                                /\ stream[p].size = size
  <1> DEFINE b == Block(size)
  <1>1. b \in Seq(Bytes) /\ Len(b) = size /\ \A p \in 1 .. size : b[p] = stream[p]
    BY BlockProperties
  <1> HIDE DEF b
  <1>2. DOMAIN b = 1 .. size
    BY <1>1, LenProperties
  <1>3. b # <<>> <=> size # 0
    BY <1>1, EmptySeq
  <1>4. Opens(b, nonce) <=> size # 0 /\ \A p \in 1 .. size : /\ stream[p].nonce = nonce
                                                             /\ stream[p].pos = p
                                                             /\ stream[p].size = size
    BY <1>1, <1>2, <1>3 DEF Opens
  <1> QED
    BY <1>4 DEF b

LEMMA WriterType ==
  ASSUME TInv, NEW w \in Writers, Writer(w)
  PROVE  TInv'
  <1>0. UNCHANGED <<via, maxNoiseNonce>>
    BY DEF Writer
  <1>1. maxNoiseNonce \in Nat /\ n \in 0 .. maxNoiseNonce /\ MaxFrames \in Nat /\ began \in 0 .. MaxFrames
    BY Counters
  <1>2. CASE \E len \in Lengths : Encode(w, len)
    <2>1. PICK len \in Lengths : Encode(w, len)
      BY <1>2
    <2>2. began + 1 \in 1 .. MaxFrames /\ began + 1 \in 0 .. MaxFrames
      <3>1. began # MaxFrames
        BY <1>1, <2>1 DEF Encode
      <3> QED
        BY <1>1, <3>1, Below
    <2>3. [id |-> began + 1, len |-> len] \in Frames
      BY <2>2 DEF Frames
    <2> QED
      BY <1>0, <2>1, <2>2, <2>3 DEF Encode, rvars, TInv, TypeOK
  <1>3. CASE EncryptHeader(w)
    <2>1. n + 1 \in 0 .. maxNoiseNonce /\ n \in Nat
      BY <1>1, <1>3, Below DEF EncryptHeader
    <2>2. overlapped' \in BOOLEAN
      BY <1>3 DEF EncryptHeader
    <2> QED
      BY <1>0, <1>3, <2>1, <2>2 DEF EncryptHeader, rvars, TInv, TypeOK
  <1>4. CASE EncryptPayload(w)
    <2>1. n + 1 \in 0 .. maxNoiseNonce /\ n \in Nat
      BY <1>1, <1>4, Below DEF EncryptPayload
    <2> QED
      BY <1>0, <1>4, <2>1 DEF EncryptPayload, rvars, TInv, TypeOK
  <1>5. CASE Exhausted(w)
    BY <1>0, <1>5 DEF Exhausted, Return, rvars, TInv, TypeOK
  <1>6. CASE Write(w)
    <2>1. frame[w] \in Frames /\ hnonce[w] \in Nat /\ pnonce[w] \in Nat
      BY <1>6 DEF Write, TInv, TypeOK
    <2>2. EncryptFrame(frame[w], hnonce[w], pnonce[w]) \in Seq(Bytes)
      BY <2>1, EncryptFrameProperties DEF IsFrame
    <2>3. stream' \in Seq(Bytes)
      BY <1>6, <2>2, ConcatProperties DEF Write, TInv
    <2>4. written' \in Seq(Frames)
      BY <1>6, <2>1, AppendProperties DEF Write, TInv, TypeOK
    <2> QED
      BY <1>0, <1>6, <2>3, <2>4 DEF Write, Return, rvars, TInv, TypeOK
  <1>7. CASE WriteFails(w)
    BY <1>0, <1>7 DEF WriteFails, Return, rvars, TInv, TypeOK
  <1> QED
    BY <1>2, <1>3, <1>4, <1>5, <1>6, <1>7 DEF Writer

LEMMA SizeOfPayload ==
  ASSUME TInv
  PROVE  PayloadSize \in Nat
  <1>1. header.len \in Nat
    <2>1. header \in Frames \/ header = NoFrame
      BY DEF TInv, TypeOK
    <2>2. CASE header \in Frames
      BY <2>2, FrameTypes
    <2>3. CASE header = NoFrame
      BY <2>3 DEF NoFrame
    <2> QED
      BY <2>1, <2>2, <2>3
  <1> QED
    BY <1>1, CipherTextLenType DEF PayloadSize

\* The header that has been decoded.
LEMMA HeaderType ==
  ASSUME TInv, Readable(NoiseHeaderSize)
  PROVE  SliceHeader = stream[1].frame /\ SliceHeader \in Frames /\ SlicePayload \in Nat
  <1>1. 1 \in 1 .. NoiseHeaderSize /\ NoiseHeaderSize \in Nat
    BY HeaderSize
  <1>2. Block(NoiseHeaderSize)[1] = stream[1] /\ stream[1] \in Bytes
    BY <1>1, BlockProperties
  <1>3. SliceHeader = stream[1].frame /\ SliceHeader \in Frames
    BY <1>2 DEF SliceHeader, Bytes
  <1> QED
    BY <1>3, FrameTypes, CipherTextLenType DEF SlicePayload

\* The loop ends, and drops size bytes or all of them.
LEMMA StopType ==
  ASSUME TInv, NEW why \in {"decrypt", "EOF", "unexpected EOF"}, Stop(why),
         stream' \in Seq(Bytes), UNCHANGED <<via, maxNoiseNonce, wvars, closed, written>>
  PROVE  TInv'
  BY DEF Stop, TInv, TypeOK, wvars

LEMMA RejectType ==
  ASSUME TInv, NEW size \in Nat, Reject(size), UNCHANGED <<via, maxNoiseNonce>>
  PROVE  TInv'
  <1>1. stream' \in Seq(Bytes)
    BY BlockProperties DEF Reject
  <1>2. Stop("decrypt") /\ UNCHANGED <<via, maxNoiseNonce, wvars, closed, written>>
    BY DEF Reject
  <1> QED
    BY <1>1, <1>2, StopType

LEMMA EndedType ==
  ASSUME TInv, NEW size \in Nat, Ended(size), UNCHANGED <<via, maxNoiseNonce>>
  PROVE  TInv'
  <1>1. stream' \in Seq(Bytes)
    BY EmptySeq DEF Ended
  <1>2. \E why \in {"EOF", "unexpected EOF"} : Stop(why)
    BY DEF Ended
  <1>3. UNCHANGED <<via, maxNoiseNonce, wvars, closed, written>>
    BY DEF Ended
  <1> QED
    BY <1>1, <1>2, <1>3, StopType

LEMMA ReceivedType ==
  ASSUME TInv, rpc = "payload", Readable(PayloadSize), Accepts(PayloadSize)
  PROVE  /\ PayloadSize \in Nat \ {0} /\ stream[1] \in Bytes
         /\ Received = [id |-> stream[1].frame.id, len |-> header.len]
         /\ Received \in Frames
  <1>1. PayloadSize \in Nat
    BY SizeOfPayload
  <1>2. PayloadSize # 0
    BY <1>1, OpenedBlock DEF Accepts
  <1>3. 1 \in 1 .. PayloadSize
    BY <1>1, <1>2
  <1>4. Block(PayloadSize)[1] = stream[1] /\ stream[1] \in Bytes
    BY <1>1, <1>3, BlockProperties
  <1>5. stream[1].frame \in Frames /\ header \in Frames
    BY <1>4 DEF Bytes, TInv
  <1>6. Received = [id |-> stream[1].frame.id, len |-> header.len]
    BY <1>4 DEF Received
  <1>7. Received \in Frames
    BY <1>5, <1>6 DEF Frames
  <1> QED
    BY <1>1, <1>2, <1>4, <1>6, <1>7

LEMMA ReaderType ==
  ASSUME TInv, Reader
  PROVE  TInv'
  <1>0. UNCHANGED <<via, maxNoiseNonce>>
    BY DEF Reader
  <1>1. maxNoiseNonce \in Nat /\ rn \in 0 .. maxNoiseNonce
    BY Counters
  <1>2. CASE ReadHeader
    <2>1. rn + 1 \in 0 .. maxNoiseNonce
      BY <1>1, <1>2, Below DEF ReadHeader, Accepts
    <2>2. header' \in Frames
      BY <1>2, HeaderType DEF ReadHeader, SliceHeader
    <2>3. stream' \in Seq(Bytes)
      BY <1>2, BlockProperties, HeaderSize DEF ReadHeader
    <2> QED
      BY <1>0, <1>2, <2>1, <2>2, <2>3 DEF ReadHeader, TInv, TypeOK, wvars
  <1>3. CASE ReadPayload
    <2>1. rn + 1 \in 0 .. maxNoiseNonce
      BY <1>1, <1>3, Below DEF ReadPayload, Accepts
    <2>2. Received \in Frames
      BY <1>3, ReceivedType DEF ReadPayload
    <2>3. stream' \in Seq(Bytes)
      BY <1>3, BlockProperties, SizeOfPayload DEF ReadPayload
    <2>4. delivered' \in Seq(Frames)
      BY <1>3, <2>2, AppendProperties DEF ReadPayload, TInv, TypeOK
    <2> QED
      BY <1>0, <1>3, <2>1, <2>3, <2>4 DEF ReadPayload, TInv, TypeOK, wvars
  <1>4. CASE RejectHeader \/ RejectPayload
    BY <1>0, <1>4, RejectType, HeaderSize, SizeOfPayload DEF RejectHeader, RejectPayload
  <1>5. CASE HeaderEnded \/ PayloadEnded
    BY <1>0, <1>5, EndedType, HeaderSize, SizeOfPayload DEF HeaderEnded, PayloadEnded
  <1> QED
    BY <1>2, <1>3, <1>4, <1>5 DEF Reader

LEMMA SlicesType ==
  ASSUME TInv, Slices
  PROVE  TInv'
  <1>0. UNCHANGED <<via, maxNoiseNonce>>
    BY DEF Slices
  <1>1. maxNoiseNonce \in Nat /\ rn \in 0 .. maxNoiseNonce
    BY Counters
  <1>2. CASE DecryptFrame
    <2>1. rn + 2 \in 0 .. maxNoiseNonce
      <3>1. rn # maxNoiseNonce /\ rn + 1 # maxNoiseNonce
        BY <1>2 DEF DecryptFrame, HeaderOpens, PayloadOpens, Accepts
      <3>2. rn + 1 \in 0 .. maxNoiseNonce /\ rn + 2 = (rn + 1) + 1
        BY <1>1, <3>1, Below
      <3> QED
        BY <1>1, <3>1, <3>2, Below
    <2>2. SliceHeader \in Frames /\ SlicePayload \in Nat
      BY <1>2, HeaderType DEF DecryptFrame, HeaderOpens
    <2>3. NoiseHeaderSize + SlicePayload \in Nat
      BY <2>2, HeaderSize
    <2>4. stream' \in Seq(Bytes)
      BY <1>2, <2>3, BlockProperties DEF DecryptFrame
    <2>5. delivered' \in Seq(Frames)
      BY <1>2, <2>2, AppendProperties DEF DecryptFrame, TInv, TypeOK
    <2> QED
      BY <1>0, <1>2, <2>1, <2>4, <2>5 DEF DecryptFrame, TInv, TypeOK, wvars
  <1>3. CASE DecryptFrameShort
    <2>1. rn + 1 \in 0 .. maxNoiseNonce
      BY <1>1, <1>3, Below DEF DecryptFrameShort, HeaderOpens, Accepts
    <2> QED
      BY <1>0, <1>3, <2>1 DEF DecryptFrameShort, TInv, TypeOK, wvars
  <1>4. CASE DecryptFrameFails
    BY <1>0, <1>4, StopType DEF DecryptFrameFails, TInv
  <1> QED
    BY <1>2, <1>3, <1>4 DEF Slices

LEMMA BreakType ==
  ASSUME TInv, NEW kept \in 0 .. Len(stream), Break(kept)
  PROVE  TInv'
  <1>1. stream' \in Seq(Bytes)
    BY FirstProperties DEF Break, TInv
  <1> QED
    BY <1>1 DEF Break, TInv, TypeOK, wvars, rvars

LEMMA InitTInv == Init => TInv
  <1> SUFFICES ASSUME Init PROVE TInv
    OBVIOUS
  <1>1. maxNoiseNonce \in Nat /\ MaxFrames \in Nat
    BY LimitsAssumption DEF Init
  <1>2. stream \in Seq(Bytes) /\ written \in Seq(Frames) /\ delivered \in Seq(Frames)
    BY EmptySeq DEF Init
  <1>3. 0 \in 0 .. maxNoiseNonce /\ 0 \in 0 .. MaxFrames /\ 0 \in Nat
    BY <1>1
  <1> QED
    BY <1>2, <1>3 DEF Init, TInv, TypeOK

LEMMA NextTInv == TInv /\ [Next]_vars => TInv'
  <1> SUFFICES ASSUME TInv, [Next]_vars PROVE TInv'
    OBVIOUS
  <1>1. CASE UNCHANGED vars
    BY <1>1 DEF vars, wvars, rvars, TInv, TypeOK
  <1>2. CASE Next
    BY <1>2, WriterType, ReaderType, SlicesType, BreakType DEF Next
  <1> QED
    BY <1>1, <1>2

\* Every step keeps the types: the counters of both sides stay within the
\* limit at which Encrypt and Decrypt give up, and what the reader decodes and
\* returns are frames.
THEOREM TypeCorrect == Spec => []TypeOK
  <1>1. TInv => TypeOK
    BY DEF TInv
  <1> QED
    BY <1>1, InitTInv, NextTInv, PTL DEF Spec

-----------------------------------------------------------------------------
(* The reader is at the next frame *)

At(start) ==
  /\ Layout(start, stream, written, closed, overlapped)
  /\ Position(start, rpc, header, Len(delivered), written)

LEMMA HeaderFound ==
  ASSUME TInv, NEW start, At(start), rpc = "header", Readable(NoiseHeaderSize)
  PROVE  LET i == Len(delivered) + 1
         IN  /\ i \in 1 .. Len(written) /\ start[i] = 0
             /\ \A p \in 1 .. NoiseHeaderSize :
                  /\ IsByte(stream[p], "header", written[i], p, NoiseHeaderSize)
                  /\ overlapped \/ stream[p].nonce = 2 * (i - 1)
             /\ SliceHeader = written[i]
  <1> DEFINE k == Len(delivered)
             i == k + 1
  <1>1. stream \in Seq(Bytes) /\ written \in Seq(Frames)
    BY DEF TInv, TypeOK
  <1>2. Layout(start, stream, written, closed, overlapped) /\ k \in 0 .. Len(written) /\ start[i] = 0
    BY DEF At, Position
  <1>3. Len(stream) >= NoiseHeaderSize /\ Len(stream) \in Nat /\ Len(stream) # 0
    BY <1>1, LenProperties, HeaderSize DEF Readable
  <1>4. i \in 1 .. Len(written)
    BY <1>1, <1>2, <1>3, NothingLeft
  <1> HIDE DEF i
  <1>5. \A p \in 1 .. NoiseHeaderSize :
          /\ IsByte(stream[p], "header", written[i], p, NoiseHeaderSize)
          /\ overlapped \/ stream[p].nonce = 2 * (i - 1)
    BY <1>1, <1>2, <1>3, <1>4, AtHeader
  <1>6. 1 \in 1 .. NoiseHeaderSize
    BY HeaderSize
  <1>7. SliceHeader = written[i]
    BY <1>5, <1>6, HeaderType DEF IsByte
  <1> QED
    BY <1>2, <1>4, <1>5, <1>7 DEF i

LEMMA PayloadFound ==
  ASSUME TInv, NEW start, At(start), rpc = "payload"
  PROVE  LET i == Len(delivered) + 1
         IN  /\ i \in 1 .. Len(written) /\ start[i] = - NoiseHeaderSize
             /\ header = written[i] /\ header \in Frames
             /\ \A q \in 1 .. header.len + MacLen : q <= Len(stream) =>
                  /\ IsByte(stream[q], "payload", header, q, header.len + MacLen)
                  /\ overlapped \/ stream[q].nonce = 2 * i - 1
  <1> DEFINE k == Len(delivered)
             i == k + 1
  <1>1. stream \in Seq(Bytes) /\ written \in Seq(Frames) /\ header \in Frames
    BY DEF TInv, TypeOK
  <1>2. /\ Layout(start, stream, written, closed, overlapped)
        /\ k \in 0 .. Len(written) /\ k < Len(written)
        /\ header = written[i] /\ start[i] = - NoiseHeaderSize
    BY DEF At, Position
  <1>3. i \in 1 .. Len(written)
    BY <1>1, <1>2, LenProperties
  <1>4. start[i] + NoiseHeaderSize = 0
    BY <1>2, HeaderSize
  <1> HIDE DEF i
  <1>5. ASSUME NEW q \in 1 .. header.len + MacLen, q <= Len(stream)
        PROVE  /\ IsByte(stream[q], "payload", header, q, header.len + MacLen)
               /\ overlapped \/ stream[q].nonce = 2 * i - 1
    <2>1. q \in 1 .. written[i].len + MacLen /\ 0 + q = q
      BY <1>1, <1>2, SizeTypes
    <2> QED
      BY <1>1, <1>2, <1>3, <1>4, <1>5, <2>1, AtPayload
  <1> QED
    BY <1>1, <1>2, <1>3, <1>5 DEF i

\* The payload that follows the header in the slice.
LEMMA SliceFound ==
  ASSUME TInv, NEW start, At(start), rpc = "header", Readable(NoiseHeaderSize)
  PROVE  LET i == Len(delivered) + 1
         IN  \A q \in 1 .. SliceHeader.len + MacLen : NoiseHeaderSize + q <= Len(stream) =>
               /\ IsByte(stream[NoiseHeaderSize + q], "payload", SliceHeader, q, SliceHeader.len + MacLen)
               /\ overlapped \/ stream[NoiseHeaderSize + q].nonce = 2 * i - 1
  <1> DEFINE i == Len(delivered) + 1
  <1>1. stream \in Seq(Bytes) /\ written \in Seq(Frames)
    BY DEF TInv, TypeOK
  <1>2. Layout(start, stream, written, closed, overlapped)
    BY DEF At
  <1>3. i \in 1 .. Len(written) /\ start[i] = 0 /\ SliceHeader = written[i]
    BY HeaderFound
  <1> HIDE DEF i
  <1>4. start[i] + NoiseHeaderSize = NoiseHeaderSize /\ NoiseHeaderSize \in Nat
    BY <1>3, HeaderSize
  <1>5. ASSUME NEW q \in 1 .. SliceHeader.len + MacLen, NoiseHeaderSize + q <= Len(stream)
        PROVE  /\ IsByte(stream[NoiseHeaderSize + q], "payload", SliceHeader, q, SliceHeader.len + MacLen)
               /\ overlapped \/ stream[NoiseHeaderSize + q].nonce = 2 * i - 1
    BY <1>1, <1>2, <1>3, <1>4, <1>5, AtPayload
  <1> QED
    BY <1>5 DEF i

\* gcm.Open on the payload of a slice.
LEMMA OpenedSlice ==
  ASSUME TInv, Readable(NoiseHeaderSize), Readable(NoiseHeaderSize + SlicePayload)
  PROVE  PayloadOpens <=>
           /\ rn + 1 # maxNoiseNonce /\ SlicePayload # 0
           /\ \A p \in 1 .. SlicePayload : /\ stream[NoiseHeaderSize + p].nonce = rn + 1
                                           /\ stream[NoiseHeaderSize + p].pos = p
                                           /\ stream[NoiseHeaderSize + p].size = SlicePayload
  <1> DEFINE N == NoiseHeaderSize
             M == SlicePayload
             L == Len(stream)
             t == SubSeq(stream, N + 1, N + M)
  <1>1. stream \in Seq(Bytes)
    BY DEF TInv
  <1>2. N \in Nat /\ M \in Nat /\ L \in Nat /\ N + M <= L
    BY <1>1, HeaderSize, HeaderType, LenProperties DEF Readable
  <1> HIDE DEF N, M, L
  <1>3. \A j \in N + 1 .. N + M : stream[j] \in Bytes
    <2> SUFFICES ASSUME NEW j \in N + 1 .. N + M PROVE stream[j] \in Bytes
      OBVIOUS
    <2>1. j \in 1 .. L
      BY <1>2
    <2> QED
      BY <1>1, <2>1, ElementOfSeq DEF L
  <1>4. /\ t \in Seq(Bytes)
        /\ Len(t) = IF N + 1 <= N + M THEN (N + M) - (N + 1) + 1 ELSE 0
        /\ \A j \in 1 .. (N + M) - (N + 1) + 1 : t[j] = stream[(N + 1) + j - 1]
    <2>1. N + 1 \in Int /\ N + M \in Int
      BY <1>2
    <2> QED
      BY <1>3, <2>1, SubSeqProperties
  <1> HIDE DEF t
  <1>5. Len(t) = M
    BY <1>2, <1>4
  <1>6. \A p \in 1 .. M : t[p] = stream[N + p]
    <2> SUFFICES ASSUME NEW p \in 1 .. M PROVE t[p] = stream[N + p]
      OBVIOUS
    <2>1. p \in 1 .. (N + M) - (N + 1) + 1 /\ (N + 1) + p - 1 = N + p
      BY <1>2
    <2> QED
      BY <1>4, <2>1
  <1>7. DOMAIN t = 1 .. M
    BY <1>4, <1>5, LenProperties
  <1>8. t # <<>> <=> M # 0
    BY <1>4, <1>5, EmptySeq
  <1>9. Opens(t, rn + 1) <=> /\ M # 0
                             /\ \A p \in 1 .. M : /\ stream[N + p].nonce = rn + 1
                                                  /\ stream[N + p].pos = p
                                                  /\ stream[N + p].size = M
    BY <1>5, <1>6, <1>7, <1>8 DEF Opens
  <1>10. PayloadOpens <=> rn + 1 # maxNoiseNonce /\ Opens(t, rn + 1)
    BY DEF PayloadOpens, t, N, M
  <1> QED
    BY <1>9, <1>10 DEF N, M

\* ReadPayload takes exactly the payload and returns the frame written next.
LEMMA PayloadTaken ==
  ASSUME TInv, NEW start, At(start), ReadPayload
  PROVE  LET i == Len(delivered) + 1
         IN  Received = written[i] /\ PayloadSize = written[i].len + MacLen
  <1> DEFINE i == Len(delivered) + 1
             m == header.len + MacLen
  <1>1. rpc = "payload" /\ Readable(PayloadSize) /\ Accepts(PayloadSize)
    BY DEF ReadPayload
  <1>2. PayloadSize \in Nat \ {0} /\ Received = [id |-> stream[1].frame.id, len |-> header.len]
    BY <1>1, ReceivedType
  <1>3. /\ header = written[i] /\ header \in Frames
        /\ \A q \in 1 .. m : q <= Len(stream) => IsByte(stream[q], "payload", header, q, m)
    BY <1>1, PayloadFound
  <1>4. m \in Nat \ {0}
    BY <1>3, SizeTypes
  <1>5. Len(stream) \in Nat /\ Len(stream) >= PayloadSize
    BY <1>1, LenProperties DEF TInv, Readable
  <1> HIDE DEF i, m
  <1>6. 1 \in 1 .. m /\ 1 <= Len(stream) /\ 1 \in 1 .. PayloadSize
    BY <1>2, <1>4, <1>5
  <1>7. stream[1].frame = header /\ stream[1].size = m
    BY <1>3, <1>6 DEF IsByte
  <1>8. stream[1].size = PayloadSize
    BY <1>1, <1>2, <1>6, OpenedBlock DEF Accepts
  <1>9. Received = header
    BY <1>2, <1>3, <1>7, FrameTypes
  <1> QED
    BY <1>3, <1>7, <1>8, <1>9 DEF i, m

\* DecryptFrame takes exactly a header and its payload.
LEMMA SliceTaken ==
  ASSUME TInv, NEW start, At(start), DecryptFrame
  PROVE  LET i == Len(delivered) + 1
         IN  /\ SliceHeader = written[i] /\ i \in 1 .. Len(written) /\ start[i] = 0
             /\ NoiseHeaderSize + SlicePayload = FrameSize(written[i])
  <1> DEFINE i == Len(delivered) + 1
             m == SliceHeader.len + MacLen
  <1>1. rpc = "header" /\ Readable(NoiseHeaderSize) /\ Readable(NoiseHeaderSize + SlicePayload) /\ PayloadOpens
    BY DEF DecryptFrame, HeaderOpens
  <1>2. SliceHeader \in Frames /\ SlicePayload \in Nat
    BY <1>1, HeaderType
  <1>3. SliceHeader = written[i] /\ i \in 1 .. Len(written) /\ start[i] = 0
    BY <1>1, HeaderFound
  <1>4. \A q \in 1 .. m : NoiseHeaderSize + q <= Len(stream) =>
          IsByte(stream[NoiseHeaderSize + q], "payload", SliceHeader, q, m)
    BY <1>1, SliceFound
  <1>5. m \in Nat \ {0}
    BY <1>2, SizeTypes
  <1>6. SlicePayload # 0 /\ \A p \in 1 .. SlicePayload : stream[NoiseHeaderSize + p].size = SlicePayload
    BY <1>1, OpenedSlice
  <1>7. Len(stream) \in Nat /\ Len(stream) >= NoiseHeaderSize + SlicePayload
    BY <1>1, LenProperties DEF TInv, Readable
  <1> HIDE DEF i, m
  <1>8. 1 \in 1 .. m /\ 1 \in 1 .. SlicePayload /\ NoiseHeaderSize + 1 <= Len(stream)
    BY <1>2, <1>5, <1>6, <1>7, HeaderSize
  <1>9. SlicePayload = m
    BY <1>4, <1>6, <1>8 DEF IsByte
  <1> QED
    BY <1>3, <1>9 DEF FrameSize, i, m

\* The writers' steps that write nothing, and a slice that is cut short.
LEMMA StreamQuiet ==
  ASSUME StreamInv, UNCHANGED <<stream, closed, rpc, header, delivered, written>>,
         overlapped => overlapped'
  PROVE  StreamInv'
  <1> SUFFICES ASSUME rpc' # "stopped"
               PROVE  \E start : /\ Layout(start, stream', written', closed', overlapped')
                                 /\ Position(start, rpc', header', Len(delivered'), written')
    BY DEF StreamInv
  <1>1. PICK start : /\ Layout(start, stream, written, closed, overlapped)
                     /\ Position(start, rpc, header, Len(delivered), written)
    BY DEF StreamInv
  <1>2. Layout(start, stream, written, closed, overlapped')
    BY <1>1, LayoutMixed
  <1> QED
    BY <1>1, <1>2

LEMMA StreamWrite ==
  ASSUME TInv, StreamInv, SenderInv, NEW w \in Writers, Write(w)
  PROVE  StreamInv'
  <1> SUFFICES ASSUME rpc # "stopped"
               PROVE  \E start : /\ Layout(start, stream', written', closed', overlapped')
                                 /\ Position(start, rpc', header', Len(delivered'), written')
    BY DEF StreamInv, Write, rvars
  <1> DEFINE K == Len(written)
             k == Len(delivered)
             f == frame[w]
             hn == hnonce[w]
             pn == pnonce[w]
  <1>1. PICK start : At(start)
    BY DEF StreamInv, At
  <1>2. stream \in Seq(Bytes) /\ written \in Seq(Frames) /\ f \in Frames /\ hn \in Nat /\ pn \in Nat
    BY DEF TInv, TypeOK, Write
  <1>3. closed = FALSE /\ UNCHANGED <<closed, overlapped, rpc, header, delivered>>
        /\ stream' = stream \o EncryptFrame(f, hn, pn) /\ written' = Append(written, f)
    BY DEF Write, rvars, TInv, TypeOK
  <1>4. overlapped \/ (hn = 2 * K /\ pn = 2 * K + 1)
    BY <1>3 DEF SenderInv, Write
  <1>5. Layout(start, stream, written, FALSE, overlapped)
    BY <1>1, <1>3 DEF At
  <1> DEFINE new == [start EXCEPT ![K + 2] = Len(stream) + FrameSize(f)]
  <1> HIDE DEF f, hn, pn
  <1>6. Layout(new, stream', written', FALSE, overlapped)
    BY <1>2, <1>3, <1>4, <1>5, LayoutWrite
  <1>7. K \in Nat /\ Len(written') = K + 1 /\ \A j \in 1 .. K : written'[j] = written[j]
    BY <1>2, <1>3, AppendProperties, LenProperties
  <1>8. /\ k \in 0 .. K
        /\ rpc = "header" => start[k + 1] = 0
        /\ rpc = "payload" => k < K /\ header = written[k + 1] /\ start[k + 1] = - NoiseHeaderSize
    BY <1>1 DEF At, Position
  <1>9. k + 1 # K + 2 /\ k + 1 \in Nat /\ k \in 0 .. K + 1 /\ (k < K => k < K + 1 /\ k + 1 \in 1 .. K)
    BY <1>7, <1>8
  <1>10. new[k + 1] = start[k + 1]
    BY <1>5, <1>9 DEF Layout, Chain
  <1> HIDE DEF new
  <1>11. Position(new, rpc, header, k, written')
    BY <1>7, <1>8, <1>9, <1>10 DEF Position
  <1> QED
    BY <1>3, <1>6, <1>11

LEMMA StreamBreak ==
  ASSUME TInv, StreamInv, NEW kept \in 0 .. Len(stream), Break(kept)
  PROVE  StreamInv'
  <1> SUFFICES ASSUME rpc # "stopped"
               PROVE  \E start : /\ Layout(start, stream', written', closed', overlapped')
                                 /\ Position(start, rpc', header', Len(delivered'), written')
    BY DEF StreamInv, Break, rvars
  <1>1. PICK start : At(start)
    BY DEF StreamInv, At
  <1>2. stream \in Seq(Bytes) /\ written \in Seq(Frames)
    BY DEF TInv, TypeOK
  <1>3. closed' = TRUE /\ stream' = SubSeq(stream, 1, kept)
        /\ UNCHANGED <<written, overlapped, rpc, header, delivered>>
    BY DEF Break, wvars, rvars
  <1>4. Layout(start, stream', written, TRUE, overlapped)
    BY <1>1, <1>2, <1>3, LayoutCut DEF At
  <1>5. Position(start, rpc, header, Len(delivered), written)
    BY <1>1 DEF At
  <1> QED
    BY <1>3, <1>4, <1>5

\* Reading m bytes moves every frame m bytes nearer.
LEMMA StreamRead ==
  ASSUME TInv, NEW start, At(start), NEW m \in Nat, Readable(m),
         stream' = SubSeq(stream, m + 1, Len(stream)),
         UNCHANGED <<written, closed, overlapped>>,
         Position([i \in Nat |-> start[i] - m], rpc', header', Len(delivered'), written)
  PROVE  StreamInv'
  <1>1. stream \in Seq(Bytes) /\ written \in Seq(Frames) /\ m \in 0 .. Len(stream)
    BY BlockProperties DEF TInv, TypeOK
  <1>2. Layout([i \in Nat |-> start[i] - m], stream', written', closed', overlapped')
    BY <1>1, LayoutConsume DEF At
  <1> QED
    BY <1>2 DEF StreamInv

LEMMA StreamReadHeader ==
  ASSUME TInv, StreamInv, ReadHeader
  PROVE  StreamInv'
  <1>1. PICK start : At(start)
    BY DEF StreamInv, At, ReadHeader
  <1> DEFINE k == Len(delivered)
             i == k + 1
             m == NoiseHeaderSize
             new == [j \in Nat |-> start[j] - m]
  <1>2. i \in 1 .. Len(written) /\ start[i] = 0 /\ SliceHeader = written[i]
    BY <1>1, HeaderFound DEF ReadHeader
  <1>3. k \in 0 .. Len(written)
    BY <1>1 DEF At, Position
  <1>4. Len(written) \in Nat
    BY LenProperties DEF TInv, TypeOK
  <1>5. header' = written[i] /\ rpc' = "payload" /\ delivered' = delivered
    BY <1>2 DEF ReadHeader, SliceHeader
  <1>6. new[i] = - m /\ k < Len(written)
    BY <1>2, <1>3, <1>4, HeaderSize
  <1>7. Position(new, rpc', header', Len(delivered'), written)
    BY <1>3, <1>5, <1>6 DEF Position
  <1> QED
    BY <1>1, <1>7, StreamRead, HeaderSize DEF ReadHeader, wvars

\* Where the reader is after it has returned a frame.
LEMMA FrameTaken ==
  ASSUME TInv, NEW start, At(start), NEW m \in Int, NEW h,
         Len(delivered) + 1 \in 1 .. Len(written),
         start[Len(delivered) + 1] + FrameSize(written[Len(delivered) + 1]) = m
  PROVE  Position([j \in Nat |-> start[j] - m], "header", h, Len(delivered) + 1, written)
  <1> DEFINE i == Len(delivered) + 1
  <1>1. Len(written) \in Nat /\ i \in 1 .. Len(written)
    BY LenProperties DEF TInv, TypeOK
  <1>2. start[i + 1] = start[i] + FrameSize(written[i])
    BY <1>1 DEF At, Layout, Chain
  <1> HIDE DEF i
  <1>3. i + 1 \in Nat /\ i \in 0 .. Len(written)
    BY <1>1
  <1>4. start[i + 1] = m
    BY <1>2 DEF i
  <1>5. [j \in Nat |-> start[j] - m][i + 1] = 0
    BY <1>3, <1>4
  <1>6. Position([j \in Nat |-> start[j] - m], "header", h, i, written)
    BY <1>3, <1>5 DEF Position
  <1> QED
    BY <1>6 DEF i

LEMMA StreamReadPayload ==
  ASSUME TInv, StreamInv, ReadPayload
  PROVE  StreamInv'
  <1>1. PICK start : At(start)
    BY DEF StreamInv, At, ReadPayload
  <1> DEFINE i == Len(delivered) + 1
             m == PayloadSize
             l == written[i].len + MacLen
  <1>2. i \in 1 .. Len(written) /\ start[i] = - NoiseHeaderSize /\ written[i] \in Frames
    BY <1>1, PayloadFound DEF ReadPayload
  <1>3. m = l
    BY <1>1, PayloadTaken
  <1>4. FrameSize(written[i]) = NoiseHeaderSize + l /\ l \in Nat
    BY <1>2, SizeTypes
  <1> HIDE DEF m, l
  <1>5. start[i] + FrameSize(written[i]) = m /\ m \in Nat
    BY <1>2, <1>3, <1>4, HeaderSize
  <1>6. Position([j \in Nat |-> start[j] - m], "header", header', i, written)
    BY <1>1, <1>2, <1>5, FrameTaken
  <1>7. Received \in Frames
    BY ReceivedType DEF ReadPayload
  <1>8. rpc' = "header" /\ Len(delivered') = i
    BY <1>7, AppendProperties DEF ReadPayload, TInv, TypeOK
  <1>9. Readable(m) /\ stream' = SubSeq(stream, m + 1, Len(stream)) /\ UNCHANGED <<written, closed, overlapped>>
    BY DEF ReadPayload, wvars, m
  <1> HIDE DEF i
  <1> QED
    BY <1>1, <1>5, <1>6, <1>8, <1>9, StreamRead

LEMMA StreamDecryptFrame ==
  ASSUME TInv, StreamInv, DecryptFrame
  PROVE  StreamInv'
  <1>0. rpc = "header"
    BY DEF DecryptFrame, HeaderOpens
  <1>1. PICK start : At(start)
    BY <1>0 DEF StreamInv, At
  <1> DEFINE i == Len(delivered) + 1
             m == NoiseHeaderSize + SlicePayload
  <1>2. i \in 1 .. Len(written) /\ start[i] = 0 /\ SliceHeader = written[i] /\ m = FrameSize(written[i])
    BY <1>1, SliceTaken
  <1>3. SliceHeader \in Frames
    BY HeaderType DEF DecryptFrame, HeaderOpens
  <1>4. FrameSize(written[i]) \in Nat
    BY <1>2, <1>3, SizeTypes
  <1>5. Readable(m) /\ stream' = SubSeq(stream, m + 1, Len(stream)) /\ UNCHANGED <<written, closed, overlapped>>
    BY DEF DecryptFrame, wvars
  <1>6. rpc' = "header" /\ Len(delivered') = i
    BY <1>0, <1>3, AppendProperties DEF DecryptFrame, TInv, TypeOK
  <1> HIDE DEF m
  <1>7. start[i] + FrameSize(written[i]) = m /\ m \in Nat
    BY <1>2, <1>4
  <1>8. Position([j \in Nat |-> start[j] - m], "header", header', i, written)
    BY <1>1, <1>2, <1>7, FrameTaken
  <1> HIDE DEF i
  <1> QED
    BY <1>1, <1>5, <1>6, <1>7, <1>8, StreamRead

-----------------------------------------------------------------------------
(* The nonces of both sides *)

LEMMA SenderTypes ==
  ASSUME TInv
  PROVE  n \in Nat /\ Len(written) \in Nat /\ wpc \in [Writers -> {"idle", "header", "payload", "write"}]
         /\ hnonce \in [Writers -> Nat] /\ pnonce \in [Writers -> Nat]
  <1>1. n \in Nat
    BY Counters, Naturals
  <1>2. Len(written) \in Nat
    BY LenProperties DEF TInv, TypeOK
  <1> QED
    BY <1>1, <1>2 DEF TInv, TypeOK

LEMMA SenderQuiet ==
  ASSUME SenderInv,
         UNCHANGED <<n, wpc, hnonce, pnonce, overlapped, written, maxNoiseNonce>>, closed => closed'
  PROVE  SenderInv'
  BY DEF SenderInv, Active

LEMMA SenderEncode ==
  ASSUME TInv, SenderInv, NEW w \in Writers, NEW len \in Lengths, Encode(w, len), maxNoiseNonce' = maxNoiseNonce
  PROVE  SenderInv'
  <1>1. \A v \in Writers : wpc'[v] = wpc[v] \/ (wpc[v] = "idle" /\ wpc'[v] = "header")
    BY SenderTypes DEF Encode
  <1>2. Active' = Active
    BY <1>1 DEF Active
  <1> QED
    BY <1>1, <1>2 DEF Encode, SenderInv

LEMMA SenderEncryptHeader ==
  ASSUME TInv, SenderInv, NEW w \in Writers, EncryptHeader(w), maxNoiseNonce' = maxNoiseNonce
  PROVE  SenderInv'
  <1> SUFFICES ASSUME ~ overlapped' PROVE SenderInv'
    BY DEF SenderInv
  <1> DEFINE L == 2 * Len(written)
  <1>1. ~ overlapped /\ Active = {}
    BY DEF EncryptHeader, Active
  <1>2. L <= n /\ (~ closed => n = L)
    BY <1>1 DEF SenderInv, EncryptHeader
  <1>3. n \in Nat /\ L \in Nat
    BY SenderTypes
  <1>4. UNCHANGED <<written, closed>> /\ n' = n + 1 /\ hnonce'[w] = n
    BY SenderTypes DEF EncryptHeader
  <1>5. \A v \in Writers : wpc'[v] \in {"payload", "write"} => v = w /\ wpc'[v] = "payload"
    BY <1>1, SenderTypes DEF EncryptHeader, Active
  <1>6. Active' = {w}
    BY <1>5, SenderTypes DEF EncryptHeader, Active
  <1> HIDE DEF L
  <1>7. L <= n' /\ (~ closed => n' = L + 1)
    BY <1>2, <1>3, <1>4
  <1>8. 2 * Len(written') = L
    BY <1>4 DEF L
  <1>9. ~ closed' => \A v \in Writers :
           /\ wpc'[v] = "payload" => n' = 2 * Len(written') + 1 /\ hnonce'[v] = 2 * Len(written')
           /\ wpc'[v] # "write"
    BY <1>2, <1>4, <1>5, <1>7, <1>8
  <1> QED
    BY <1>6, <1>7, <1>8, <1>9 DEF SenderInv

LEMMA SenderEncryptPayload ==
  ASSUME TInv, SenderInv, NEW w \in Writers, EncryptPayload(w), maxNoiseNonce' = maxNoiseNonce
  PROVE  SenderInv'
  <1> SUFFICES ASSUME ~ overlapped PROVE SenderInv'
    BY DEF SenderInv, EncryptPayload
  <1> DEFINE L == 2 * Len(written)
  <1>1. w \in Active /\ \A v \in Active : v = w
    BY DEF SenderInv, EncryptPayload, Active
  <1>2. L <= n /\ (~ closed => n = L + 1 /\ hnonce[w] = L)
    BY DEF SenderInv, EncryptPayload
  <1>3. n \in Nat /\ L \in Nat
    BY SenderTypes
  <1>4. UNCHANGED <<written, closed, hnonce>> /\ n' = n + 1 /\ pnonce'[w] = n
    BY SenderTypes DEF EncryptPayload
  <1>5. \A v \in Writers : wpc'[v] \in {"payload", "write"} => v = w /\ wpc'[v] = "write"
    BY <1>1, SenderTypes DEF EncryptPayload, Active
  <1>6. Active' = {w}
    BY <1>5, SenderTypes DEF EncryptPayload, Active
  <1> HIDE DEF L
  <1>7. L <= n' /\ (~ closed => n' = L + 2 /\ pnonce'[w] = L + 1 /\ hnonce'[w] = L)
    BY <1>2, <1>3, <1>4
  <1>8. 2 * Len(written') = L
    BY <1>4 DEF L
  <1>9. ~ closed' => \A v \in Writers :
           /\ wpc'[v] # "payload"
           /\ wpc'[v] = "write" => /\ n' = 2 * Len(written') + 2
                                   /\ hnonce'[v] = 2 * Len(written')
                                   /\ pnonce'[v] = 2 * Len(written') + 1
    BY <1>4, <1>5, <1>7, <1>8
  <1> QED
    BY <1>6, <1>7, <1>8, <1>9 DEF SenderInv

\* The call returns with an error: the nonces are used up, or the connection
\* has broken.
LEMMA SenderReturn ==
  ASSUME TInv, SenderInv, NEW w \in Writers, wpc[w] # "idle", Return(w),
         n = maxNoiseNonce \/ closed, UNCHANGED <<n, overlapped, closed, written, maxNoiseNonce>>
  PROVE  SenderInv'
  <1>1. \A v \in Writers : wpc'[v] = IF v = w THEN "idle" ELSE wpc[v]
    BY SenderTypes DEF Return
  <1>2. \A v \in Writers : v # w => hnonce'[v] = hnonce[v] /\ pnonce'[v] = pnonce[v]
    BY SenderTypes DEF Return
  <1>3. Active' \subseteq Active
    BY <1>1 DEF Active
  <1> QED
    BY <1>1, <1>2, <1>3 DEF SenderInv

LEMMA SenderWrite ==
  ASSUME TInv, SenderInv, NEW w \in Writers, Write(w), maxNoiseNonce' = maxNoiseNonce
  PROVE  SenderInv'
  <1> SUFFICES ASSUME ~ overlapped PROVE SenderInv'
    BY DEF SenderInv, Write
  <1>1. w \in Active /\ \A v \in Active : v = w
    BY DEF SenderInv, Write, Active
  <1>2. n = 2 * Len(written) + 2
    BY DEF SenderInv, Write
  <1>3. frame[w] \in Frames /\ Len(written) \in Nat
    BY SenderTypes DEF Write, TInv
  <1>4. Len(written') = Len(written) + 1
    <2>1. written \in Seq(Frames) /\ written' = Append(written, frame[w])
      BY DEF Write, TInv, TypeOK
    <2> QED
      BY <1>3, <2>1, AppendProperties
  <1>5. 2 * Len(written') = n /\ n' = n /\ n \in Nat
    BY <1>2, <1>3, <1>4, SenderTypes DEF Write
  <1>6. \A v \in Writers : wpc'[v] \notin {"payload", "write"}
    BY <1>1, SenderTypes DEF Write, Return, Active
  <1>7. Active' = {}
    BY <1>6 DEF Active
  <1>8. 2 * Len(written') <= n'
    BY <1>5
  <1> QED
    BY <1>5, <1>6, <1>7, <1>8 DEF SenderInv

LEMMA StepSenderInv ==
  ASSUME TInv, SenderInv, Next
  PROVE  SenderInv'
  <1>1. CASE Reader \/ Slices
    <2>1. UNCHANGED <<maxNoiseNonce, wvars, closed, written>>
      BY <1>1 DEF Reader, Slices, ReadHeader, ReadPayload, RejectHeader, RejectPayload, Reject,
                  HeaderEnded, PayloadEnded, Ended, DecryptFrame, DecryptFrameShort, DecryptFrameFails
    <2> QED
      BY <2>1, SenderQuiet DEF wvars
  <1>2. CASE \E kept \in 0 .. Len(stream) : Break(kept)
    BY <1>2, SenderQuiet DEF Break, wvars
  <1>3. ASSUME NEW w \in Writers, Writer(w) PROVE SenderInv'
    <2>1. maxNoiseNonce' = maxNoiseNonce
      BY <1>3 DEF Writer
    <2>2. CASE Exhausted(w) \/ WriteFails(w)
      BY <2>1, <2>2, SenderReturn DEF Exhausted, WriteFails
    <2> QED
      BY <1>3, <2>1, <2>2, SenderEncode, SenderEncryptHeader, SenderEncryptPayload, SenderWrite DEF Writer
  <1> QED
    BY <1>1, <1>2, <1>3 DEF Next

LEMMA StepReaderInv ==
  ASSUME TInv, ReaderInv, Next
  PROVE  ReaderInv'
  <1> DEFINE k == Len(delivered)
  <1>0. k \in Nat /\ rn \in Nat
    <2>1. k \in Nat
      BY LenProperties DEF TInv, TypeOK
    <2> QED
      BY <2>1, Counters, Naturals
  <1>1. CASE UNCHANGED rvars
    BY <1>1 DEF rvars, ReaderInv
  <1>2. CASE rpc' = "stopped"
    BY <1>2 DEF ReaderInv
  <1>3. CASE ReadHeader
    <2>1. rpc' = "payload" /\ rn' = rn + 1 /\ rpc = "header" /\ UNCHANGED <<cutShort, delivered>>
      BY <1>3 DEF ReadHeader
    <2> QED
      BY <1>0, <2>1 DEF ReaderInv
  <1>4. CASE ReadPayload
    <2>1. rpc' = "header" /\ rn' = rn + 1 /\ rpc = "payload" /\ UNCHANGED cutShort
      BY <1>4 DEF ReadPayload
    <2>2. Received \in Frames
      BY <1>4, ReceivedType DEF ReadPayload
    <2>3. Len(delivered') = k + 1
      BY <1>4, <2>2, AppendProperties DEF ReadPayload, TInv, TypeOK
    <2>4. ~ cutShort => rn = 2 * k + 1
      BY <2>1 DEF ReaderInv
    <2>5. rn = 2 * k + 1 => rn' = 2 * Len(delivered')
      BY <1>0, <2>1, <2>3
    <2> QED
      BY <2>1, <2>4, <2>5 DEF ReaderInv
  <1>5. CASE DecryptFrame
    <2>1. rpc = "header" /\ rpc' = "header" /\ rn' = rn + 2 /\ UNCHANGED cutShort
      BY <1>5 DEF DecryptFrame, HeaderOpens
    <2>2. SliceHeader \in Frames
      BY <1>5, HeaderType DEF DecryptFrame, HeaderOpens
    <2>3. Len(delivered') = k + 1
      BY <1>5, <2>2, AppendProperties DEF DecryptFrame, TInv, TypeOK
    <2>4. ~ cutShort => rn = 2 * k
      BY <2>1 DEF ReaderInv
    <2>5. rn = 2 * k => rn' = 2 * Len(delivered')
      BY <1>0, <2>1, <2>3
    <2> QED
      BY <2>1, <2>4, <2>5 DEF ReaderInv
  <1>6. CASE DecryptFrameShort
    BY <1>6 DEF DecryptFrameShort, ReaderInv
  <1>7. ASSUME NEW w \in Writers, Writer(w) PROVE UNCHANGED rvars
    BY <1>7 DEF Writer, Encode, EncryptHeader, EncryptPayload, Exhausted, Write, WriteFails
  <1>8. (\E kept \in 0 .. Len(stream) : Break(kept)) => UNCHANGED rvars
    BY DEF Break
  <1>9. RejectHeader \/ RejectPayload \/ HeaderEnded \/ PayloadEnded \/ DecryptFrameFails => rpc' = "stopped"
    BY DEF RejectHeader, RejectPayload, Reject, HeaderEnded, PayloadEnded, Ended, DecryptFrameFails, Stop
  <1> QED
    BY <1>1, <1>2, <1>3, <1>4, <1>5, <1>6, <1>7, <1>8, <1>9 DEF Next, Reader, Slices

LEMMA StepStreamInv ==
  ASSUME TInv, StreamInv, SenderInv, Next
  PROVE  StreamInv'
  <1>1. CASE rpc' = "stopped"
    BY <1>1 DEF StreamInv
  <1>2. ASSUME NEW w \in Writers, Writer(w) PROVE StreamInv'
    <2>1. CASE Write(w)
      BY <2>1, StreamWrite
    <2>2. CASE ~ Write(w)
      <3>1. UNCHANGED <<stream, closed, rvars, written>> /\ (overlapped => overlapped')
        <4>1. CASE EncryptHeader(w)
          BY <4>1 DEF EncryptHeader
        <4>2. CASE ~ EncryptHeader(w)
          BY <1>2, <2>2, <4>2 DEF Writer, Encode, EncryptPayload, Exhausted, WriteFails
        <4> QED
          BY <4>1, <4>2
      <3> QED
        BY <3>1, StreamQuiet DEF rvars
    <2> QED
      BY <2>1, <2>2
  <1>3. CASE \E kept \in 0 .. Len(stream) : Break(kept)
    BY <1>3, StreamBreak
  <1>4. CASE ReadHeader \/ ReadPayload \/ DecryptFrame
    BY <1>4, StreamReadHeader, StreamReadPayload, StreamDecryptFrame
  <1>5. CASE DecryptFrameShort
    BY <1>5, StreamQuiet DEF DecryptFrameShort, wvars
  <1>6. RejectHeader \/ RejectPayload \/ HeaderEnded \/ PayloadEnded \/ DecryptFrameFails => rpc' = "stopped"
    BY DEF RejectHeader, RejectPayload, Reject, HeaderEnded, PayloadEnded, Ended, DecryptFrameFails, Stop
  <1> QED
    BY <1>1, <1>2, <1>3, <1>4, <1>5, <1>6 DEF Next, Reader, Slices

-----------------------------------------------------------------------------
(* Nothing is rejected without a reason *)

\* Nothing has gone wrong yet.
InStep == ~ overlapped /\ ~ cutShort /\ AllFit(Len(written))

\* The nonces for the next frame's header and payload are below the limit.
LEMMA NoncesLeft ==
  ASSUME TInv, SenderInv, ~ overlapped, NEW i \in 1 .. Len(written)
  PROVE  2 * (i - 1) # maxNoiseNonce /\ 2 * i - 1 # maxNoiseNonce
  <1> DEFINE L == Len(written)
  <1>1. L \in Nat /\ n \in Nat /\ 2 * L <= n
    BY SenderTypes DEF SenderInv
  <1>2. maxNoiseNonce \in Nat /\ n \in 0 .. maxNoiseNonce
    BY Counters
  <1>3. i \in 1 .. L
    OBVIOUS
  <1> HIDE DEF L
  <1> QED
    BY <1>1, <1>2, <1>3

LEMMA HeaderAccepted ==
  ASSUME TInv, StreamInv, SenderInv, ReaderInv, InStep, rpc = "header", Readable(NoiseHeaderSize)
  PROVE  Accepts(NoiseHeaderSize)
  <1> DEFINE k == Len(delivered)
             i == k + 1
  <1>1. PICK start : At(start)
    BY DEF StreamInv, At
  <1>2. /\ i \in 1 .. Len(written)
        /\ \A p \in 1 .. NoiseHeaderSize :
             /\ IsByte(stream[p], "header", written[i], p, NoiseHeaderSize)
             /\ overlapped \/ stream[p].nonce = 2 * (i - 1)
    BY <1>1, HeaderFound
  <1>3. rn = 2 * k /\ k \in Nat
    BY LenProperties DEF ReaderInv, InStep, TInv, TypeOK
  <1>4. rn = 2 * (i - 1)
    BY <1>3
  <1> HIDE DEF i
  <1>5. rn # maxNoiseNonce
    BY <1>2, <1>4, NoncesLeft DEF InStep
  <1>6. Opens(Block(NoiseHeaderSize), rn)
    BY <1>2, <1>4, OpenedBlock, HeaderSize DEF IsByte, InStep
  <1> QED
    BY <1>5, <1>6 DEF Accepts

LEMMA FitsAsExpected ==
  ASSUME TInv, AllFit(Len(written)), NEW i \in 1 .. Len(written)
  PROVE  PlainTextLenToCipherTextLen(written[i].len) = written[i].len + MacLen
  BY CipherTextLenFits DEF AllFit, Fits

LEMMA PayloadAccepted ==
  ASSUME TInv, StreamInv, SenderInv, ReaderInv, InStep, rpc = "payload", Readable(PayloadSize)
  PROVE  Accepts(PayloadSize)
  <1> DEFINE k == Len(delivered)
             i == k + 1
             m == header.len + MacLen
  <1>1. PICK start : At(start)
    BY DEF StreamInv, At
  <1>2. /\ i \in 1 .. Len(written) /\ header = written[i] /\ header \in Frames
        /\ \A q \in 1 .. m : q <= Len(stream) =>
             /\ IsByte(stream[q], "payload", header, q, m)
             /\ overlapped \/ stream[q].nonce = 2 * i - 1
    BY <1>1, PayloadFound
  <1>3. rn = 2 * k + 1 /\ k \in Nat
    BY LenProperties DEF ReaderInv, InStep, TInv, TypeOK
  <1>4. rn = 2 * i - 1
    BY <1>3
  <1> HIDE DEF i
  <1>5. PayloadSize = m /\ m \in Nat \ {0}
    BY <1>2, FitsAsExpected, SizeTypes DEF PayloadSize, InStep
  <1>6. rn # maxNoiseNonce
    BY <1>2, <1>4, NoncesLeft DEF InStep
  <1>7. Len(stream) \in Nat /\ m <= Len(stream)
    BY <1>5, LenProperties DEF Readable, TInv
  <1> HIDE DEF m
  <1>8. \A q \in 1 .. m : q <= Len(stream)
    BY <1>5, <1>7
  <1>9. Opens(Block(m), rn)
    BY <1>2, <1>4, <1>5, <1>8, OpenedBlock DEF IsByte, InStep
  <1> QED
    BY <1>5, <1>6, <1>9 DEF Accepts

LEMMA SliceAccepted ==
  ASSUME TInv, StreamInv, SenderInv, ReaderInv, InStep, rpc = "header",
         Readable(NoiseHeaderSize), Readable(NoiseHeaderSize + SlicePayload)
  PROVE  PayloadOpens
  <1> DEFINE k == Len(delivered)
             i == k + 1
             m == SliceHeader.len + MacLen
  <1>1. PICK start : At(start)
    BY DEF StreamInv, At
  <1>2. i \in 1 .. Len(written) /\ SliceHeader = written[i] /\ SliceHeader \in Frames
    BY <1>1, HeaderFound, HeaderType
  <1>3. \A q \in 1 .. m : NoiseHeaderSize + q <= Len(stream) =>
          /\ IsByte(stream[NoiseHeaderSize + q], "payload", SliceHeader, q, m)
          /\ overlapped \/ stream[NoiseHeaderSize + q].nonce = 2 * i - 1
    BY <1>1, SliceFound
  <1>4. rn = 2 * k /\ k \in Nat
    BY LenProperties DEF ReaderInv, InStep, TInv, TypeOK
  <1>5. rn + 1 = 2 * i - 1
    BY <1>4
  <1> HIDE DEF i
  <1>6. SlicePayload = m /\ m \in Nat \ {0}
    BY <1>2, FitsAsExpected, SizeTypes DEF SlicePayload, InStep
  <1>7. rn + 1 # maxNoiseNonce
    BY <1>2, <1>5, NoncesLeft DEF InStep
  <1>8. Len(stream) \in Nat /\ NoiseHeaderSize + m <= Len(stream)
    BY <1>6, LenProperties DEF Readable, TInv
  <1> HIDE DEF m
  <1>9. \A q \in 1 .. m : NoiseHeaderSize + q <= Len(stream)
    BY <1>6, <1>8, HeaderSize
  <1>10. m # 0 /\ \A q \in 1 .. m : /\ stream[NoiseHeaderSize + q].nonce = rn + 1
                                    /\ stream[NoiseHeaderSize + q].pos = q
                                    /\ stream[NoiseHeaderSize + q].size = m
    BY <1>3, <1>5, <1>6, <1>9 DEF IsByte, InStep
  <1> QED
    BY <1>6, <1>7, <1>10, OpenedSlice

\* What has gone wrong stays wrong.
LEMMA OutOfStepStays ==
  ASSUME TInv, ~ InStep, Next
  PROVE  ~ InStep'
  <1>1. CASE overlapped \/ cutShort
    <2>1. (overlapped => overlapped') /\ (cutShort => cutShort')
      <3>1. ASSUME NEW w \in Writers, Writer(w) PROVE (overlapped => overlapped') /\ UNCHANGED cutShort
        <4>1. CASE EncryptHeader(w)
          BY <4>1 DEF EncryptHeader, rvars
        <4>2. CASE ~ EncryptHeader(w)
          BY <3>1, <4>2 DEF Writer, Encode, EncryptPayload, Exhausted, Write, WriteFails, rvars
        <4> QED
          BY <4>1, <4>2
      <3>2. Reader \/ Slices => UNCHANGED overlapped /\ (cutShort => cutShort')
        <4>1. DecryptFrameShort => UNCHANGED overlapped /\ cutShort'
          BY DEF DecryptFrameShort, wvars
        <4>2. (Reader \/ Slices) /\ ~ DecryptFrameShort => UNCHANGED <<overlapped, cutShort>>
          BY DEF Reader, Slices, ReadHeader, ReadPayload, RejectHeader, RejectPayload, Reject, Stop,
                 HeaderEnded, PayloadEnded, Ended, DecryptFrame, DecryptFrameFails, wvars
        <4> QED
          BY <4>1, <4>2
      <3>3. (\E kept \in 0 .. Len(stream) : Break(kept)) => UNCHANGED <<overlapped, cutShort>>
        BY DEF Break, wvars, rvars
      <3> QED
        BY <3>1, <3>2, <3>3 DEF Next
    <2> QED
      BY <1>1, <2>1 DEF InStep
  <1>2. CASE ~ AllFit(Len(written))
    <2>1. PICK i \in 1 .. Len(written) : ~ Fits(written[i])
      BY <1>2 DEF AllFit
    <2>2. i \in 1 .. Len(written') /\ written'[i] = written[i]
      <3>1. CASE written' = written
        BY <3>1
      <3>2. ASSUME NEW w \in Writers, Write(w) PROVE i \in 1 .. Len(written') /\ written'[i] = written[i]
        <4>1. written \in Seq(Frames) /\ frame[w] \in Frames /\ written' = Append(written, frame[w])
          BY <3>2 DEF TInv, TypeOK, Write
        <4>2. Len(written') = Len(written) + 1 /\ \A j \in 1 .. Len(written) : written'[j] = written[j]
          BY <4>1, AppendProperties
        <4>3. Len(written) \in Nat
          BY <4>1, LenProperties
        <4> QED
          BY <2>1, <4>2, <4>3
      <3>3. ASSUME NEW w \in Writers, Writer(w), ~ Write(w) PROVE written' = written
        BY <3>3 DEF Writer, Encode, EncryptHeader, EncryptPayload, Exhausted, WriteFails
      <3>4. Reader \/ Slices => written' = written
        BY DEF Reader, Slices, ReadHeader, ReadPayload, RejectHeader, RejectPayload, Reject,
               HeaderEnded, PayloadEnded, Ended, DecryptFrame, DecryptFrameShort, DecryptFrameFails
      <3>5. (\E kept \in 0 .. Len(stream) : Break(kept)) => written' = written
        BY DEF Break
      <3> QED
        BY <3>1, <3>2, <3>3, <3>4, <3>5 DEF Next
    <2> QED
      BY <2>1, <2>2 DEF InStep, AllFit, Fits
  <1> QED
    BY <1>1, <1>2 DEF InStep

LEMMA StepNeverOutOfStep ==
  ASSUME TInv, StreamInv, SenderInv, ReaderInv, NeverOutOfStep, Next
  PROVE  NeverOutOfStep'
  <1>1. NeverOutOfStep <=> (rerr = "decrypt" => ~ InStep)
    BY DEF NeverOutOfStep, InStep
  <1>2. NeverOutOfStep' <=> (rerr' = "decrypt" => ~ InStep')
    BY DEF NeverOutOfStep, InStep
  <1>3. CASE ~ InStep
    BY <1>2, <1>3, OutOfStepStays
  <1>4. CASE InStep
    <2>1. rerr # "decrypt"
      BY <1>1, <1>4
    <2>2. ~ RejectHeader
      BY <1>4, HeaderAccepted DEF RejectHeader, Reject
    <2>3. ~ RejectPayload
      BY <1>4, PayloadAccepted DEF RejectPayload, Reject
    <2>4. ~ DecryptFrameFails
      BY <1>4, HeaderAccepted, SliceAccepted DEF DecryptFrameFails, HeaderOpens
    <2>5. rerr' # "decrypt"
      <3>1. ASSUME NEW w \in Writers, Writer(w) PROVE UNCHANGED rerr
        BY <3>1 DEF Writer, Encode, EncryptHeader, EncryptPayload, Exhausted, Write, WriteFails, rvars
      <3>2. ReadHeader \/ ReadPayload \/ DecryptFrame \/ DecryptFrameShort => UNCHANGED rerr
        BY DEF ReadHeader, ReadPayload, DecryptFrame, DecryptFrameShort
      <3>3. HeaderEnded \/ PayloadEnded => rerr' \in {"EOF", "unexpected EOF"}
        BY DEF HeaderEnded, PayloadEnded, Ended, Stop
      <3>4. (\E kept \in 0 .. Len(stream) : Break(kept)) => UNCHANGED rerr
        BY DEF Break, rvars
      <3> QED
        BY <2>1, <2>2, <2>3, <2>4, <3>1, <3>2, <3>3, <3>4 DEF Next, Reader, Slices
    <2> QED
      BY <1>2, <2>5
  <1> QED
    BY <1>3, <1>4

-----------------------------------------------------------------------------
(* The theorems *)

LEMMA InitIInv == Init => IInv
  <1> SUFFICES ASSUME Init PROVE IInv
    OBVIOUS
  <1> DEFINE start == [i \in Nat |-> 0]
  <1>1. Len(<<>>) = 0
    BY EmptySeq
  <1>2. written = <<>> /\ stream = <<>> /\ delivered = <<>> /\ rpc = "header"
        /\ Len(written) = 0 /\ Len(stream) = 0 /\ Len(delivered) = 0
    BY <1>1 DEF Init
  <1>3. \A i \in 1 .. Len(written) : FALSE
    BY <1>2
  <1>4. start \in [Nat -> Int] /\ start[0 + 1] = 0
    OBVIOUS
  <1> HIDE DEF start
  <1>5. Layout(start, stream, written, closed, overlapped)
    BY <1>2, <1>3, <1>4 DEF Layout, Chain, Ends, HeaderBytes, PayloadBytes
  <1>6. Position(start, rpc, header, Len(delivered), written)
    BY <1>2, <1>4 DEF Position
  <1>7. StreamInv
    BY <1>5, <1>6 DEF StreamInv
  <1>8. SenderInv
    <2>1. Active = {} /\ \A w \in Writers : wpc[w] = "idle"
      BY DEF Active, Init
    <2>2. n = 2 * Len(written) /\ 2 * Len(written) <= n
      BY <1>2 DEF Init
    <2> QED
      BY <2>1, <2>2 DEF SenderInv
  <1>9. ReaderInv
    BY <1>2 DEF ReaderInv, Init
  <1>10. NeverOutOfStep
    BY DEF NeverOutOfStep, Init
  <1> QED
    BY <1>7, <1>8, <1>9, <1>10, InitTInv DEF IInv

LEMMA NextIInv == IInv /\ [Next]_vars => IInv'
  <1> SUFFICES ASSUME IInv, [Next]_vars PROVE IInv'
    OBVIOUS
  <1>1. TInv'
    BY NextTInv DEF IInv
  <1>2. CASE Next
    BY <1>1, <1>2, StepStreamInv, StepSenderInv, StepReaderInv, StepNeverOutOfStep DEF IInv
  <1>3. CASE UNCHANGED vars
    <2>1. UNCHANGED <<n, wpc, hnonce, pnonce, overlapped, stream, closed, rn, rpc, header, rerr, cutShort,
                      delivered, written, maxNoiseNonce>>
      BY <1>3 DEF vars, wvars, rvars
    <2>2. StreamInv' /\ SenderInv'
      BY <2>1, StreamQuiet, SenderQuiet DEF IInv
    <2>3. ReaderInv' /\ NeverOutOfStep'
      BY <2>1 DEF IInv, ReaderInv, NeverOutOfStep, AllFit, Fits
    <2> QED
      BY <1>1, <2>2, <2>3 DEF IInv
  <1> QED
    BY <1>2, <1>3

LEMMA Inductive == Spec => []IInv
  BY InitIInv, NextIInv, PTL DEF Spec

\* A ciphertext that DecryptFrameFromReader cannot open is never the fault of
\* frames written one after the other, of nonces that run out between a header
\* and its payload or of a connection that breaks: two writers have overlapped,
\* a frame does not fit one chunk, or DecryptFrame was given part of a frame.
THEOREM RejectsOnlyForCause == Spec => []NeverOutOfStep
  <1>1. IInv => NeverOutOfStep
    BY DEF IInv
  <1> QED
    BY <1>1, Inductive, PTL

\* What the reader opens as a header was sealed as a header and what it opens
\* as a payload is the payload of that header, although nothing but their
\* order tells the ciphertexts apart, whatever the writers interleave.
THEOREM HeadersStayHeaders == Spec => []HeadersAreHeaders
  <1>1. IInv => HeadersAreHeaders
    <2> SUFFICES ASSUME IInv PROVE HeadersAreHeaders
      OBVIOUS
    <2>1. TInv /\ StreamInv
      BY DEF IInv
    <2>2. ASSUME rpc = "header", Readable(NoiseHeaderSize), NEW p \in 1 .. NoiseHeaderSize
          PROVE  stream[p].kind = "header"
      <3>1. PICK start : At(start)
        BY <2>1, <2>2 DEF StreamInv, At
      <3> QED
        BY <2>1, <2>2, <3>1, HeaderFound DEF IsByte
    <2>3. ASSUME rpc = "payload", Readable(PayloadSize), Accepts(PayloadSize), NEW p \in 1 .. PayloadSize
          PROVE  stream[p].kind = "payload" /\ stream[p].frame = header
      <3> DEFINE m == header.len + MacLen
      <3>1. PICK start : At(start)
        BY <2>1, <2>3 DEF StreamInv, At
      <3>2. /\ header \in Frames
            /\ \A q \in 1 .. m : q <= Len(stream) => IsByte(stream[q], "payload", header, q, m)
        BY <2>1, <2>3, <3>1, PayloadFound
      <3>3. PayloadSize \in Nat \ {0} /\ m \in Nat \ {0}
        BY <2>1, <2>3, <3>2, ReceivedType, SizeTypes
      <3>4. Len(stream) \in Nat /\ PayloadSize <= Len(stream)
        BY <2>1, <2>3, LenProperties DEF TInv, Readable
      <3> HIDE DEF m
      <3>5. 1 \in 1 .. m /\ 1 \in 1 .. PayloadSize /\ 1 <= Len(stream)
        BY <3>3, <3>4
      <3>6. stream[1].size = PayloadSize
        BY <2>1, <2>3, <3>3, <3>5, OpenedBlock DEF Accepts
      <3>7. stream[1].size = m
        BY <3>2, <3>5 DEF IsByte
      <3>8. p \in 1 .. m /\ p <= Len(stream)
        BY <3>3, <3>4, <3>6, <3>7
      <3> QED
        BY <3>2, <3>8 DEF IsByte
    <2> QED
      BY <2>2, <2>3 DEF HeadersAreHeaders
  <1> QED
    BY <1>1, Inductive, PTL

\* A step returns the next frame that was written, or appends one to what was
\* written, or does neither.
LEMMA StepIsChannelStep ==
  ASSUME IInv, [Next]_vars
  PROVE  [Channel!Next]_(Channel!vars)
  <1>1. TInv /\ StreamInv
    BY DEF IInv
  <1>2. CASE UNCHANGED <<written, delivered>>
    BY <1>2 DEF Channel!vars
  <1>3. ASSUME NEW w \in Writers, Write(w) PROVE Channel!Next
    <2>1. frame[w] \in Frames
      BY <1>1, <1>3 DEF TInv, Write
    <2>2. Channel!Write(frame[w])
      BY <1>3 DEF Channel!Write, Write, rvars
    <2> QED
      BY <2>1, <2>2 DEF Channel!Next
  <1>4. CASE ReadPayload
    <2>1. PICK start : At(start)
      BY <1>1, <1>4 DEF StreamInv, At, ReadPayload
    <2>2. Received = written[Len(delivered) + 1]
      BY <1>1, <1>4, <2>1, PayloadTaken
    <2>3. Len(delivered) < Len(written)
      BY <1>4, <2>1 DEF At, Position, ReadPayload
    <2>4. Channel!Deliver
      BY <1>4, <2>2, <2>3 DEF Channel!Deliver, ReadPayload
    <2> QED
      BY <2>4 DEF Channel!Next
  <1>5. CASE DecryptFrame
    <2>1. PICK start : At(start)
      BY <1>1, <1>5 DEF StreamInv, At, DecryptFrame, HeaderOpens
    <2>2. SliceHeader = written[Len(delivered) + 1] /\ Len(delivered) + 1 \in 1 .. Len(written)
      BY <1>1, <1>5, <2>1, SliceTaken
    <2>3. Len(delivered) \in Nat /\ Len(written) \in Nat
      BY <1>1, LenProperties DEF TInv, TypeOK
    <2>4. Len(delivered) < Len(written)
      BY <2>2, <2>3
    <2>5. Channel!Deliver
      BY <1>5, <2>2, <2>4 DEF Channel!Deliver, DecryptFrame
    <2> QED
      BY <2>5 DEF Channel!Next
  <1>6. ASSUME NEW w \in Writers, Writer(w), ~ Write(w) PROVE UNCHANGED <<written, delivered>>
    BY <1>6 DEF Writer, Encode, EncryptHeader, EncryptPayload, Exhausted, WriteFails, rvars
  <1>7. ReadHeader \/ RejectHeader \/ RejectPayload \/ HeaderEnded \/ PayloadEnded
          \/ DecryptFrameShort \/ DecryptFrameFails => UNCHANGED <<written, delivered>>
    BY DEF ReadHeader, RejectHeader, RejectPayload, Reject, HeaderEnded, PayloadEnded, Ended, Stop,
           DecryptFrameShort, DecryptFrameFails
  <1>8. (\E kept \in 0 .. Len(stream) : Break(kept)) => UNCHANGED <<written, delivered>>
    BY DEF Break, rvars
  <1>9. UNCHANGED vars => UNCHANGED <<written, delivered>>
    BY DEF vars, rvars
  <1> QED
    BY <1>2, <1>3, <1>4, <1>5, <1>6, <1>7, <1>8, <1>9 DEF Next, Reader, Slices

\* One direction of a connection implements FrameChannel: frames come out in
\* the order of their bytes, each once, none that was not written, whatever
\* the writers interleave, wherever the connection breaks, and whether the
\* peer reads with DecryptFrameFromReader or decrypts slices.
THEOREM Refinement == Spec => ImplementsFrameChannel
  <1>1. Init => Channel!Init
    BY DEF Init, Channel!Init
  <1>2. IInv /\ [Next]_vars => [Channel!Next]_(Channel!vars)
    BY StepIsChannelStep
  <1> QED
    BY <1>1, <1>2, Inductive, PTL DEF Spec, ImplementsFrameChannel, Channel!Spec
=============================================================================
