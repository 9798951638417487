------------------------------- MODULE Codec -------------------------------
(***************************************************************************)
(* The two binary formats: Header.MarshalBinary and UnmarshalBinary, which  *)
(* make the data of a message, and the frames a multiplexer node writes.    *)
(* Wire.tla takes a message for a record or "garbled", Multiplexer.tla a    *)
(* frame for one element of wire: WireCodec.tla checks what lets them.      *)
(*                                                                         *)
(* A byte is a number below Base, a length or a frame ID takes Width bytes: *)
(* 256 and 4 in the code.  The types of a message and of a frame are bytes of *)
(* their own.                                                               *)
(***************************************************************************)
EXTENDS Naturals, SequencesExt

CONSTANTS
  Base, Width,
  MaxDataLength,  \* maxDataLength, 10 MB: more is refused without being read
  MaxText,        \* bounds what the properties try: the length of a name, of a
  MaxFrames       \* payload and of a chunk; the frames of a stream

Bytes == 0 .. Base - 1

\* n without its last i bytes: n >> 8*i.
Shifted(n) == LET s[i \in 0 .. Width] == IF i = 0 THEN n ELSE s[i - 1] \div Base IN s

\* n can be written in Width bytes.
Fits(n) == Shifted(n)[Width] = 0

\* 10 MB and one more byte do fit in the 4 bytes of a length.
ASSUME CodecAssumption == /\ Base \in Nat \ {0, 1} /\ Width \in Nat \ {0}
                          /\ MaxDataLength \in Nat /\ Fits(MaxDataLength + 1)
                          /\ MaxText \in 0 .. MaxDataLength /\ MaxFrames \in Nat

\* The least significant byte first.
LittleEndian(n) == [i \in 1 .. Width |-> Shifted(n)[i - 1] % Base]

\* An unsigned integer of Width bytes, the most significant first.
BigEndian(n) == [i \in 1 .. Width |-> Shifted(n)[Width - i] % Base]
Number(bytes) ==
  LET n[i \in 0 .. Len(bytes)] == IF i = 0 THEN 0 ELSE n[i - 1] * Base + bytes[i]
  IN n[Len(bytes)]

-----------------------------------------------------------------------------
(* Header.                                                                  *)

Header(name, isError, type, payload) ==
  [name |-> name, isError |-> isError, type |-> type, payload |-> payload]

MarshalBinary(h) ==
  BigEndian(Len(h.name)) \o h.name
    \o <<IF h.isError THEN 1 ELSE 0, h.type>>
    \o BigEndian(Len(h.payload)) \o h.payload

NoHeader == [error |-> TRUE]

\* A Read may return less than it is asked for.
HasSomePayload(data, at, length) == Len(data) >= at

\* io.ReadFull fails unless it gets all it asks for.
HasPayload(data, at, length) == Len(data) >= at + length

\* All that is left.
PayloadToEnd(data, at, length) == SubSeq(data, at + 1, Len(data))

\* make([]byte, length), then what there is to read.
PayloadOf(data, at, length) ==
  [i \in 1 .. length |-> IF at + i <= Len(data) THEN data[at + i] ELSE 0]

\* A read of any field fails at the end of the data.
UnmarshalBinary(data) ==
  LET flags == Width + Number(SubSeq(data, 1, Width))
      payloadAt == flags + 2 + Width
      payloadLen == Number(SubSeq(data, flags + 3, payloadAt))
  IN IF \/ Len(data) < Width
        \/ Len(data) < payloadAt
        \/ ~HasPayload(data, payloadAt, payloadLen)
       THEN NoHeader
     ELSE Header(SubSeq(data, Width + 1, flags), data[flags + 1] = 1, data[flags + 2],
                 PayloadOf(data, payloadAt, payloadLen))

-----------------------------------------------------------------------------
(* Frames.  Only a Data frame is followed by its data; the Start frame of a  *)
(* Node announces the length of a message without any.                      *)

FrameTypes == {"start", "data", "end", "abort"}
TypeByte(type) == CASE type = "start" -> 1 [] type = "end" -> 2
                    [] type = "data" -> 3 [] type = "abort" -> 6

WriteFrame(f) ==
  <<f.type>> \o BigEndian(f.id) \o BigEndian(f.length) \o f.data

HeaderSize == 1 + 2 * Width

\* Data follows every frame that announces a length.
FollowsAll(type, length) == length

Follows(type, length) == IF type = TypeByte("data") THEN length ELSE 0

\* A turn of the loop of ReadMessage: it gets the frame that begins at r.at.  One
\* that announces too much is refused after its header; of one that the stream ends
\* in, nothing is got.
NextFrame(bytes, r) ==
  LET data == r.at + HeaderSize
      length == Number(SubSeq(bytes, r.at + 1 + Width, r.at + 2 * Width))
      next == data + Follows(bytes[r.at], length)
  IN IF data > Len(bytes) + 1 THEN r
     ELSE IF length > MaxDataLength THEN [r EXCEPT !.at = data]
     ELSE IF next > Len(bytes) + 1 THEN r
     ELSE [at |-> next,
           got |-> Append(r.got, [type |-> bytes[r.at],
                                  id |-> Number(SubSeq(bytes, r.at + 1, r.at + Width)),
                                  length |-> length,
                                  data |-> SubSeq(bytes, data, next - 1)])]

\* The frames the loop gets of a stream that ends.
FramesFrom(bytes) ==
  LET r[i \in 0 .. Len(bytes)] ==
        IF i = 0 THEN [at |-> 1, got |-> <<>>] ELSE NextFrame(bytes, r[i - 1])
  IN r[Len(bytes)].got

-----------------------------------------------------------------------------
Texts == SeqOf(Bytes, MaxText)

\* A header reads back as it was written.
ReadsBack(h) == UnmarshalBinary(MarshalBinary(h)) = h

\* A header cut anywhere, as an Abort frame cuts a message, is refused.
PrefixRefused(h) == \A n \in 0 .. Len(MarshalBinary(h)) - 1 :
  UnmarshalBinary(SubSeq(MarshalBinary(h), 1, n)) = NoHeader

\* Bytes after a header are ignored, as those of another message are.
TrailerIgnored(h) == \A t \in Bytes : UnmarshalBinary(MarshalBinary(h) \o <<t>>) = h

\* The frames a writer writes: chunks within the limit, and the Start frames of a
\* Node, which may announce more.
WrittenFrames ==
  {[type |-> TypeByte("data"), id |-> 1, length |-> Len(d), data |-> d] : d \in Texts}
    \cup {[type |-> TypeByte(type), id |-> 1, length |-> 0, data |-> <<>>] :
            type \in FrameTypes \ {"data"}}
    \cup {[type |-> TypeByte("start"), id |-> 1, length |-> n, data |-> <<>>] :
            n \in 0 .. MaxDataLength + 1}

\* What the first k of fs are on the stream, and those of them a reader accepts.
Written(fs) ==
  LET w[k \in 0 .. Len(fs)] == IF k = 0 THEN <<>> ELSE w[k - 1] \o WriteFrame(fs[k]) IN w
Accepted(fs) ==
  LET a[k \in 0 .. Len(fs)] ==
        IF k = 0 THEN <<>>
        ELSE IF fs[k].length <= MaxDataLength THEN Append(a[k - 1], fs[k]) ELSE a[k - 1]
  IN a

\* A stream of frames, cut anywhere, gives the frames that are whole in it, in
\* order, without those that announce too much.
StreamReadsBack(fs) ==
  LET stream == Written(fs)[Len(fs)]
  IN /\ FramesFrom(stream) = Accepted(fs)[Len(fs)]
     /\ \A k \in 1 .. Len(fs) :
          \A n \in Len(Written(fs)[k - 1]) .. Len(Written(fs)[k]) - 1 :
            FramesFrom(SubSeq(stream, 1, n)) = Accepted(fs)[k - 1]
=============================================================================
