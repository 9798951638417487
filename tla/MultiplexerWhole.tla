-------------------------- MODULE MultiplexerWhole --------------------------
(* CompleteIsWhole, for every value of the constants, as long as no two       *)
(* messages of one number are under way at a time (Distinct).                *)
(*                                                                           *)
(* The strengthening follows the frames of a message from its writer over    *)
(* the stream into its entry of readBuffer: none is lost, none overtaken,    *)
(* and the frames of two messages of one number come one after the other.    *)
EXTENDS MultiplexerProofs

IsCut(f) == f.type = "cut"
Carries(f, m, c) == f.type = "data" /\ f.of = m /\ f.at = c

\* The chunks of m after the n-th that were written are on the stream.
Coming(m, n) ==
  \A c \in n + 1 .. offset[m] : \E k \in 1 .. Len(wire) : Carries(wire[k], m, c)

\* Of two frames of one message, f may be the earlier one.
Before(f, g) == /\ f.type \in {"start", "data"}
                /\ g.type # "start"
                /\ g.type = "data" => f.at < g.at

\* On the open stream, m is being written or its last frame is at k or later.
GoesOn(m, k) == stream = "open" => UnderWay(m) \/ LastComes(m, k)

Genuine(f) ==
  /\ Numbered(f.of) /\ f.id = seq[f.of]
  /\ f.type = "start" => f.at = 0
  /\ f.type = "data" => f.at \in 1 .. offset[f.of]
  /\ f.type = "end" => pc[f.of] = "sent" /\ offset[f.of] = Chunks[f.of]
  /\ f.type = "abort" => pc[f.of] = "aborted"

-----------------------------------------------------------------------------
(* The invariant.                                                            *)

OneUnderWay == \A m, other \in Messages :
  UnderWay(m) /\ UnderWay(other) /\ seq[m] = seq[other] => m = other
NothingYet == \A m \in Messages : ~Numbered(m) => offset[m] = 0

FramesGenuine == \A k \in 1 .. Len(wire) :
  IF IsCut(wire[k]) THEN stream # "open" /\ k = Len(wire) ELSE Genuine(wire[k])
FramesInOrder == \A k \in 1 .. Len(wire) : \A j \in 1 .. k - 1 :
  ~IsCut(wire[k]) /\ wire[j].of = wire[k].of => Before(wire[j], wire[k])
NumbersInTurn == \A k \in 1 .. Len(wire) : \A j \in 1 .. k - 1 :
  ~IsCut(wire[k]) /\ wire[j].id = wire[k].id /\ wire[j].of # wire[k].of =>
    \E l \in j .. k - 1 : wire[l].of = wire[j].of /\ IsLast(wire[l])
ChunksComing == \A k \in 1 .. Len(wire) :
  wire[k].type \in {"start", "data"} => Coming(wire[k].of, wire[k].at)
FramesGoOn == \A k \in 1 .. Len(wire) : ~IsCut(wire[k]) => GoesOn(wire[k].of, k)
Broken == stream = "error" => wire = <<>>

WireWhole == /\ OneUnderWay /\ NothingYet /\ FramesGenuine /\ FramesInOrder
             /\ NumbersInTurn /\ ChunksComing /\ FramesGoOn /\ Broken

\* The entry of number i holds the first chunks of m, the others are to come, and
\* no other message of that number is ahead of the rest of m.
Behind(i, m) == \A k \in 1 .. Len(wire) :
  ~IsCut(wire[k]) /\ wire[k].id = i /\ wire[k].of # m =>
    \E l \in 1 .. k - 1 : wire[l].of = m /\ IsLast(wire[l])
Ahead(m, n) == \A k \in 1 .. Len(wire) :
  wire[k].of = m /\ wire[k].type \in {"start", "data"} => wire[k].at > n
Holds(i, m, n) ==
  /\ Numbered(m) /\ seq[m] = i
  /\ n <= offset[m]
  /\ GoesOn(m, 1) /\ Behind(i, m) /\ Ahead(m, n)
  /\ stream # "error" => Coming(m, n)

\* An entry beyond the limit is about to go, and nobody looks at it any more.
Dropping(i) == frameID = i /\ (reader = "drop" \/ (reader = "send" /\ after = "drop"))
Whole(i) == \E m \in Messages, n \in Nat :
  readBuffer[i].data = Prefix(m, n) /\ Holds(i, m, n)
EntriesWhole == \A i \in Entries : Dropping(i) \/ Whole(i)

WholeInv == WireWhole /\ EntriesWhole /\ CompleteIsWhole

-----------------------------------------------------------------------------
(* Appending a frame to the stream, and taking the first one.                *)

\* What TypeOK says of the frames on the stream.
LEMMA WireFrames ==
  ASSUME TypeOK
  PROVE  /\ Len(wire) \in Nat
         /\ \A k \in 1 .. Len(wire) :
              /\ wire[k].of \in Messages /\ wire[k].at \in Nat
              /\ wire[k].type \in {"start", "data", "end", "abort", "cut"}
         /\ pc \in [Messages -> {"load", "store", "number", "begin", "body", "sent",
                                 "cancelled", "aborted", "failed"}]
         /\ offset \in [Messages -> Nat] /\ seq \in [Messages -> Ids]
<1>1. wire \in Seq(Frames)
  BY DEF TypeOK, StreamTypeOK
<1>2. \A k \in 1 .. Len(wire) : wire[k] \in Frames
  BY <1>1, ElementOfSeq
<1> QED BY <1>1, <1>2, LenProperties DEF Frames, TypeOK, WriterTypeOK

LEMMA AppendedWire ==
  ASSUME TypeOK, NEW f, wire' = Append(wire, f)
  PROVE  /\ Len(wire) \in Nat /\ Len(wire') = Len(wire) + 1
         /\ \A k \in 1 .. Len(wire) : wire'[k] = wire[k]
         /\ wire'[Len(wire) + 1] = f
<1>1. wire \in Seq(Frames)
  BY DEF TypeOK, StreamTypeOK
<1> QED BY <1>1, AppendProperties, LenProperties

LEMMA TakenWire ==
  ASSUME TypeOK, wire # <<>>, wire' = Tail(wire)
  PROVE  /\ Len(wire) \in Nat \ {0} /\ Len(wire') = Len(wire) - 1
         /\ \A k \in 1 .. Len(wire') : wire'[k] = wire[k + 1]
         /\ Head(wire) = wire[1]
<1>1. wire \in Seq(Frames)
  BY DEF TypeOK, StreamTypeOK
<1>2. /\ Len(wire) \in Nat \ {0} /\ Len(wire') = Len(wire) - 1
      /\ \A k \in 1 .. Len(wire) - 1 : wire'[k] = wire[k + 1]
      /\ Head(wire) = wire[1]
  BY <1>1, HeadTailProperties, LenProperties, EmptySeq
<1> QED BY <1>2

-----------------------------------------------------------------------------
(* Steps of a writer that write nothing.                                     *)

\* A message that has no number yet, or whose write fails on an ended stream.
LEMMA GivingUpWhole ==
  ASSUME TypeOK, WireWhole, EntriesWhole, NEW m \in Messages,
         UNCHANGED <<wire, stream, offset, readBuffer, frameID, reader, after>>,
         pc'[m] # "body",
         \A other \in Messages \ {m} : pc'[other] = pc[other] /\ seq'[other] = seq[other],
         \/ ~Numbered(m)
         \/ stream # "open" /\ UnderWay(m) /\ Numbered(m)' /\ seq'[m] = seq[m]
  PROVE  (WireWhole /\ EntriesWhole)'
<1> USE DEF WireWhole
<1>1. \A w \in Messages : /\ UnderWay(w)' => UnderWay(w)
                          /\ stream = "open" /\ UnderWay(w) => UnderWay(w)'
                          /\ Numbered(w) => Numbered(w)' /\ seq'[w] = seq[w]
  BY DEF UnderWay, Numbered
<1>2. \A w, k : LastComes(w, k)' <=> LastComes(w, k)
  BY DEF LastComes, IsLast
<1>3. \A w, n : Coming(w, n)' <=> Coming(w, n)
  BY DEF Coming, Carries
<1>4. \A w \in Messages : \A k : GoesOn(w, k) => GoesOn(w, k)'
  BY <1>1, <1>2 DEF GoesOn
<1>5. OneUnderWay' /\ NothingYet'
  <2>1. \A w \in Messages : UnderWay(w)' => seq'[w] = seq[w]
    BY <1>1 DEF UnderWay, Numbered
  <2>2. OneUnderWay'
    BY <1>1, <2>1 DEF OneUnderWay
  <2>3. NothingYet'
    BY <1>1 DEF NothingYet
  <2> QED BY <2>2, <2>3
<1>6. FramesGenuine'
  <2>1. ASSUME NEW k \in 1 .. Len(wire), ~IsCut(wire[k]) PROVE Genuine(wire[k])'
    <3>1. wire[k].of \in Messages /\ Genuine(wire[k])
      BY <2>1, WireFrames DEF FramesGenuine
    <3>2. CASE wire[k].of # m
      BY <1>1, <3>1, <3>2 DEF Genuine
    <3>3. CASE wire[k].of = m
      <4>1. pc[m] = "body"
        BY <3>1, <3>3 DEF Genuine, UnderWay
      <4> QED BY <1>1, <3>1, <3>3, <4>1 DEF Genuine
    <3> QED BY <3>2, <3>3
  <2> QED BY <2>1 DEF FramesGenuine, IsCut
<1>7. (FramesInOrder /\ NumbersInTurn)'
  BY DEF FramesInOrder, NumbersInTurn, Before, IsLast, IsCut
<1>8. (ChunksComing /\ FramesGoOn /\ Broken)'
  <2>1. ChunksComing' /\ Broken'
    BY <1>3 DEF ChunksComing, Broken
  <2>2. FramesGoOn'
    BY <1>4, WireFrames DEF FramesGoOn, IsCut
  <2> QED BY <2>1, <2>2
<1>9. EntriesWhole'
  <2> SUFFICES ASSUME NEW i \in Entries, ~Dropping(i) PROVE Whole(i)'
    BY DEF EntriesWhole, Entries, Dropping
  <2>1. PICK w \in Messages, n \in Nat : readBuffer[i].data = Prefix(w, n) /\ Holds(i, w, n)
    BY DEF EntriesWhole, Whole
  <2>2. Behind(i, w)' /\ Ahead(w, n)'
    BY <2>1 DEF Holds, Behind, Ahead, IsLast, IsCut
  <2>3. Holds(i, w, n)'
    BY <1>1, <1>3, <1>4, <2>1, <2>2 DEF Holds
  <2>4. (readBuffer[i].data = Prefix(w, n))'
    BY <2>1 DEF Prefix, Chunk
  <2> QED BY <2>3, <2>4 DEF Whole
<1> QED BY <1>5, <1>6, <1>7, <1>8, <1>9

-----------------------------------------------------------------------------
(* Steps of a writer that write a frame.                                     *)

\* A Start frame, the next chunk, or the last frame of m.
NextFrame(m, f) ==
  /\ f.of = m /\ f.id = seq[m] /\ seq' = seq
  /\ \/ /\ f.type = "start" /\ f.at = 0
        /\ pc[m] = "begin" /\ pc'[m] = "body" /\ offset' = offset
        /\ \A other \in Messages \ {m} : UnderWay(other) => seq[other] # seq[m]
     \/ /\ f.type = "data" /\ f.at = offset[m] + 1
        /\ pc[m] = "body" /\ pc' = pc /\ offset' = [offset EXCEPT ![m] = @ + 1]
     \/ /\ f.type = "end" /\ offset[m] = Chunks[m]
        /\ pc[m] = "body" /\ pc'[m] = "sent" /\ offset' = offset
     \/ /\ f.type = "abort"
        /\ pc[m] = "body" /\ pc'[m] = "aborted" /\ offset' = offset

\* A frame written keeps the frames whole, and those of an entry to come.
LEMMA WritingWhole ==
  ASSUME TypeOK, WireWhole, EntriesWhole, NEW m \in Messages, NEW f,
         stream = "open", UNCHANGED <<stream, readBuffer, frameID, reader, after>>,
         wire' = Append(wire, f), NextFrame(m, f),
         \A other \in Messages \ {m} : pc'[other] = pc[other]
  PROVE  (WireWhole /\ EntriesWhole)'
<1> USE DEF WireWhole
<1> DEFINE N == Len(wire)
<1>1. /\ N \in Nat /\ Len(wire') = N + 1
      /\ \A k \in 1 .. N : wire'[k] = wire[k]
      /\ wire'[N + 1] = f
  BY AppendedWire
<1>2. /\ \A k \in 1 .. N + 1 : k \in 1 .. N \/ k = N + 1
      /\ \A k \in 1 .. N : ~IsCut(wire[k]) /\ Genuine(wire[k]) /\ wire[k].of \in Messages
  BY <1>1, WireFrames DEF FramesGenuine
<1>3. /\ f.of = m /\ f.id = seq[m] /\ seq' = seq /\ ~IsCut(f)
      /\ UnderWay(m)' \/ IsLast(f)
      /\ Numbered(m)'
  BY DEF NextFrame, UnderWay, Numbered, IsLast, IsCut
<1>4. /\ \A w \in Messages : offset'[w] \in Nat /\ offset[w] \in Nat /\ offset[w] <= offset'[w]
      /\ \A w \in Messages \ {m} : offset'[w] = offset[w]
      /\ offset'[m] = IF f.type = "data" THEN offset[m] + 1 ELSE offset[m]
  BY WireFrames DEF NextFrame
<1>5. \A w \in Messages \ {m} : /\ UnderWay(w)' <=> UnderWay(w)
                                /\ Numbered(w)' <=> Numbered(w)
                                /\ UnderWay(w) => seq[w] # seq[m]
  BY DEF NextFrame, UnderWay, Numbered, OneUnderWay
<1>6. ASSUME NEW w, NEW k \in Nat \ {0}, LastComes(w, k) PROVE LastComes(w, k)'
  BY <1>1, <1>6 DEF LastComes, IsLast
<1>7. ASSUME NEW w \in Messages, NEW k \in 1 .. N + 1, GoesOn(w, k) PROVE GoesOn(w, k)'
  <2>1. CASE w = m
    <3>1. UnderWay(m)' \/ LastComes(m, k)'
      BY <1>1, <1>3 DEF LastComes, IsLast
    <3> QED BY <2>1, <3>1 DEF GoesOn
  <2>2. CASE w # m
    BY <1>5, <1>6, <1>7, <2>2 DEF GoesOn
  <2> QED BY <2>1, <2>2
<1>8. ASSUME NEW w \in Messages, NEW n \in Nat, Coming(w, n) PROVE Coming(w, n)'
  <2> SUFFICES ASSUME NEW c \in n + 1 .. offset'[w]
               PROVE  \E k \in 1 .. Len(wire') : Carries(wire'[k], w, c)
    BY DEF Coming, Carries
  <2>1. CASE c \in n + 1 .. offset[w]
    <3>1. PICK k \in 1 .. N : Carries(wire[k], w, c)
      BY <1>8, <2>1 DEF Coming
    <3>2. k \in 1 .. Len(wire') /\ Carries(wire'[k], w, c)
      BY <1>1, <3>1
    <3> QED BY <3>2
  <2>2. CASE c \notin n + 1 .. offset[w]
    <3>1. w = m /\ c = offset[m] + 1 /\ f.type = "data"
      BY <1>4, <2>2
    <3>2. f.at = c
      BY <3>1 DEF NextFrame
    <3> QED BY <1>1, <1>3, <3>1, <3>2 DEF Carries
  <2> QED BY <2>1, <2>2
<1>9. OneUnderWay'
  <2>1. \A w \in Messages \ {m} : UnderWay(w)' => seq'[w] # seq'[m]
    BY <1>3, <1>5
  <2>2. \A w, v \in Messages \ {m} : UnderWay(w)' /\ UnderWay(v)' /\ seq'[w] = seq'[v] => w = v
    BY <1>3, <1>5 DEF OneUnderWay
  <2> QED BY <2>1, <2>2 DEF OneUnderWay
<1>10. NothingYet'
  BY <1>3, <1>4, <1>5 DEF NothingYet
<1>11. FramesGenuine'
  <2>1. ASSUME NEW k \in 1 .. N PROVE Genuine(wire[k])'
    <3>1. wire[k].of \in Messages /\ Genuine(wire[k])
      BY <1>2
    <3>2. CASE wire[k].of # m
      BY <1>3, <1>4, <1>5, <3>1, <3>2, WireFrames DEF Genuine
    <3>3. CASE wire[k].of = m
      <4>1. pc[m] = "body" /\ wire[k].type \notin {"end", "abort"}
        BY <3>1, <3>3 DEF Genuine, NextFrame, Numbered
      <4>2. wire[k].type = "data" => wire[k].at \in 1 .. offset'[m]
        BY <1>4, <3>1, <3>3 DEF Genuine
      <4> QED BY <1>3, <3>1, <3>3, <4>1, <4>2 DEF Genuine
    <3> QED BY <3>2, <3>3
  <2>2. Genuine(f)'
    <3>1. f.type = "data" => f.at \in 1 .. offset'[m]
      BY <1>4 DEF NextFrame
    <3> QED BY <1>3, <1>4, <3>1 DEF Genuine, NextFrame
  <2>3. ASSUME NEW k \in 1 .. N + 1 PROVE (Genuine(wire[k]) /\ ~IsCut(wire[k]))'
    <3>1. CASE k \in 1 .. N
      BY <1>1, <1>2, <2>1, <3>1 DEF IsCut
    <3>2. CASE k = N + 1
      BY <1>1, <1>3, <2>2, <3>2 DEF IsCut, Genuine
    <3> QED BY <1>2, <3>1, <3>2
  <2> QED BY <1>1, <2>3 DEF FramesGenuine
<1>12. FramesInOrder'
  <2>1. ASSUME NEW j \in 1 .. N, wire[j].of = m PROVE Before(wire[j], f)
    <3>1. Genuine(wire[j]) /\ wire[j].type \in {"start", "data", "end", "abort", "cut"}
      BY <1>2, WireFrames
    <3>2. pc[m] = "body" /\ f.type # "start"
      BY <2>1, <3>1 DEF Genuine, NextFrame, Numbered
    <3>3. wire[j].type \in {"start", "data"}
      BY <1>2, <2>1, <3>1, <3>2 DEF Genuine, IsCut
    <3>4. f.type = "data" => wire[j].at < f.at
      BY <1>4, <2>1, <3>1, <3>3 DEF Genuine, NextFrame
    <3> QED BY <3>2, <3>3, <3>4 DEF Before
  <2>2. ASSUME NEW k \in 1 .. N + 1, NEW j \in 1 .. k - 1, wire'[j].of = wire'[k].of
        PROVE  Before(wire'[j], wire'[k])
    <3>1. j \in 1 .. N /\ wire'[j] = wire[j]
      BY <1>1
    <3>2. CASE k \in 1 .. N
      BY <1>1, <1>2, <2>2, <3>1, <3>2 DEF FramesInOrder
    <3> QED BY <1>1, <1>2, <1>3, <2>1, <2>2, <3>1, <3>2
  <2> QED BY <1>1, <2>2 DEF FramesInOrder, Before, IsCut
<1>13. ASSUME NEW w \in Messages \ {m}, NEW k \in Nat \ {0}, seq[w] = seq[m], GoesOn(w, k)
       PROVE  \E l \in k .. N : wire[l].of = w /\ IsLast(wire[l])
  BY <1>5, <1>13 DEF GoesOn, LastComes
<1>14. NumbersInTurn'
  <2>1. ASSUME NEW k \in 1 .. N + 1, NEW j \in 1 .. k - 1,
               wire'[j].id = wire'[k].id, wire'[j].of # wire'[k].of
        PROVE  \E l \in j .. k - 1 : wire'[l].of = wire'[j].of /\ IsLast(wire'[l])
    <3>1. j \in 1 .. N /\ wire'[j] = wire[j]
      BY <1>1
    <3>2. CASE k \in 1 .. N
      <4>1. PICK l \in j .. k - 1 : wire[l].of = wire[j].of /\ IsLast(wire[l])
        BY <1>1, <1>2, <2>1, <3>1, <3>2 DEF NumbersInTurn
      <4> QED BY <1>1, <3>1, <3>2, <4>1
    <3>3. CASE k = N + 1
      <4>1. wire[j].of \in Messages \ {m} /\ seq[wire[j].of] = seq[m]
        BY <1>1, <1>2, <1>3, <2>1, <3>1, <3>3 DEF Genuine
      <4>2. GoesOn(wire[j].of, j)
        BY <1>2, <3>1 DEF FramesGoOn
      <4>3. PICK l \in j .. N : wire[l].of = wire[j].of /\ IsLast(wire[l])
        BY <1>13, <3>1, <4>1, <4>2
      <4> QED BY <1>1, <3>1, <3>3, <4>3
    <3> QED BY <1>2, <3>2, <3>3
  <2> QED BY <1>1, <2>1 DEF NumbersInTurn, IsLast, IsCut
<1>15. ChunksComing'
  <2>1. ASSUME NEW k \in 1 .. N, wire[k].type \in {"start", "data"}
        PROVE  Coming(wire[k].of, wire[k].at)'
    <3>1. PICK w \in Messages, n \in Nat : w = wire[k].of /\ n = wire[k].at /\ Coming(w, n)
      BY <2>1, WireFrames DEF ChunksComing
    <3>2. Coming(w, n)' /\ wire'[k] = wire[k]
      BY <1>1, <1>8, <3>1
    <3> QED BY <3>1, <3>2
  <2>2. f.type \in {"start", "data"} => f.at = offset'[m]
    BY <1>4 DEF NextFrame, NothingYet, Numbered
  <2>3. f.type \in {"start", "data"} => Coming(f.of, f.at)'
    BY <1>3, <1>4, <2>2 DEF Coming
  <2>4. ASSUME NEW k \in 1 .. N + 1, wire'[k].type \in {"start", "data"}
        PROVE  Coming(wire[k].of, wire[k].at)'
    <3>1. CASE k \in 1 .. N
      BY <1>1, <2>1, <2>4, <3>1
    <3>2. CASE k = N + 1
      BY <1>1, <2>3, <2>4, <3>2
    <3> QED BY <1>2, <3>1, <3>2
  <2> QED BY <1>1, <2>4 DEF ChunksComing
<1>16. FramesGoOn'
  <2>1. ASSUME NEW k \in 1 .. N + 1 PROVE GoesOn(wire[k].of, k)'
    <3>1. CASE k \in 1 .. N
      <4>1. PICK w \in Messages : w = wire[k].of /\ GoesOn(w, k)
        BY <1>2, <3>1 DEF FramesGoOn
      <4> QED BY <1>1, <1>7, <3>1, <4>1
    <3>2. CASE k = N + 1
      <4>1. UnderWay(m)' \/ LastComes(m, k)'
        BY <1>1, <1>3, <3>2 DEF LastComes, IsLast
      <4>2. wire'[k].of = m
        BY <1>1, <1>3, <3>2
      <4> QED BY <4>1, <4>2 DEF GoesOn
    <3> QED BY <1>2, <3>1, <3>2
  <2> QED BY <1>1, <2>1 DEF FramesGoOn
<1>17. EntriesWhole'
  <2> SUFFICES ASSUME NEW i \in Entries, ~Dropping(i) PROVE Whole(i)'
    BY DEF EntriesWhole, Entries, Dropping
  <2>1. PICK w \in Messages, n \in Nat : readBuffer[i].data = Prefix(w, n) /\ Holds(i, w, n)
    BY DEF EntriesWhole, Whole
  <2>2. GoesOn(w, 1)' /\ (stream # "error" => Coming(w, n))'
    BY <1>1, <1>7, <1>8, <2>1 DEF Holds
  <2>3. Numbered(w)' /\ seq'[w] = i /\ n <= offset'[w]
    BY <1>3, <1>4, <1>5, <2>1 DEF Holds
  <2>4. Behind(i, w)'
    <3>1. ASSUME NEW k \in 1 .. N + 1, wire'[k].id = i, wire'[k].of # w
          PROVE  \E l \in 1 .. k - 1 : wire'[l].of = w /\ IsLast(wire'[l])
      <4>1. CASE k \in 1 .. N
        <5>1. PICK l \in 1 .. k - 1 : wire[l].of = w /\ IsLast(wire[l])
          BY <1>1, <1>2, <2>1, <3>1, <4>1 DEF Holds, Behind
        <5> QED BY <1>1, <4>1, <5>1
      <4>2. CASE k = N + 1
        <5>1. w \in Messages \ {m} /\ seq[w] = seq[m] /\ GoesOn(w, 1)
          BY <1>1, <1>3, <2>1, <3>1, <4>2 DEF Holds
        <5>2. PICK l \in 1 .. N : wire[l].of = w /\ IsLast(wire[l])
          BY <1>13, <5>1
        <5> QED BY <1>1, <4>2, <5>2
      <4> QED BY <1>2, <4>1, <4>2
    <3> QED BY <1>1, <3>1 DEF Behind, IsLast, IsCut
  <2>5. Ahead(w, n)'
    <3>1. ASSUME NEW k \in 1 .. N + 1, wire'[k].of = w, wire'[k].type \in {"start", "data"}
          PROVE  wire'[k].at > n
      <4>1. CASE k \in 1 .. N
        BY <1>1, <2>1, <3>1, <4>1 DEF Holds, Ahead
      <4>2. CASE k = N + 1
        <5>1. m = w /\ Numbered(m) /\ n <= offset[m]
          BY <1>1, <1>3, <2>1, <3>1, <4>2 DEF Holds
        <5>2. wire'[k].at = offset[m] + 1
          BY <1>1, <3>1, <4>2, <5>1 DEF NextFrame, Numbered
        <5> QED BY <1>4, <5>1, <5>2
      <4> QED BY <1>2, <4>1, <4>2
    <3> QED BY <1>1, <3>1 DEF Ahead
  <2>6. Holds(i, w, n)' /\ (readBuffer[i].data = Prefix(w, n))'
    BY <2>1, <2>2, <2>3, <2>4, <2>5 DEF Holds, Prefix, Chunk
  <2> QED BY <2>6 DEF Whole
<1>18. Broken'
  BY DEF Broken
<1> QED BY <1>9, <1>10, <1>11, <1>12, <1>14, <1>15, <1>16, <1>17, <1>18

-----------------------------------------------------------------------------
(* The reader takes the first frame.                                         *)

\* What is left of the stream is whole.
LEMMA TakingWire ==
  ASSUME TypeOK, WireWhole, UNCHANGED <<writerVars, stream>>,
         wire # <<>>, wire' = Tail(wire)
  PROVE  /\ WireWhole'
         /\ \A w \in Messages, k \in Nat \ {0} : LastComes(w, k + 1) => LastComes(w, k)'
<1> USE DEF WireWhole
<1>1. /\ Len(wire) \in Nat \ {0} /\ Len(wire') = Len(wire) - 1
      /\ \A k \in 1 .. Len(wire') : k + 1 \in 1 .. Len(wire) /\ wire'[k] = wire[k + 1]
  BY TakenWire
<1>2. UNCHANGED <<seq, pc, offset>>
  BY DEF writerVars
<1>3. \A w : (UnderWay(w)' <=> UnderWay(w)) /\ (Numbered(w)' <=> Numbered(w))
  BY <1>2 DEF UnderWay, Numbered
<1>4. ASSUME NEW w, NEW k \in Nat \ {0}, LastComes(w, k + 1) PROVE LastComes(w, k)'
  <2>1. PICK j \in k + 1 .. Len(wire) : wire[j].of = w /\ IsLast(wire[j])
    BY <1>4 DEF LastComes
  <2>2. j - 1 \in k .. Len(wire') /\ wire'[j - 1] = wire[j]
    BY <1>1, <2>1
  <2> QED BY <2>1, <2>2 DEF LastComes, IsLast
<1>5. OneUnderWay' /\ NothingYet'
  BY <1>2, <1>3 DEF OneUnderWay, NothingYet
<1>6. FramesGenuine'
  <2>1. ASSUME NEW k \in 1 .. Len(wire')
        PROVE  IF IsCut(wire'[k]) THEN stream # "open" /\ k = Len(wire') ELSE Genuine(wire[k + 1])
    <3>1. IF IsCut(wire[k + 1]) THEN stream # "open" /\ k + 1 = Len(wire) ELSE Genuine(wire[k + 1])
      BY <1>1 DEF FramesGenuine
    <3>2. wire'[k] = wire[k + 1] /\ (k = Len(wire') <=> k + 1 = Len(wire))
      BY <1>1
    <3> QED BY <3>1, <3>2 DEF IsCut
  <2>2. \A k \in 1 .. Len(wire') : Genuine(wire[k + 1]) => Genuine(wire[k])'
    BY <1>1, <1>2, <1>3 DEF Genuine
  <2> QED BY <2>1, <2>2 DEF FramesGenuine, IsCut
<1>7. FramesInOrder'
  <2>1. \A k \in 1 .. Len(wire') : \A j \in 1 .. k - 1 :
          ~IsCut(wire'[k]) /\ wire'[j].of = wire'[k].of => Before(wire'[j], wire'[k])
    BY <1>1 DEF FramesInOrder
  <2> QED BY <2>1 DEF FramesInOrder, Before, IsCut
<1>8. NumbersInTurn'
  <2>1. ASSUME NEW k \in 1 .. Len(wire'), NEW j \in 1 .. k - 1, ~IsCut(wire'[k]),
               wire'[j].id = wire'[k].id, wire'[j].of # wire'[k].of
        PROVE  \E l \in j .. k - 1 : wire'[l].of = wire'[j].of /\ IsLast(wire'[l])
    <3>1. PICK l \in j + 1 .. k : wire[l].of = wire[j + 1].of /\ IsLast(wire[l])
      BY <1>1, <2>1 DEF NumbersInTurn
    <3>2. l - 1 \in j .. k - 1 /\ wire'[l - 1] = wire[l] /\ wire'[j] = wire[j + 1]
      BY <1>1, <3>1
    <3> QED BY <3>1, <3>2
  <2> QED BY <2>1 DEF NumbersInTurn, IsLast, IsCut
<1>9. ChunksComing'
  <2>1. ASSUME NEW k \in 1 .. Len(wire'), wire'[k].type \in {"start", "data"},
               NEW c \in wire'[k].at + 1 .. offset[wire'[k].of]
        PROVE  \E p \in 1 .. Len(wire') : Carries(wire'[p], wire'[k].of, c)
    <3> DEFINE g == wire[k + 1]
    <3>1. k + 1 \in 1 .. Len(wire) /\ wire'[k] = g /\ g.at \in Nat
      BY <1>1, WireFrames
    <3>2. PICK p \in 1 .. Len(wire) : Carries(wire[p], g.of, c)
      BY <2>1, <3>1 DEF ChunksComing, Coming
    <3>3. p # 1
      <4> SUFFICES ASSUME p = 1 PROVE FALSE
        OBVIOUS
      <4>1. Before(wire[1], g)
        BY <1>1, <2>1, <3>1, <3>2 DEF FramesInOrder, IsCut, Carries
      <4>2. wire[1].at = c /\ wire[1].at < g.at
        BY <2>1, <3>1, <3>2, <4>1 DEF Before, Carries
      <4> HIDE DEF g
      <4> QED BY <2>1, <3>1, <4>2, WireFrames
    <3>4. p - 1 \in 1 .. Len(wire') /\ wire'[p - 1] = wire[p]
      BY <1>1, <3>3
    <3> QED BY <3>1, <3>2, <3>4
  <2> QED BY <1>2, <2>1 DEF ChunksComing, Coming, Carries
<1>10. FramesGoOn'
  <2>1. ASSUME NEW k \in 1 .. Len(wire'), ~IsCut(wire'[k]) PROVE GoesOn(wire[k].of, k)'
    <3>1. wire'[k] = wire[k + 1] /\ GoesOn(wire[k + 1].of, k + 1)
      BY <1>1, <2>1 DEF FramesGoOn
    <3> QED BY <1>3, <1>4, <3>1 DEF GoesOn
  <2> QED BY <2>1 DEF FramesGoOn, IsCut
<1>11. Broken'
  <2>1. wire' = <<>> \/ stream # "error"
    BY DEF Broken
  <2> QED BY <2>1 DEF Broken
<1> QED BY <1>4, <1>5, <1>6, <1>7, <1>8, <1>9, <1>10, <1>11

\* What was to come of m is still to come after a frame that is not of m, or is
\* the next chunk of m.
LEMMA TakingHolds ==
  ASSUME TypeOK, WireWhole, UNCHANGED <<writerVars, stream>>,
         wire # <<>>, wire' = Tail(wire),
         NEW i, NEW m \in Messages, NEW n \in Nat, NEW now \in Nat,
         Holds(i, m, n),
         \/ now = n /\ ~(Head(wire).of = m /\ Head(wire).type \in {"data", "end", "abort"})
         \/ now = n + 1 /\ Carries(Head(wire), m, n + 1)
  PROVE  Holds(i, m, now)'
<1>1. /\ Len(wire) \in Nat \ {0} /\ Len(wire') = Len(wire) - 1
      /\ \A k \in 1 .. Len(wire') : k + 1 \in 1 .. Len(wire) /\ wire'[k] = wire[k + 1]
      /\ Head(wire) = wire[1] /\ 1 \in 1 .. Len(wire)
  BY TakenWire
<1>2. /\ ~(wire[1].of = m /\ IsLast(wire[1]))
      /\ \A c \in Nat : c > now => ~Carries(wire[1], m, c)
  BY <1>1 DEF IsLast, Carries
<1>3. UNCHANGED <<seq, pc, offset>> /\ offset[m] \in Nat
  BY WireFrames DEF writerVars
<1>4. GoesOn(m, 1)'
  <2>1. LastComes(m, 1) => LastComes(m, 2)
    BY <1>1, <1>2 DEF LastComes
  <2> QED BY <1>3, <2>1, TakingWire DEF Holds, GoesOn, UnderWay
<1>5. Behind(i, m)'
  <2>1. ASSUME NEW k \in 1 .. Len(wire'), ~IsCut(wire'[k]), wire'[k].id = i, wire'[k].of # m
        PROVE  \E l \in 1 .. k - 1 : wire'[l].of = m /\ IsLast(wire'[l])
    <3>1. PICK l \in 1 .. k : wire[l].of = m /\ IsLast(wire[l])
      BY <1>1, <2>1 DEF Holds, Behind
    <3>2. l - 1 \in 1 .. k - 1 /\ wire'[l - 1] = wire[l]
      BY <1>1, <1>2, <3>1
    <3> QED BY <3>1, <3>2
  <2> QED BY <2>1 DEF Behind, IsLast, IsCut
<1>6. Ahead(m, now)'
  <2>1. ASSUME NEW k \in 1 .. Len(wire'), wire'[k].of = m, wire'[k].type \in {"start", "data"}
        PROVE  wire'[k].at > now
    <3>1. k + 1 \in 1 .. Len(wire) /\ wire'[k] = wire[k + 1] /\ wire[k + 1].at \in Nat
      BY <1>1, WireFrames
    <3>2. CASE now = n
      BY <2>1, <3>1, <3>2 DEF Holds, Ahead
    <3>3. CASE now = n + 1 /\ Carries(wire[1], m, n + 1)
      <4>1. Before(wire[1], wire[k + 1])
        BY <1>1, <2>1, <3>1, <3>3 DEF WireWhole, FramesInOrder, IsCut, Carries
      <4> QED BY <2>1, <3>1, <3>3, <4>1 DEF Before, Carries
    <3> QED BY <1>1, <3>2, <3>3
  <2> QED BY <2>1 DEF Ahead
<1>7. stream # "error" => Coming(m, now)'
  <2>1. ASSUME NEW c \in now + 1 .. offset[m], Coming(m, n)
        PROVE  \E p \in 1 .. Len(wire') : Carries(wire'[p], m, c)
    <3>1. c \in n + 1 .. offset[m] /\ c > now
      BY <1>3
    <3>2. PICK p \in 1 .. Len(wire) : Carries(wire[p], m, c)
      BY <2>1, <3>1 DEF Coming
    <3>3. p # 1
      BY <1>2, <3>1, <3>2
    <3>4. p - 1 \in 1 .. Len(wire') /\ wire'[p - 1] = wire[p]
      BY <1>1, <3>3
    <3> QED BY <3>2, <3>4
  <2> QED BY <1>3, <2>1 DEF Holds, Coming, Carries
<1>8. now <= offset[m]
  <2>1. Carries(wire[1], m, n + 1) => n + 1 <= offset[m]
    BY <1>1, <1>3 DEF WireWhole, FramesGenuine, Genuine, Carries, IsCut
  <2> QED BY <1>1, <2>1 DEF Holds
<1> QED BY <1>3, <1>4, <1>5, <1>6, <1>7, <1>8 DEF Holds, Numbered

\* A frame of an open number is the next of the message the entry holds: a Start
\* frame of an open number never arrives, and a last frame finds all its chunks.
LEMMA HeadIsNext ==
  ASSUME TypeOK, WireWhole, wire # <<>>, ~IsCut(Head(wire)), NEW m \in Messages,
         NEW n \in Nat, Holds(Head(wire).id, m, n)
  PROVE  /\ Head(wire).of = m
         /\ Head(wire).type # "start"
         /\ Head(wire).type = "data" => Carries(Head(wire), m, n + 1)
         /\ IsLast(Head(wire)) => offset[m] = n
<1>1. wire \in Seq(Frames)
  BY DEF TypeOK, StreamTypeOK
<1>2. Head(wire) = wire[1] /\ 1 \in 1 .. Len(wire) /\ Len(wire) \in Nat
  BY <1>1, HeadTailProperties, LenProperties, EmptySeq
<1>3. wire[1].of = m
  BY <1>2 DEF Holds, Behind
<1>4. Genuine(wire[1]) /\ offset[m] \in Nat /\ wire[1].at \in Nat
  BY <1>2, WireFrames DEF WireWhole, FramesGenuine
<1>5. wire[1].type \in {"start", "data"} => wire[1].at > n
  BY <1>2, <1>3 DEF Holds, Ahead
<1>6. wire[1].type # "start"
  BY <1>4, <1>5 DEF Genuine
<1>8. ASSUME n + 1 <= offset[m], ~Carries(wire[1], m, n + 1)
      PROVE  wire[1].type = "data" /\ wire[1].at < n + 1
  <2>1. stream # "error"
    BY <1>2, EmptySeq DEF WireWhole, Broken
  <2>2. PICK p \in 1 .. Len(wire) : Carries(wire[p], m, n + 1)
    BY <1>4, <1>8, <2>1 DEF Holds, Coming
  <2>3. Before(wire[1], wire[p])
    BY <1>2, <1>3, <1>8, <2>2 DEF WireWhole, FramesInOrder, IsCut, Carries
  <2> QED BY <1>6, <2>2, <2>3 DEF Before, Carries
<1>9. wire[1].type = "data" => Carries(wire[1], m, n + 1)
  <2>1. wire[1].type = "data" => n + 1 <= offset[m]
    BY <1>3, <1>4, <1>5 DEF Genuine
  <2> QED BY <1>4, <1>5, <1>8, <2>1
<1>10. IsLast(wire[1]) => offset[m] = n
  BY <1>4, <1>8 DEF Holds, IsLast, Carries
<1> QED BY <1>2, <1>3, <1>6, <1>9, <1>10

\* The message of which the entry of the first frame's number holds the beginning.
LEMMA EntryIsNext ==
  ASSUME TypeOK, WireWhole, EntriesWhole, reader = "read", wire # <<>>, ~IsCut(Head(wire)),
         NEW j \in Ids, j = Head(wire).id, readBuffer[j].open
  PROVE  \E m \in Messages, n \in Nat :
           /\ readBuffer[j].data = Prefix(m, n) /\ Holds(j, m, n)
           /\ Head(wire).of = m /\ Head(wire).type # "start"
           /\ Head(wire).type = "data" => Carries(Head(wire), m, n + 1)
           /\ IsLast(Head(wire)) => offset[m] = n
<1>1. PICK m \in Messages, n \in Nat : readBuffer[j].data = Prefix(m, n) /\ Holds(j, m, n)
  BY DEF EntriesWhole, Entries, Dropping, Whole
<1> QED BY <1>1, HeadIsNext

\* After the Start frame of m the chunks of m are to come, all of them.
LEMMA StartHolds ==
  ASSUME TypeOK, WireWhole, UNCHANGED <<writerVars, stream>>,
         wire # <<>>, wire' = Tail(wire), Head(wire).type = "start",
         NEW m \in Messages, m = Head(wire).of, NEW i, i = Head(wire).id
  PROVE  Holds(i, m, 0)'
<1>1. /\ Len(wire) \in Nat \ {0} /\ Len(wire') = Len(wire) - 1
      /\ \A k \in 1 .. Len(wire') : k + 1 \in 1 .. Len(wire) /\ wire'[k] = wire[k + 1]
      /\ Head(wire) = wire[1] /\ 1 \in 1 .. Len(wire)
  BY TakenWire
<1>2. UNCHANGED <<seq, pc, offset>> /\ offset[m] \in Nat
  BY WireFrames DEF writerVars
<1>3. Genuine(wire[1]) /\ ~IsCut(wire[1]) /\ ~IsLast(wire[1])
  BY <1>1 DEF WireWhole, FramesGenuine, IsCut, IsLast
<1>4. (Numbered(m) /\ seq[m] = i)' /\ 0 <= offset'[m]
  BY <1>1, <1>2, <1>3 DEF Genuine, Numbered
<1>5. GoesOn(m, 1)'
  <2>1. GoesOn(m, 1)
    BY <1>1, <1>3 DEF WireWhole, FramesGoOn
  <2>2. LastComes(m, 1) => LastComes(m, 2)
    BY <1>1, <1>3 DEF LastComes
  <2> QED BY <1>2, <2>1, <2>2, TakingWire DEF GoesOn, UnderWay
<1>6. Behind(i, m)'
  <2>1. ASSUME NEW k \in 1 .. Len(wire'), ~IsCut(wire'[k]), wire'[k].id = i, wire'[k].of # m
        PROVE  \E l \in 1 .. k - 1 : wire'[l].of = m /\ IsLast(wire'[l])
    <3>1. PICK l \in 1 .. k : wire[l].of = m /\ IsLast(wire[l])
      BY <1>1, <2>1 DEF WireWhole, NumbersInTurn
    <3>2. l - 1 \in 1 .. k - 1 /\ wire'[l - 1] = wire[l]
      BY <1>1, <1>3, <3>1
    <3> QED BY <3>1, <3>2
  <2> QED BY <2>1 DEF Behind, IsLast, IsCut
<1>7. Ahead(m, 0)'
  <2>1. ASSUME NEW k \in 1 .. Len(wire'), wire'[k].of = m, wire'[k].type \in {"start", "data"}
        PROVE  wire'[k].at > 0
    <3>1. k + 1 \in 1 .. Len(wire) /\ wire'[k] = wire[k + 1] /\ wire[k + 1].at \in Nat
      BY <1>1, WireFrames
    <3>2. Before(wire[1], wire[k + 1])
      BY <1>1, <2>1, <3>1 DEF WireWhole, FramesInOrder, IsCut
    <3> QED BY <1>1, <1>3, <2>1, <3>1, <3>2 DEF Before, Genuine
  <2> QED BY <2>1 DEF Ahead
<1>8. Coming(m, 0)'
  <2>1. wire[1].at = 0 /\ Coming(m, 0)
    BY <1>1, <1>3 DEF WireWhole, ChunksComing, Genuine
  <2>2. ASSUME NEW c \in 0 + 1 .. offset[m] PROVE \E p \in 1 .. Len(wire') : Carries(wire'[p], m, c)
    <3>1. PICK p \in 1 .. Len(wire) : Carries(wire[p], m, c)
      BY <2>1 DEF Coming
    <3>2. p # 1
      BY <1>1, <3>1 DEF Carries
    <3>3. p - 1 \in 1 .. Len(wire') /\ wire'[p - 1] = wire[p]
      BY <1>1, <3>2
    <3> QED BY <3>1, <3>3
  <2> QED BY <1>2, <2>2 DEF Coming, Carries
<1> QED BY <1>4, <1>5, <1>6, <1>7, <1>8 DEF Holds

\* An entry stays whole when a frame goes by that is not of its number.
LEMMA PassingWhole ==
  ASSUME TypeOK, WireWhole, UNCHANGED <<writerVars, stream>>,
         wire # <<>>, wire' = Tail(wire),
         NEW i \in Ids, Whole(i), readBuffer'[i] = readBuffer[i],
         IsCut(Head(wire)) \/ Head(wire).id # i
  PROVE  Whole(i)'
<1>1. PICK m \in Messages, n \in Nat : readBuffer[i].data = Prefix(m, n) /\ Holds(i, m, n)
  BY DEF Whole
<1>2. Head(wire) = wire[1] /\ 1 \in 1 .. Len(wire)
  BY TakenWire
<1>3. ~(Head(wire).of = m /\ Head(wire).type \in {"data", "end", "abort"})
  BY <1>1, <1>2 DEF WireWhole, FramesGenuine, Genuine, Holds, IsCut
<1>4. Holds(i, m, n)'
  BY <1>1, <1>3, TakingHolds
<1> QED BY <1>1, <1>4 DEF Whole, Prefix, Chunk

\* The reader, frame by frame.
LEMMA ReadingWhole ==
  ASSUME TypeOK, WholeInv, UNCHANGED <<writerVars, stream>>,
         ReadStart \/ ReadData \/ ReadLast \/ ReadCut
  PROVE  WholeInv'
<1> DEFINE f == Head(wire)
<1>1. PICK j \in Ids, types \in {{"start"}, {"data"}, {"end", "abort"}, {"cut"}} :
        ReaderTakes(types) /\ frameID' = j
  <2>1. ASSUME NEW types, ReaderTakes(types) PROVE frameID' \in Ids
    BY <2>1, TakesType DEF TypeOK
  <2> QED BY <2>1 DEF ReadStart, ReadData, ReadLast, ReadCut
<1>2. /\ reader = "read" /\ wire # <<>> /\ wire' = Tail(wire) /\ j = f.id
      /\ WireWhole /\ EntriesWhole
      /\ readBuffer \in [Ids -> [open : BOOLEAN, data : Datas]]
  BY <1>1 DEF ReaderTakes, WholeInv, TypeOK, ReaderTypeOK
<1>3. WireWhole'
  BY <1>2, TakingWire
<1>4. \A i \in Ids : readBuffer[i].open => Whole(i)
  BY <1>2 DEF EntriesWhole, Entries, Dropping
<1>5. ASSUME NEW i \in Ids, i # j \/ IsCut(f), readBuffer'[i] = readBuffer[i], readBuffer'[i].open
      PROVE  Whole(i)'
  BY <1>2, <1>4, <1>5, PassingWhole
<1>6. CASE ReadCut
  <2>1. UNCHANGED readBuffer /\ IsCut(f)
    BY <1>6 DEF ReadCut, ReaderTakes, IsCut
  <2>2. EntriesWhole'
    BY <1>5, <2>1 DEF EntriesWhole, Entries
  <2>3. CompleteIsWhole'
    BY <1>6 DEF ReadCut, HandsOver, ErrorMessage, Message, CompleteIsWhole
  <2> QED BY <1>3, <2>2, <2>3 DEF WholeInv
<1>7. ASSUME \A i \in Ids \ {j} : readBuffer'[i] = readBuffer[i],
             (Dropping(j) \/ Whole(j) \/ ~readBuffer[j].open)'
      PROVE  EntriesWhole'
  <2> SUFFICES ASSUME NEW i \in Ids, readBuffer'[i].open PROVE (Dropping(i) \/ Whole(i))'
    BY DEF EntriesWhole, Entries
  <2>1. CASE i = j
    BY <1>7, <2>1
  <2>2. CASE i # j
    BY <1>5, <1>7, <2>2
  <2> QED BY <2>1, <2>2
<1>8. ASSUME ~IsCut(f), readBuffer[j].open
      PROVE  \E m \in Messages, n \in Nat :
               /\ readBuffer[j].data = Prefix(m, n) /\ Holds(j, m, n)
               /\ f.of = m /\ f.type # "start"
               /\ f.type = "data" => Carries(f, m, n + 1)
               /\ IsLast(f) => offset[m] = n
  BY <1>2, <1>8, EntryIsNext
<1>9. CASE ReadStart
  <2>1. f.type = "start" /\ ~IsCut(f)
    BY <1>9 DEF ReadStart, ReaderTakes, IsCut
  <2>2. ~readBuffer[j].open
    BY <1>8, <2>1
  <2>3. readBuffer' = [readBuffer EXCEPT ![j] = Entry(<<>>)] /\ reader' = "opened"
    BY <1>1, <1>9, <2>2 DEF ReadStart
  <2>4. Whole(j)'
    <3>0. f.of \in Messages
      <4>1. f = wire[1] /\ 1 \in 1 .. Len(wire)
        BY <1>2, TakenWire
      <4> QED BY <4>1, WireFrames
    <3>1. PICK m \in Messages : m = f.of
      BY <3>0
    <3>2. Holds(j, m, 0)'
      BY <1>2, <2>1, <3>1, StartHolds
    <3>3. readBuffer'[j].data = Prefix(m, 0)
      BY <1>2, <2>3 DEF Entry, Prefix
    <3> QED BY <3>2, <3>3 DEF Whole, Prefix, Chunk
  <2>5. EntriesWhole'
    BY <1>2, <1>7, <2>3, <2>4
  <2>6. CompleteIsWhole'
    BY <2>3 DEF CompleteIsWhole
  <2> QED BY <1>3, <2>5, <2>6 DEF WholeInv
<1>10. CASE ReadData
  <2>1. f.type = "data" /\ ~IsCut(f)
    BY <1>10 DEF ReadData, ReaderTakes, IsCut
  <2>2. CASE ~readBuffer[j].open
    <3>1. UNCHANGED readBuffer /\ HandsOver(ErrorMessage, "check")
      BY <1>1, <1>10, <2>2 DEF ReadData
    <3> QED BY <1>3, <1>7, <2>2, <3>1 DEF WholeInv, CompleteIsWhole, HandsOver, ErrorMessage, Message
  <2>3. CASE readBuffer[j].open /\ Len(readBuffer[j].data) + 1 > MaxChunks
    <3>1. UNCHANGED readBuffer /\ HandsOver(ErrorMessage, "drop")
      BY <1>1, <1>10, <2>3 DEF ReadData
    <3>2. Dropping(j)'
      BY <1>1, <3>1 DEF Dropping, HandsOver
    <3> QED BY <1>3, <1>7, <3>1, <3>2 DEF WholeInv, CompleteIsWhole, HandsOver, ErrorMessage, Message
  <2>4. CASE readBuffer[j].open /\ ~(Len(readBuffer[j].data) + 1 > MaxChunks)
    <3>1. /\ readBuffer' = [readBuffer EXCEPT ![j].data = Append(readBuffer[j].data, Chunk(f.of, f.at))]
          /\ reader' = "check"
      BY <1>1, <1>10, <2>4 DEF ReadData
    <3>2. PICK m \in Messages, n \in Nat : /\ readBuffer[j].data = Prefix(m, n) /\ Holds(j, m, n)
                                           /\ Carries(f, m, n + 1)
      BY <1>8, <2>1, <2>4
    <3>3. Holds(j, m, n + 1)'
      BY <1>2, <3>2, TakingHolds
    <3>4. readBuffer'[j].data = Prefix(m, n + 1)
      <4>1. readBuffer'[j].data = Append(Prefix(m, n), Chunk(m, n + 1))
        BY <1>2, <3>1, <3>2 DEF Carries
      <4>2. Append(Prefix(m, n), Chunk(m, n + 1)) = Prefix(m, n + 1)
        BY DEF Prefix
      <4> QED BY <4>1, <4>2
    <3>5. (readBuffer[j].data = Prefix(m, n + 1))'
      BY <3>4 DEF Prefix, Chunk
    <3>6. Whole(j)'
      BY <3>3, <3>5 DEF Whole
    <3>7. \A i \in Ids \ {j} : readBuffer'[i] = readBuffer[i]
      BY <1>2, <3>1
    <3> QED BY <1>3, <1>7, <3>1, <3>6, <3>7 DEF WholeInv, CompleteIsWhole
  <2> QED BY <2>2, <2>3, <2>4
<1>11. CASE ReadLast
  <2>1. IsLast(f) /\ ~IsCut(f)
    BY <1>11 DEF ReadLast, ReaderTakes, IsLast, IsCut
  <2>2. CASE ~readBuffer[j].open
    <3>1. UNCHANGED readBuffer /\ HandsOver(ErrorMessage, "check")
      BY <1>1, <1>11, <2>2 DEF ReadLast
    <3> QED BY <1>3, <1>7, <2>2, <3>1 DEF WholeInv, CompleteIsWhole, HandsOver, ErrorMessage, Message
  <2>3. CASE readBuffer[j].open
    <3>1. /\ readBuffer' = [readBuffer EXCEPT ![j] = NoEntry]
          /\ HandsOver(Message(IF f.type = "end" THEN "complete" ELSE "abort", j,
                               readBuffer[j].data), "count")
      BY <1>1, <1>11, <2>3 DEF ReadLast
    <3>2. EntriesWhole'
      BY <1>2, <1>7, <3>1 DEF NoEntry
    <3>3. CompleteIsWhole'
      <4> SUFFICES ASSUME f.type = "end"
                   PROVE  \E m \in Messages : pc'[m] = "sent" /\ hand'.id = seq'[m] /\ hand'.data = Payload(m)
        BY <3>1 DEF CompleteIsWhole, HandsOver, Message
      <4>1. PICK m \in Messages, n \in Nat : /\ readBuffer[j].data = Prefix(m, n) /\ Holds(j, m, n)
                                             /\ f.of = m /\ offset[m] = n
        BY <1>8, <2>1, <2>3
      <4>2. pc[m] = "sent" /\ offset[m] = Chunks[m]
        <5>1. f = wire[1] /\ 1 \in 1 .. Len(wire)
          BY <1>2, TakenWire
        <5>2. Genuine(f)
          BY <1>2, <2>1, <5>1 DEF WireWhole, FramesGenuine
        <5> QED BY <4>1, <5>2 DEF Genuine
      <4>3. hand'.id = j /\ hand'.data = Payload(m) /\ j = seq[m]
        BY <3>1, <4>1, <4>2 DEF HandsOver, Message, Payload, Holds
      <4> QED BY <4>2, <4>3 DEF writerVars
    <3> QED BY <1>3, <3>2, <3>3 DEF WholeInv
  <2> QED BY <2>2, <2>3
<1> QED BY <1>6, <1>9, <1>10, <1>11

-----------------------------------------------------------------------------
(* Every other step.                                                         *)

\* Entries that stay are left alone.
LEMMA QuietWhole ==
  ASSUME WholeInv, UNCHANGED <<writerVars, wire, stream>>,
         \A i \in Entries' : /\ i \in Entries /\ readBuffer'[i] = readBuffer[i]
                             /\ Dropping(i) => Dropping(i)',
         CompleteIsWhole'
  PROVE  WholeInv'
<1>1. UNCHANGED <<seq, pc, offset>>
  BY DEF writerVars
<1>2. WireWhole'
  BY <1>1 DEF WholeInv, WireWhole, OneUnderWay, NothingYet, FramesGenuine, FramesInOrder,
              NumbersInTurn, ChunksComing, FramesGoOn, Broken, Genuine, Before, Coming,
              Carries, GoesOn, LastComes, UnderWay, Numbered, IsCut, IsLast
<1>3. \A i, m, n : Holds(i, m, n)' <=> Holds(i, m, n)
  BY <1>1 DEF Holds, Behind, Ahead, Coming, Carries, GoesOn, LastComes, UnderWay, Numbered,
              IsCut, IsLast
<1>4. EntriesWhole'
  <2> SUFFICES ASSUME NEW i \in Entries', ~Dropping(i)' PROVE Whole(i)'
    BY DEF EntriesWhole
  <2>1. Whole(i)
    BY DEF WholeInv, EntriesWhole
  <2> QED BY <1>3, <2>1 DEF Whole, Prefix, Chunk
<1> QED BY <1>2, <1>4 DEF WholeInv

\* The stream ends after a whole frame, inside one, or with all that is on it.
LEMMA StreamWhole ==
  ASSUME TypeOK, WholeInv, StreamStep
  PROVE  WholeInv'
<1> USE DEF WholeInv, WireWhole
<1>1. /\ UNCHANGED <<seq, pc, offset, readBuffer, frameID, reader, after, hand>>
      /\ stream = "open" /\ stream' # "open"
  BY DEF StreamStep, StreamEnds, StreamBreaks, writerVars, readerVars
<1>2. (OneUnderWay /\ NothingYet /\ FramesGoOn /\ CompleteIsWhole)'
  BY <1>1 DEF OneUnderWay, NothingYet, FramesGoOn, GoesOn, UnderWay, Numbered,
              CompleteIsWhole
<1>3. \A w, k : GoesOn(w, k)'
  BY <1>1 DEF GoesOn
<1>4. ASSUME (FramesGenuine /\ FramesInOrder /\ NumbersInTurn /\ ChunksComing /\ Broken)',
             ASSUME NEW i \in Ids, NEW m \in Messages, NEW n \in Nat, Holds(i, m, n)
             PROVE  (Behind(i, m) /\ Ahead(m, n) /\ (stream # "error" => Coming(m, n)))'
      PROVE  WholeInv'
  <2>1. EntriesWhole'
    <3> SUFFICES ASSUME NEW i \in Entries, ~Dropping(i) PROVE Whole(i)'
      BY <1>1 DEF EntriesWhole, Entries, Dropping
    <3>1. PICK m \in Messages, n \in Nat : readBuffer[i].data = Prefix(m, n) /\ Holds(i, m, n)
      BY DEF EntriesWhole, Whole
    <3>2. Holds(i, m, n)'
      BY <1>1, <1>3, <1>4, <3>1 DEF Holds, Numbered, Entries
    <3> QED BY <1>1, <3>1, <3>2 DEF Whole, Prefix, Chunk
  <2> QED BY <1>2, <1>4, <2>1
<1>5. CASE wire' = wire /\ stream' = "eof"
  <2>1. \A w, n : Coming(w, n)' <=> Coming(w, n)
    BY <1>1, <1>5 DEF Coming, Carries
  <2>2. FramesGenuine' /\ Broken'
    BY <1>1, <1>5 DEF FramesGenuine, Genuine, Numbered, IsCut, Broken
  <2>3. (FramesInOrder /\ NumbersInTurn /\ ChunksComing)'
    BY <1>5, <2>1 DEF FramesInOrder, NumbersInTurn, ChunksComing, Before, IsCut, IsLast
  <2>4. ASSUME NEW i \in Ids, NEW m \in Messages, NEW n \in Nat, Holds(i, m, n)
        PROVE  (Behind(i, m) /\ Ahead(m, n) /\ (stream # "error" => Coming(m, n)))'
    BY <1>1, <1>5, <2>1, <2>4 DEF Holds, Behind, Ahead, IsCut, IsLast
  <2> QED BY <1>4, <2>2, <2>3, <2>4
<1>6. CASE StreamBreaks
  <2>1. Len(wire') = 0 /\ wire' = <<>> /\ stream' = "error"
    BY <1>6 DEF StreamBreaks
  <2>2. (FramesGenuine /\ FramesInOrder /\ NumbersInTurn /\ ChunksComing /\ Broken)'
    BY <2>1 DEF FramesGenuine, FramesInOrder, NumbersInTurn, ChunksComing, Broken
  <2>3. \A i, m, n : (Behind(i, m) /\ Ahead(m, n))'
    BY <2>1 DEF Behind, Ahead
  <2> QED BY <1>4, <2>1, <2>2, <2>3
<1>7. ASSUME NEW f, IsCut(f), wire' = Append(wire, f), stream' = "eof" PROVE WholeInv'
  <2>1. /\ Len(wire) \in Nat /\ Len(wire') = Len(wire) + 1
        /\ \A k \in 1 .. Len(wire) : wire'[k] = wire[k] /\ ~IsCut(wire[k]) /\ Genuine(wire[k])
        /\ wire'[Len(wire) + 1] = f
    BY <1>1, <1>7, AppendedWire DEF FramesGenuine
  <2>2. \A k \in 1 .. Len(wire') : k \in 1 .. Len(wire) \/ (k = Len(wire') /\ wire'[k] = f)
    BY <2>1
  <2>3. ASSUME NEW w \in Messages, NEW n \in Nat, Coming(w, n) PROVE Coming(w, n)'
    BY <1>1, <2>1, <2>3 DEF Coming, Carries
  <2>4. FramesGenuine'
    <3>1. \A k \in 1 .. Len(wire) : Genuine(wire[k])'
      BY <1>1, <2>1 DEF Genuine, Numbered
    <3> QED BY <1>1, <1>7, <2>1, <2>2, <3>1 DEF FramesGenuine, IsCut
  <2>5. (FramesInOrder /\ NumbersInTurn)'
    <3>1. FramesInOrder'
      BY <1>7, <2>1, <2>2 DEF FramesInOrder, Before, IsCut
    <3>2. NumbersInTurn'
      BY <1>7, <2>1, <2>2 DEF NumbersInTurn, IsCut, IsLast
    <3> QED BY <3>1, <3>2
  <2>6. (ChunksComing /\ Broken)'
    <3>1. ASSUME NEW k \in 1 .. Len(wire'), wire'[k].type \in {"start", "data"}
          PROVE  Coming(wire[k].of, wire[k].at)'
      <4>1. k \in 1 .. Len(wire) /\ wire'[k] = wire[k]
        BY <1>7, <2>1, <2>2, <3>1 DEF IsCut
      <4>2. PICK w \in Messages, n \in Nat : w = wire[k].of /\ n = wire[k].at /\ Coming(w, n)
        BY <3>1, <4>1, WireFrames DEF ChunksComing
      <4> QED BY <2>3, <4>1, <4>2
    <3> QED BY <1>7, <3>1 DEF ChunksComing, Broken
  <2>7. ASSUME NEW i \in Ids, NEW m \in Messages, NEW n \in Nat, Holds(i, m, n)
        PROVE  (Behind(i, m) /\ Ahead(m, n) /\ (stream # "error" => Coming(m, n)))'
    <3>1. Behind(i, m)'
      BY <1>7, <2>1, <2>2, <2>7 DEF Holds, Behind, IsCut, IsLast
    <3>2. Ahead(m, n)'
      BY <1>7, <2>1, <2>2, <2>7 DEF Holds, Ahead, IsCut
    <3> QED BY <1>1, <2>3, <2>7, <3>1, <3>2 DEF Holds
  <2> QED BY <1>4, <2>4, <2>5, <2>6, <2>7
<1>8. CASE StreamEnds
  <2>1. ASSUME NEW m \in Messages, wire' = Append(wire, Frame("cut", seq[m], m, 0)), stream' = "eof"
        PROVE  WholeInv'
    BY <1>7, <2>1 DEF Frame, IsCut
  <2> QED BY <1>5, <1>8, <2>1 DEF StreamEnds
<1> QED BY <1>6, <1>8 DEF StreamStep

\* A writer gives up without a frame, or has no number yet; or it writes its next.
LEMMA WriterCases ==
  ASSUME Distinct, TypeOK, NEW m \in Messages, WriterStep(m) \/ WriterCancel(m)
  PROVE  /\ WriterFrame
         /\ \A w \in Messages \ {m} : pc'[w] = pc[w] /\ seq'[w] = seq[w]
         /\ \/ /\ UNCHANGED <<wire, offset>> /\ pc'[m] \notin {"body", "sent"} /\ pc[m] # "sent"
               /\ \/ ~Numbered(m)
                  \/ stream # "open" /\ UnderWay(m) /\ Numbered(m)' /\ seq'[m] = seq[m]
            \/ /\ pc[m] # "sent" /\ stream = "open"
               /\ \E f \in Frames : wire' = Append(wire, f) /\ NextFrame(m, f)
<1>1. /\ pc \in [Messages -> {"load", "store", "number", "begin", "body", "sent",
                              "cancelled", "aborted", "failed"}]
      /\ seq \in [Messages -> Ids] /\ offset \in [Messages -> Nat]
      /\ \A w \in Messages \ {m} : pc'[w] = pc[w] /\ seq'[w] = seq[w]
  BY WireFrames DEF WriterStep, WriterCancel, AdapterStep, AdapterLoad, AdapterStore,
       AdapterNumber, NodeStep, WriteStart, WriteData, WriteEnd, WriteFails, CancelFirst,
       WriteAbort, Goes, TypeOK, WriterTypeOK
<1>2. WriterFrame
  BY DEF WriterStep, WriterCancel
<1>3. CASE AdapterStep(m) \/ CancelFirst(m)
  BY <1>1, <1>2, <1>3 DEF AdapterStep, AdapterLoad, AdapterStore, AdapterNumber, CancelFirst,
                          Goes, Numbered
<1>4. CASE WriteFails(m) \/ (WriteAbort(m) /\ wire' = wire /\ stream # "open")
  BY <1>1, <1>2, <1>4 DEF WriteFails, WriteAbort, Goes, Numbered, UnderWay
<1>5. ASSUME NEW type, NEW k, Writes(type, m, k), Frame(type, seq[m], m, k) \in Frames,
             NextFrame(m, Frame(type, seq[m], m, k)), pc[m] # "sent"
      PROVE  /\ pc[m] # "sent" /\ stream = "open"
             /\ \E f \in Frames : wire' = Append(wire, f) /\ NextFrame(m, f)
  BY <1>5 DEF Writes
<1>6. CASE WriteStart(m)
  <2>1. NextFrame(m, Frame("start", seq[m], m, 0))
    BY <1>1, <1>6 DEF WriteStart, Goes, NextFrame, Frame
  <2>2. Frame("start", seq[m], m, 0) \in Frames
    BY <1>1 DEF Frame, Frames
  <2> QED BY <1>1, <1>2, <1>5, <1>6, <2>1, <2>2 DEF WriteStart, Goes
<1>7. CASE WriteData(m)
  <2>1. NextFrame(m, Frame("data", seq[m], m, offset[m] + 1))
    BY <1>1, <1>7 DEF WriteData, UnderWay, NextFrame, Frame
  <2>2. Frame("data", seq[m], m, offset[m] + 1) \in Frames
    BY <1>1 DEF Frame, Frames
  <2> QED BY <1>1, <1>2, <1>5, <1>7, <2>1, <2>2 DEF WriteData, UnderWay
<1>8. CASE WriteEnd(m)
  <2>1. NextFrame(m, Frame("end", seq[m], m, 0))
    BY <1>1, <1>8 DEF WriteEnd, Goes, NextFrame, Frame
  <2>2. Frame("end", seq[m], m, 0) \in Frames
    BY <1>1 DEF Frame, Frames
  <2> QED BY <1>1, <1>2, <1>5, <1>8, <2>1, <2>2 DEF WriteEnd, Goes
<1>9. CASE WriteAbort(m) /\ Writes("abort", m, 0)
  <2>1. NextFrame(m, Frame("abort", seq[m], m, 0))
    BY <1>1, <1>9 DEF WriteAbort, Goes, NextFrame, Frame
  <2>2. Frame("abort", seq[m], m, 0) \in Frames
    BY <1>1 DEF Frame, Frames
  <2> QED BY <1>1, <1>2, <1>5, <1>9, <2>1, <2>2 DEF WriteAbort, Goes
<1>10. WriteAbort(m) => Writes("abort", m, 0) \/ (wire' = wire /\ stream # "open")
  BY DEF WriteAbort
<1> QED BY <1>3, <1>4, <1>6, <1>7, <1>8, <1>9, <1>10 DEF WriterStep, WriterCancel, NodeStep

\* The writers, frame by frame.
LEMMA WriterWhole ==
  ASSUME Distinct, TypeOK, WholeInv, NEW m \in Messages, WriterStep(m) \/ WriterCancel(m)
  PROVE  WholeInv'
<1>1. /\ UNCHANGED <<stream, readBuffer, frameID, reader, after, hand>>
      /\ \A w \in Messages \ {m} : pc'[w] = pc[w] /\ seq'[w] = seq[w]
      /\ pc[m] # "sent"
  BY WriterCases DEF WriterFrame, readerVars
<1>2. (WireWhole /\ EntriesWhole)'
  <2>1. CASE wire' = wire /\ offset' = offset /\ pc'[m] # "body"
             /\ (~Numbered(m) \/ (stream # "open" /\ UnderWay(m) /\ Numbered(m)' /\ seq'[m] = seq[m]))
    BY <1>1, <2>1, GivingUpWhole DEF WholeInv
  <2>2. ASSUME NEW f \in Frames, stream = "open", wire' = Append(wire, f), NextFrame(m, f)
        PROVE  (WireWhole /\ EntriesWhole)'
    BY <1>1, <2>2, WritingWhole DEF WholeInv
  <2> QED BY <2>1, <2>2, WriterCases
<1>3. \A w \in Messages : pc[w] = "sent" => pc'[w] = "sent" /\ seq'[w] = seq[w]
  BY <1>1
<1>4. CompleteIsWhole'
  BY <1>1, <1>3 DEF WholeInv, CompleteIsWhole, Payload, Prefix, Chunk
<1> QED BY <1>2, <1>4 DEF WholeInv

\* The reader.
LEMMA ReaderWhole ==
  ASSUME TypeOK, WholeInv, ReaderStep
  PROVE  WholeInv'
<1>1. UNCHANGED <<writerVars, stream>> /\ UNCHANGED <<pc, seq>>
  BY DEF ReaderStep, writerVars
<1>2. CASE ReadStart \/ ReadData \/ ReadLast \/ ReadCut
  BY <1>1, <1>2, ReadingWhole
<1>3. CASE ReaderCheck \/ ReaderCountsUp \/ ReaderCountsDown \/ ReadEnds
  <2>1. UNCHANGED <<wire, readBuffer>> /\ \A i : ~Dropping(i)
    BY <1>3 DEF ReaderCheck, ReaderCountsUp, ReaderCountsDown, ReadEnds, ReaderGoes, Dropping
  <2>2. CompleteIsWhole'
    BY <1>3 DEF ReaderCheck, ReaderCountsUp, ReaderCountsDown, ReadEnds, ReaderGoes,
                HandsOver, ErrorMessage, Message, CompleteIsWhole
  <2> QED BY <1>1, <2>1, <2>2, QuietWhole DEF Entries
<1>4. CASE ReaderDrops
  <2>1. /\ UNCHANGED wire /\ reader' = "count"
        /\ \A i \in Entries' : i \in Entries /\ readBuffer'[i] = readBuffer[i] /\ ~Dropping(i)
    BY <1>4 DEF ReaderDrops, ReaderGoes, Entries, NoEntry, Dropping, TypeOK, ReaderTypeOK
  <2>2. CompleteIsWhole'
    BY <2>1 DEF CompleteIsWhole
  <2> QED BY <1>1, <2>1, <2>2, QuietWhole
<1>5. CASE ReaderSends
  <2>1. UNCHANGED <<wire, readBuffer, frameID>> /\ reader = "send" /\ reader' = after /\ after # "send"
    BY <1>5 DEF ReaderSends, ReaderGoes, TypeOK, ReaderTypeOK
  <2>2. \A i : Dropping(i) => Dropping(i)'
    BY <2>1 DEF Dropping
  <2>3. CompleteIsWhole'
    BY <2>1 DEF CompleteIsWhole
  <2> QED BY <1>1, <2>1, <2>2, <2>3, QuietWhole DEF Entries
<1> QED BY <1>2, <1>3, <1>4, <1>5 DEF ReaderStep

\* Every step.
LEMMA NextWhole == Distinct /\ TypeOK /\ WholeInv /\ [Next]_vars => WholeInv'
<1> SUFFICES ASSUME Distinct, TypeOK, WholeInv, [Next]_vars PROVE WholeInv'
  OBVIOUS
<1>1. ASSUME NEW m \in Messages, WriterStep(m) \/ WriterCancel(m) PROVE WholeInv'
  BY <1>1, WriterWhole
<1>2. CASE CloseNode
  <2>1. Entries' = {}
    BY <1>2 DEF CloseNode, Entries, NoEntry
  <2>2. CompleteIsWhole'
    BY <1>2 DEF CloseNode, WholeInv, CompleteIsWhole, Payload, Prefix, Chunk, writerVars
  <2> QED BY <1>2, <2>1, <2>2, QuietWhole DEF CloseNode
<1>3. CASE StopReading \/ Receive \/ UNCHANGED vars
  <2>1. UNCHANGED <<writerVars, wire, stream, readBuffer, reader, frameID, hand, after>>
    BY <1>3 DEF StopReading, Receive, vars, readerVars
  <2>2. CompleteIsWhole'
    BY <2>1 DEF WholeInv, CompleteIsWhole, Payload, Prefix, Chunk, writerVars
  <2> QED BY <2>1, <2>2, QuietWhole DEF Entries, Dropping
<1> QED BY <1>1, <1>2, <1>3, StreamWhole, ReaderWhole DEF Next

\* No message is under way when the writer and the node are new.
LEMMA InitWhole == Init => WholeInv
<1> SUFFICES ASSUME Init PROVE WholeInv
  OBVIOUS
<1>1. /\ Len(wire) = 0 /\ wire = <<>> /\ Entries = {} /\ reader = "check"
      /\ \A m \in Messages : ~UnderWay(m) /\ offset[m] = 0
  BY EmptySeq DEF Init, Entries, NoEntry, UnderWay
<1> HIDE DEF Init
<1>2. WireWhole
  BY <1>1 DEF WireWhole, OneUnderWay, NothingYet, FramesGenuine, FramesInOrder,
              NumbersInTurn, ChunksComing, FramesGoOn, Broken
<1> QED BY <1>1, <1>2 DEF WholeInv, EntriesWhole, CompleteIsWhole

\* A message handed over as complete is the whole payload of one message that was
\* sent, under its number: readBuffer, keyed by the number alone, never mixes,
\* loses or repeats the chunks of interleaved writers (writeHybrid takes writerLock
\* frame by frame), through aborts, refused messages, a Close in the middle and the
\* end of the stream; the callers owe it distinct numbers (Distinct), which
\* LoaderCorrelation proves of the Loader.
THEOREM WholeHolds ==
  ASSUME Distinct
  PROVE  Spec => []CompleteIsWhole
<1>1. TypeOK /\ WholeInv /\ [Next]_vars => WholeInv'
  BY NextWhole
<1>2. WholeInv => CompleteIsWhole
  BY DEF WholeInv
<1> QED BY <1>1, <1>2, InitType, NextType, InitWhole, PTL DEF Spec

=============================================================================
