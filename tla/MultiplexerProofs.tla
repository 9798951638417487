-------------------------- MODULE MultiplexerProofs --------------------------
(* Proofs about Multiplexer.tla, for every value of its constants.           *)
EXTENDS MultiplexerProps, SequenceTheorems, FiniteSetTheorems, TLAPS

-----------------------------------------------------------------------------
(* Type correctness.                                                         *)

\* The text of an error message is data, and an error message a message.
LEMMA ErrorTypes == ErrorText \in Datas /\ ErrorMessage \in MuxMessages
<1>1. Chunk(Nobody, 0) \in AllChunks
  BY DEF Chunk, AllChunks
<1>2. ErrorText \in Datas
  BY <1>1 DEF ErrorText, Datas
<1> QED BY <1>2, SpaceAssumption DEF ErrorMessage, Message, MuxMessages, Ids

\* NewHybridNode and its adapter start of the type, nothing written yet.
LEMMA InitType == Init => TypeOK
<1> SUFFICES ASSUME Init PROVE TypeOK
  OBVIOUS
<1> USE SpaceAssumption DEF Init
<1>1. WriterTypeOK
  BY MessageAssumption DEF WriterTypeOK, Ids
<1>2. NoEntry \in [open : BOOLEAN, data : Datas] /\ Len(NoEntry.data) = 0
  BY DEF NoEntry, Datas
<1>3. ReaderTypeOK /\ \A i \in Ids : Len(readBuffer[i].data) <= MaxChunks
  BY <1>2, ErrorTypes DEF ReaderTypeOK, Ids
<1>4. StreamTypeOK /\ ConsumerTypeOK
  <2>1. wire \in Seq(Frames) /\ ch \in Seq(MuxMessages) /\ Len(ch) = 0
    BY EmptySeq
  <2>2. received \in Seq([seq : Ids, data : Datas])
    BY EmptySeq
  <2>3. Len(ch) <= ChanSize
    BY <2>1
  <2>4. StreamTypeOK
    BY <2>1 DEF StreamTypeOK
  <2> HIDE DEF Init
  <2>5. ctxDone \in BOOLEAN /\ nodeClosed \in BOOLEAN
    BY DEF Init
  <2> QED BY <2>1, <2>2, <2>3, <2>4, <2>5 DEF ConsumerTypeOK
<1> QED BY <1>1, <1>3, <1>4 DEF TypeOK

\* A frame written keeps the stream of its type (writeHybrid).
LEMMA WritesType ==
  ASSUME StreamTypeOK, WriterTypeOK, NEW m \in Messages, NEW k \in Nat,
         NEW type \in {"start", "data", "end", "abort", "cut"},
         wire' = Append(wire, Frame(type, seq[m], m, k))
  PROVE  wire' \in Seq(Frames)
<1>1. Frame(type, seq[m], m, k) \in Frames
  BY DEF Frame, Frames, WriterTypeOK
<1> QED BY <1>1 DEF StreamTypeOK

\* A writer leaves the reader and the consumer alone.
LEMMA WriterFrameType ==
  ASSUME TypeOK, WriterFrame, WriterTypeOK', wire' \in Seq(Frames)
  PROVE  TypeOK'
  BY DEF TypeOK, WriterFrame, readerVars, ReaderTypeOK, StreamTypeOK, ConsumerTypeOK

\* WriteMessage and WriteMessageWithSequence, frame by frame.
LEMMA WriterStepType ==
  ASSUME TypeOK, NEW m \in Messages, WriterStep(m) \/ WriterCancel(m)
  PROVE  TypeOK'
<1> USE DEF TypeOK
<1>1. CASE AdapterStep(m) /\ WriterFrame
  <2>1. (loaded[m] + 1) % IdSpace \in Ids
    BY SpaceAssumption DEF WriterTypeOK, Ids
  <2>2. CASE AdapterLoad(m)
    <3>1. WriterTypeOK'
      BY <2>2 DEF AdapterLoad, Goes, WriterTypeOK
    <3> QED BY <1>1, <2>2, <3>1, WriterFrameType DEF AdapterLoad, StreamTypeOK
  <2>3. CASE AdapterStore(m)
    <3>1. WriterTypeOK'
      BY <2>1, <2>3 DEF AdapterStore, Goes, WriterTypeOK
    <3> QED BY <1>1, <2>3, <3>1, WriterFrameType DEF AdapterStore, StreamTypeOK
  <2>4. CASE AdapterNumber(m)
    <3>1. WriterTypeOK'
      BY <2>1, <2>4 DEF AdapterNumber, Goes, WriterTypeOK
    <3> QED BY <1>1, <2>4, <3>1, WriterFrameType DEF AdapterNumber, StreamTypeOK
  <2> QED BY <1>1, <2>2, <2>3, <2>4 DEF AdapterStep
<1>2. CASE WriteStart(m) /\ WriterFrame
  <2>1. WriterTypeOK'
    BY <1>2 DEF WriteStart, Goes, WriterTypeOK
  <2>2. wire' \in Seq(Frames)
    BY <1>2, WritesType DEF WriteStart, Writes
  <2> QED BY <1>2, <2>1, <2>2, WriterFrameType
<1>3. CASE WriteData(m) /\ WriterFrame
  <2>1. WriterTypeOK'
    <3>1. offset' \in [Messages -> Nat]
      BY <1>3 DEF WriteData, WriterTypeOK
    <3>2. \A other \in Messages : offset'[other] <= Chunks[other]
      <4>1. /\ offset[m] < Chunks[m]
            /\ offset' = [offset EXCEPT ![m] = offset[m] + 1]
        BY <1>3 DEF WriteData
      <4>2. /\ offset \in [Messages -> Nat] /\ Chunks \in [Messages -> Nat]
            /\ \A other \in Messages : offset[other] <= Chunks[other]
        BY MessageAssumption DEF WriterTypeOK
      <4> HIDE DEF TypeOK
      <4> QED BY ONLY <4>1, <4>2, m \in Messages
    <3>3. UNCHANGED <<sequence, loaded, seq, pc>>
      BY <1>3 DEF WriteData
    <3> HIDE DEF TypeOK
    <3> QED BY <3>1, <3>2, <3>3 DEF TypeOK, WriterTypeOK
  <2>2. wire' \in Seq(Frames)
    BY <1>3, WritesType DEF WriteData, Writes, WriterTypeOK
  <2> QED BY <1>3, <2>1, <2>2, WriterFrameType
<1>4. CASE (WriteEnd(m) \/ WriteAbort(m)) /\ WriterFrame
  <2>1. WriterTypeOK'
    BY <1>4 DEF WriteEnd, WriteAbort, Goes, WriterTypeOK
  <2>2. wire' \in Seq(Frames)
    BY <1>4, WritesType DEF WriteEnd, WriteAbort, Writes, StreamTypeOK
  <2> QED BY <1>4, <2>1, <2>2, WriterFrameType
<1>5. CASE (CancelFirst(m) \/ WriteFails(m)) /\ WriterFrame
  <2>1. WriterTypeOK' /\ wire' = wire
    BY <1>5 DEF CancelFirst, WriteFails, Goes, WriterTypeOK
  <2> QED BY <1>5, <2>1, WriterFrameType DEF StreamTypeOK
<1> QED BY <1>1, <1>2, <1>3, <1>4, <1>5 DEF WriterStep, WriterCancel, NodeStep

\* The stream goes on or ends, with a frame cut short at most.
LEMMA StreamStepType ==
  ASSUME TypeOK, StreamStep
  PROVE  TypeOK'
<1>1. wire' \in Seq(Frames)
  <2>1. CASE StreamEnds
    <3>1. ASSUME NEW m \in Messages, wire' = Append(wire, Frame("cut", seq[m], m, 0))
          PROVE  wire' \in Seq(Frames)
      BY <3>1, WritesType DEF TypeOK
    <3> QED BY <2>1, <3>1 DEF StreamEnds, TypeOK, StreamTypeOK
  <2>2. CASE StreamBreaks
    BY <2>2 DEF StreamBreaks
  <2> QED BY <2>1, <2>2 DEF StreamStep
<1>2. StreamTypeOK'
  BY <1>1 DEF StreamStep, StreamEnds, StreamBreaks, StreamTypeOK
<1>3. WriterTypeOK' /\ ReaderTypeOK' /\ ConsumerTypeOK'
  BY DEF StreamStep, TypeOK, writerVars, readerVars, WriterTypeOK, ReaderTypeOK,
         ConsumerTypeOK
<1>4. UNCHANGED readBuffer
  BY DEF StreamStep, readerVars
<1> QED BY <1>2, <1>3, <1>4 DEF TypeOK

-----------------------------------------------------------------------------
(* The reader.                                                               *)

\* A message handed over is a message.
LEMMA HandType ==
  ASSUME NEW type \in {"complete", "abort", "error"}, NEW number \in Ids,
         NEW data \in Datas
  PROVE  Message(type, number, data) \in MuxMessages
  BY DEF Message, MuxMessages

\* Taking a frame off the stream (ReaderTakes) leaves a stream, and a number.
LEMMA TakesType ==
  ASSUME StreamTypeOK, NEW types, ReaderTakes(types)
  PROVE  /\ wire' \in Seq(Frames)
         /\ Head(wire) \in Frames
         /\ frameID' \in Ids
<1>1. wire \in Seq(Frames) /\ wire # <<>> /\ wire' = Tail(wire)
  BY DEF StreamTypeOK, ReaderTakes
<1>2. Head(wire) \in Frames /\ Tail(wire) \in Seq(Frames)
  BY <1>1, HeadTailProperties
<1> QED BY <1>1, <1>2 DEF ReaderTakes, Frames

\* What a step of the reader does to its own variables is all that can go wrong.
LEMMA ReaderFrameType ==
  ASSUME TypeOK, ReaderStep, ReaderTypeOK', wire' \in Seq(Frames),
         ch' \in Seq(MuxMessages), Len(ch') <= ChanSize,
         \A i \in Ids : Len(readBuffer'[i].data) <= MaxChunks
  PROVE  TypeOK'
<1>1. WriterTypeOK'
  BY DEF ReaderStep, TypeOK, WriterTypeOK, writerVars
<1>2. StreamTypeOK' /\ ConsumerTypeOK'
  BY DEF ReaderStep, TypeOK, StreamTypeOK, ConsumerTypeOK
<1> QED BY <1>1, <1>2 DEF TypeOK

\* The goroutine of ReadMessageHybrid.
LEMMA ReaderStepType ==
  ASSUME TypeOK, ReaderStep
  PROVE  TypeOK'
<1> DEFINE Small == \A i \in Ids : Len(readBuffer'[i].data) <= MaxChunks
           Quiet == wire' = wire /\ ch' = ch
<1>1. CASE ReaderCheck
  <2>1. ReaderTypeOK' /\ UNCHANGED <<wire, ch, readBuffer>>
    BY <1>1, ErrorTypes DEF ReaderCheck, HandsOver, TypeOK, ReaderTypeOK
  <2> QED BY <2>1, ReaderFrameType DEF TypeOK, StreamTypeOK, ConsumerTypeOK
<1>2. CASE ReaderCountsUp \/ ReaderCountsDown
  <2>1. ReaderTypeOK' /\ UNCHANGED <<wire, ch, readBuffer>>
    BY <1>2 DEF ReaderCountsUp, ReaderCountsDown, ReaderGoes, TypeOK, ReaderTypeOK
  <2> QED BY <2>1, ReaderFrameType DEF TypeOK, StreamTypeOK, ConsumerTypeOK
<1>3. CASE ReaderDrops
  <2>1. NoEntry \in [open : BOOLEAN, data : Datas] /\ Len(NoEntry.data) = 0
    BY EmptySeq DEF NoEntry, Datas
  <2>2. ReaderTypeOK' /\ UNCHANGED <<wire, ch>>
    BY <1>3, <2>1 DEF ReaderDrops, ReaderGoes, TypeOK, ReaderTypeOK
  <2>3. Small
    BY <1>3, <2>1, SpaceAssumption DEF ReaderDrops, TypeOK, ReaderTypeOK
  <2> QED BY <2>2, <2>3, ReaderFrameType DEF TypeOK, StreamTypeOK, ConsumerTypeOK
<1>4. CASE ReaderSends
  <2>1. ReaderTypeOK' /\ UNCHANGED <<wire, readBuffer>>
    BY <1>4 DEF ReaderSends, ReaderGoes, TypeOK, ReaderTypeOK
  <2>2. hand \in MuxMessages /\ ch \in Seq(MuxMessages)
    BY DEF TypeOK, ReaderTypeOK, ConsumerTypeOK
  <2>3. ch' \in Seq(MuxMessages) /\ Len(ch') = Len(ch) + 1
    BY <1>4, <2>2, AppendProperties DEF ReaderSends
  <2>4. Len(ch') <= ChanSize
    BY <1>4, <2>2, <2>3, LenProperties, SpaceAssumption DEF ReaderSends
  <2> QED BY <2>1, <2>3, <2>4, ReaderFrameType DEF TypeOK, StreamTypeOK
<1>5. CASE ReadEnds
  <2>1. ReaderTypeOK' /\ UNCHANGED <<wire, ch, readBuffer>>
    BY <1>5, ErrorTypes DEF ReadEnds, HandsOver, TypeOK, ReaderTypeOK
  <2> QED BY <2>1, ReaderFrameType DEF TypeOK, StreamTypeOK, ConsumerTypeOK
<1>6. CASE ReadCut
  <2>1. wire' \in Seq(Frames) /\ frameID' \in Ids
    BY <1>6, TakesType DEF ReadCut, TypeOK
  <2>2. ReaderTypeOK' /\ UNCHANGED <<ch, readBuffer>>
    BY <1>6, <2>1, ErrorTypes DEF ReadCut, HandsOver, TypeOK, ReaderTypeOK
  <2> QED BY <2>1, <2>2, ReaderFrameType DEF TypeOK, ConsumerTypeOK
<1>7. CASE ReadStart
  <2>1. wire' \in Seq(Frames) /\ frameID' \in Ids
    BY <1>7, TakesType DEF ReadStart, TypeOK
  <2>2. Entry(<<>>) \in [open : BOOLEAN, data : Datas] /\ Len(Entry(<<>>).data) = 0
    BY EmptySeq DEF Entry, Datas
  <2>3. readBuffer' \in [Ids -> [open : BOOLEAN, data : Datas]]
    BY <1>7, <2>1, <2>2 DEF ReadStart, TypeOK, ReaderTypeOK
  <2>4. /\ hand' \in MuxMessages /\ reader' \in {"opened", "send"}
        /\ after' \in {"check", "count", "drop", "ended"}
    BY <1>7, ErrorTypes DEF ReadStart, HandsOver, TypeOK, ReaderTypeOK
  <2>5. ReaderTypeOK' /\ UNCHANGED ch
    BY <1>7, <2>1, <2>3, <2>4 DEF ReadStart, TypeOK, ReaderTypeOK
  <2>6. Small
    <3>1. \A i \in Ids : readBuffer'[i] \in {readBuffer[i], Entry(<<>>)}
      BY <1>7, <2>1 DEF ReadStart, TypeOK, ReaderTypeOK
    <3>2. \A i \in Ids : Len(readBuffer[i].data) <= MaxChunks
      BY DEF TypeOK, ReaderTypeOK
    <3> QED BY <2>2, <3>1, <3>2, SpaceAssumption
  <2> QED BY <2>1, <2>5, <2>6, ReaderFrameType DEF TypeOK, ConsumerTypeOK
<1>8. CASE ReadLast
  <2>1. wire' \in Seq(Frames) /\ frameID' \in Ids
    BY <1>8, TakesType DEF ReadLast, TypeOK
  <2>2. NoEntry \in [open : BOOLEAN, data : Datas] /\ Len(NoEntry.data) = 0
    BY EmptySeq DEF NoEntry, Datas
  <2>3. readBuffer[frameID'].data \in Datas
    BY <2>1 DEF TypeOK, ReaderTypeOK
  <2>4. hand' \in MuxMessages
    BY <1>8, <2>1, <2>3, HandType, ErrorTypes DEF ReadLast, HandsOver
  <2>5. ReaderTypeOK' /\ UNCHANGED ch
    BY <1>8, <2>1, <2>2, <2>4 DEF ReadLast, HandsOver, TypeOK, ReaderTypeOK
  <2>6. Small
    BY <1>8, <2>1, <2>2, SpaceAssumption DEF ReadLast, TypeOK, ReaderTypeOK
  <2> QED BY <2>1, <2>5, <2>6, ReaderFrameType DEF TypeOK, ConsumerTypeOK
<1>9. CASE ReadData
  <2>1. wire' \in Seq(Frames) /\ frameID' \in Ids /\ Head(wire) \in Frames
    BY <1>9, TakesType DEF ReadData, TypeOK
  <2> DEFINE data == readBuffer[frameID'].data
             more == Append(data, Chunk(Head(wire).of, Head(wire).at))
  <2>2. data \in Seq(AllChunks)
    BY <2>1 DEF TypeOK, ReaderTypeOK, Datas
  <2>3. Chunk(Head(wire).of, Head(wire).at) \in AllChunks
    BY <2>1 DEF Chunk, AllChunks, Frames
  <2>4. more \in Datas /\ Len(more) = Len(data) + 1
    BY <2>2, <2>3, AppendProperties DEF Datas
  <2>5. UNCHANGED ch /\ pendingMessages' \in Int
    BY <1>9 DEF ReadData, TypeOK, ReaderTypeOK
  <2>6. CASE UNCHANGED readBuffer /\ (HandsOver(ErrorMessage, "check") \/ HandsOver(ErrorMessage, "drop"))
    <3>1. ReaderTypeOK'
      BY <2>1, <2>5, <2>6, ErrorTypes DEF HandsOver, TypeOK, ReaderTypeOK
    <3> QED BY <2>1, <2>5, <2>6, <3>1, ReaderFrameType DEF TypeOK, ConsumerTypeOK
  <2>7. CASE /\ readBuffer' = [readBuffer EXCEPT ![frameID'].data = more]
             /\ ~(Len(data) + 1 > MaxChunks)
             /\ reader' = "check" /\ UNCHANGED <<hand, after>>
    <3> HIDE DEF more
    <3>1. ReaderTypeOK'
      BY <2>1, <2>4, <2>5, <2>7 DEF TypeOK, ReaderTypeOK
    <3>2. Small
      BY <2>1, <2>2, <2>4, <2>7, LenProperties, SpaceAssumption DEF TypeOK, ReaderTypeOK
    <3> QED BY <2>1, <2>5, <3>1, <3>2, ReaderFrameType DEF TypeOK, ConsumerTypeOK
  <2> QED BY <1>9, <2>6, <2>7 DEF ReadData
<1> QED BY <1>1, <1>2, <1>3, <1>4, <1>5, <1>6, <1>7, <1>8, <1>9 DEF ReaderStep

\* Close, a cancelled reader, and the consumer.
LEMMA ConsumerStepType ==
  ASSUME TypeOK, CloseNode \/ StopReading \/ Receive
  PROVE  TypeOK'
<1>1. CASE CloseNode
  <2>1. NoEntry \in [open : BOOLEAN, data : Datas] /\ Len(NoEntry.data) = 0
    BY EmptySeq DEF NoEntry, Datas
  <2>2. ReaderTypeOK' /\ \A i \in Ids : Len(readBuffer'[i].data) <= MaxChunks
    BY <1>1, <2>1, SpaceAssumption DEF CloseNode, TypeOK, ReaderTypeOK
  <2>3. WriterTypeOK' /\ StreamTypeOK' /\ ConsumerTypeOK'
    BY <1>1 DEF CloseNode, TypeOK, WriterTypeOK, StreamTypeOK, ConsumerTypeOK, writerVars
  <2> QED BY <2>2, <2>3 DEF TypeOK
<1>2. CASE StopReading
  BY <1>2 DEF StopReading, TypeOK, WriterTypeOK, ReaderTypeOK, StreamTypeOK,
              ConsumerTypeOK, writerVars, readerVars
<1>3. CASE Receive
  <2>1. ch \in Seq(MuxMessages) /\ ch # <<>> /\ ch' = Tail(ch)
    BY <1>3 DEF Receive, TypeOK, ConsumerTypeOK
  <2>2. /\ Head(ch) \in MuxMessages /\ ch' \in Seq(MuxMessages)
        /\ Len(ch') = Len(ch) - 1 /\ Len(ch) \in Nat
    BY <2>1, HeadTailProperties, LenProperties
  <2>3. Delivered(Head(ch)) \in [seq : Ids, data : Datas]
    BY <2>2 DEF Delivered, MuxMessages
  <2>4. received' \in Seq([seq : Ids, data : Datas])
    BY <1>3, <2>3, AppendProperties DEF Receive, TypeOK, ConsumerTypeOK
  <2>5. ConsumerTypeOK'
    BY <1>3, <2>2, <2>4, SpaceAssumption DEF Receive, TypeOK, ConsumerTypeOK
  <2>6. WriterTypeOK' /\ StreamTypeOK' /\ ReaderTypeOK'
    BY <1>3 DEF Receive, TypeOK, WriterTypeOK, StreamTypeOK, ReaderTypeOK, writerVars, readerVars
  <2>7. UNCHANGED readBuffer
    BY <1>3 DEF Receive, readerVars
  <2> QED BY <2>5, <2>6, <2>7 DEF TypeOK
<1> QED BY <1>1, <1>2, <1>3

\* Every step.
LEMMA NextType == TypeOK /\ [Next]_vars => TypeOK'
<1> SUFFICES ASSUME TypeOK, [Next]_vars PROVE TypeOK'
  OBVIOUS
<1>1. ASSUME NEW m \in Messages, WriterStep(m) \/ WriterCancel(m) PROVE TypeOK'
  BY <1>1, WriterStepType
<1>2. CASE UNCHANGED vars
  BY <1>2 DEF vars, writerVars, readerVars, TypeOK, WriterTypeOK, ReaderTypeOK,
              StreamTypeOK, ConsumerTypeOK
<1> QED BY <1>1, <1>2, StreamStepType, ReaderStepType, ConsumerStepType DEF Next

\* Variables keep their types; a buffered message stays within maxDataLength and
\* the channel within its capacity, whatever is written, cut or cancelled.
THEOREM TypeCorrect == Spec => []TypeOK
<1> QED BY InitType, NextType, PTL DEF Spec
-----------------------------------------------------------------------------
(* NoOrphans.  The strengthening says of the frames on the open stream what   *)
(* it needs: whose they are, and that a Start frame is not the last of its    *)
(* message, unless that message is under way.                                 *)

Numbered(m) == pc[m] \notin {"load", "store", "number", "begin"}
LastComes(m, k) == \E j \in k .. Len(wire) : wire[j].of = m /\ IsLast(wire[j])

FramesNumbered ==
  \A k \in 1 .. Len(wire) : /\ Numbered(wire[k].of)
                            /\ wire[k].id = seq[wire[k].of]

StartedEnds ==
  \A k \in 1 .. Len(wire) : wire[k].type = "start" =>
    UnderWay(wire[k].of) \/ LastComes(wire[k].of, k + 1)

EntriesEnd ==
  \A i \in Entries : \E m \in Messages :
    seq[m] = i /\ (UnderWay(m) \/ LastComes(m, 1))

\* Inductive, with TypeOK: it says nothing of a stream that has ended.
OrphanInv == stream = "open" => FramesNumbered /\ StartedEnds /\ EntriesEnd

\* What TypeOK says of a frame on the stream.
LEMMA OnTheWire ==
  ASSUME TypeOK, NEW k \in 1 .. Len(wire)
  PROVE  wire[k] \in Frames /\ wire[k].of \in Messages /\ Len(wire) \in Nat
<1>1. wire \in Seq(Frames)
  BY DEF TypeOK, StreamTypeOK
<1>2. wire[k] \in Frames /\ Len(wire) \in Nat
  BY <1>1, ElementOfSeq, LenProperties
<1> QED BY <1>2 DEF Frames

\* A writer that has not got its number yet, or gives up before its Start frame,
\* has nothing on the stream and nothing in readBuffer.
LEMMA NumberingOrphans ==
  ASSUME TypeOK, OrphanInv, UNCHANGED <<wire, stream, readBuffer>>,
         NEW m \in Messages, ~Numbered(m),
         \A other \in Messages \ {m} : pc'[other] = pc[other] /\ seq'[other] = seq[other]
  PROVE  OrphanInv'
<1> SUFFICES ASSUME stream = "open" PROVE (FramesNumbered /\ StartedEnds /\ EntriesEnd)'
  BY DEF OrphanInv
<1>1. FramesNumbered /\ StartedEnds /\ EntriesEnd
  BY DEF OrphanInv
<1>2. \A k \in 1 .. Len(wire) : wire[k].of \in Messages \ {m}
  BY <1>1, OnTheWire DEF FramesNumbered
<1>3. \A other \in Messages \ {m} : (UnderWay(other)' <=> UnderWay(other))
                                    /\ (Numbered(other)' <=> Numbered(other))
  BY DEF UnderWay, Numbered
<1>4. FramesNumbered'
  BY <1>1, <1>2, <1>3 DEF FramesNumbered
<1>5. \A w, k : LastComes(w, k)' <=> LastComes(w, k)
  BY DEF LastComes, IsLast
<1>6. StartedEnds'
  BY <1>1, <1>2, <1>3, <1>5 DEF StartedEnds
<1>7. EntriesEnd'
  <2>1. ASSUME NEW i \in Entries' PROVE (\E w \in Messages : seq[w] = i /\ (UnderWay(w) \/ LastComes(w, 1)))'
    <3>1. i \in Entries
      BY <2>1 DEF Entries
    <3>2. PICK w \in Messages : seq[w] = i /\ (UnderWay(w) \/ LastComes(w, 1))
      BY <1>1, <3>1 DEF EntriesEnd
    <3>3. w # m
      BY <1>2, <3>2 DEF LastComes, UnderWay, Numbered
    <3> QED BY <1>3, <1>5, <3>2, <3>3
  <2> QED BY <2>1 DEF EntriesEnd
<1> QED BY <1>4, <1>6, <1>7

\* A frame written on the open stream is its writer's, and its writer is under
\* way unless it is the last frame of the message.
LEMMA WritingOrphans ==
  ASSUME TypeOK, OrphanInv, UNCHANGED <<stream, readBuffer, seq>>,
         NEW m \in Messages, NEW f \in Frames, f.of = m, f.id = seq[m],
         wire' = Append(wire, f), Numbered(m)', UnderWay(m)' \/ IsLast(f),
         \A other \in Messages \ {m} : pc'[other] = pc[other]
  PROVE  OrphanInv'
<1> SUFFICES ASSUME stream = "open" PROVE (FramesNumbered /\ StartedEnds /\ EntriesEnd)'
  BY DEF OrphanInv
<1>1. FramesNumbered /\ StartedEnds /\ EntriesEnd
  BY DEF OrphanInv
<1>2. /\ Len(wire) \in Nat /\ Len(wire') = Len(wire) + 1
      /\ \A k \in 1 .. Len(wire) : wire'[k] = wire[k]
      /\ wire'[Len(wire) + 1] = f
  <2>1. wire \in Seq(Frames)
    BY DEF TypeOK, StreamTypeOK
  <2> QED BY <2>1, AppendProperties, LenProperties
<1>3. \A k \in 1 .. Len(wire) : wire[k].of \in Messages
  BY OnTheWire
<1>4. \A k \in 1 .. Len(wire)' : k \in 1 .. Len(wire) \/ k = Len(wire) + 1
  BY <1>2
<1>5. \A other \in Messages \ {m} : (UnderWay(other) => UnderWay(other)')
                                    /\ (Numbered(other) => Numbered(other)')
  BY DEF UnderWay, Numbered
<1>6. FramesNumbered'
  BY <1>1, <1>2, <1>3, <1>4, <1>5 DEF FramesNumbered
<1>7. \A w, k : LastComes(w, k) /\ k \in Nat \ {0} => LastComes(w, k)'
  BY <1>2 DEF LastComes, IsLast
<1>8. ASSUME NEW k \in 1 .. Len(wire) + 1 PROVE UnderWay(m)' \/ LastComes(m, k)'
  BY <1>2 DEF LastComes, IsLast
<1>9. StartedEnds'
  <2>1. ASSUME NEW k \in 1 .. Len(wire), wire[k].type = "start"
        PROVE  UnderWay(wire[k].of)' \/ LastComes(wire[k].of, k + 1)'
    <3>1. CASE wire[k].of = m
      BY <1>2, <1>8, <3>1
    <3>2. CASE wire[k].of # m
      BY <1>1, <1>2, <1>3, <1>5, <1>7, <2>1, <3>2 DEF StartedEnds
    <3> QED BY <3>1, <3>2
  <2>2. f.type = "start" => UnderWay(m)'
    BY DEF IsLast
  <2> QED BY <1>2, <1>4, <2>1, <2>2 DEF StartedEnds
<1>10. EntriesEnd'
  <2>1. ASSUME NEW i \in Entries' PROVE (\E w \in Messages : seq[w] = i /\ (UnderWay(w) \/ LastComes(w, 1)))'
    <3>1. i \in Entries
      BY <2>1 DEF Entries
    <3>2. PICK w \in Messages : seq[w] = i /\ (UnderWay(w) \/ LastComes(w, 1))
      BY <1>1, <3>1 DEF EntriesEnd
    <3>3. UnderWay(w)' \/ LastComes(w, 1)'
      BY <1>2, <1>5, <1>7, <1>8, <3>2
    <3> QED BY <3>2, <3>3
  <2> QED BY <2>1 DEF EntriesEnd
<1> QED BY <1>6, <1>9, <1>10

\* The reader takes the first frame.  It keeps its entries, without the one a
\* last frame names and with the one a Start frame names.
LEMMA ReadingOrphans ==
  ASSUME TypeOK, OrphanInv, UNCHANGED <<writerVars, stream>>,
         wire # <<>>, wire' = Tail(wire),
         \A i \in Entries' :
           \/ i \in Entries /\ (IsLast(Head(wire)) => i # Head(wire).id)
           \/ Head(wire).type = "start" /\ i = Head(wire).id
  PROVE  OrphanInv'
<1> SUFFICES ASSUME stream = "open" PROVE (FramesNumbered /\ StartedEnds /\ EntriesEnd)'
  BY DEF OrphanInv
<1>1. FramesNumbered /\ StartedEnds /\ EntriesEnd
  BY DEF OrphanInv
<1>2. /\ Len(wire) \in Nat \ {0} /\ Len(wire') = Len(wire) - 1
      /\ \A k \in 1 .. Len(wire) - 1 : wire'[k] = wire[k + 1]
      /\ Head(wire) = wire[1]
  <2>1. wire \in Seq(Frames)
    BY DEF TypeOK, StreamTypeOK
  <2> QED BY <2>1, HeadTailProperties, LenProperties, EmptySeq
<1>3. UNCHANGED <<seq, pc>>
  BY DEF writerVars
<1>4. \A w : (UnderWay(w)' <=> UnderWay(w)) /\ (Numbered(w)' <=> Numbered(w))
  BY <1>3 DEF UnderWay, Numbered
<1>5. \A k \in 1 .. Len(wire)' : k + 1 \in 1 .. Len(wire) /\ wire'[k] = wire[k + 1]
  BY <1>2
<1>6. FramesNumbered'
  BY <1>1, <1>3, <1>4, <1>5 DEF FramesNumbered
<1>7. ASSUME NEW w, NEW k \in Nat \ {0}, LastComes(w, k + 1) PROVE LastComes(w, k)'
  <2>1. PICK j \in k + 1 .. Len(wire) : wire[j].of = w /\ IsLast(wire[j])
    BY <1>7 DEF LastComes
  <2>2. j - 1 \in k .. Len(wire)' /\ wire'[j - 1] = wire[j]
    BY <1>2, <2>1
  <2> QED BY <2>1, <2>2 DEF LastComes, IsLast
<1>8. StartedEnds'
  BY <1>1, <1>4, <1>5, <1>7 DEF StartedEnds
<1>9. EntriesEnd'
  <2> SUFFICES ASSUME NEW i \in Entries'
               PROVE  (\E w \in Messages : seq[w] = i /\ (UnderWay(w) \/ LastComes(w, 1)))'
    BY DEF EntriesEnd
  <2>1. CASE i \in Entries /\ (IsLast(wire[1]) => i # wire[1].id)
    <3>1. PICK w \in Messages : seq[w] = i /\ (UnderWay(w) \/ LastComes(w, 1))
      BY <1>1, <2>1 DEF EntriesEnd
    <3>2. LastComes(w, 1) => LastComes(w, 2)
      BY <1>1, <1>2, <2>1, <3>1 DEF LastComes, FramesNumbered
    <3> QED BY <1>3, <1>4, <1>7, <3>1, <3>2
  <2>2. CASE wire[1].type = "start" /\ i = wire[1].id
    <3>1. wire[1].of \in Messages /\ seq[wire[1].of] = i
      BY <1>1, <1>2, <2>2, OnTheWire DEF FramesNumbered
    <3>2. UnderWay(wire[1].of) \/ LastComes(wire[1].of, 2)
      BY <1>1, <1>2, <2>2 DEF StartedEnds
    <3> QED BY <1>3, <1>4, <1>7, <3>1, <3>2
  <2> QED BY <1>2, <2>1, <2>2
<1> QED BY <1>6, <1>8, <1>9

\* Everything else drops entries at most.
LEMMA QuietOrphans ==
  ASSUME OrphanInv, UNCHANGED <<writerVars, stream, wire>>, Entries' \subseteq Entries
  PROVE  OrphanInv'
<1>1. UNCHANGED <<seq, pc>>
  BY DEF writerVars
<1>2. FramesNumbered => FramesNumbered'
  BY <1>1 DEF FramesNumbered, Numbered
<1>3. \A w, k : LastComes(w, k)' <=> LastComes(w, k)
  BY DEF LastComes, IsLast
<1>4. StartedEnds => StartedEnds'
  BY <1>1, <1>3 DEF StartedEnds, UnderWay
<1>5. EntriesEnd => EntriesEnd'
  BY <1>1, <1>3 DEF EntriesEnd, UnderWay
<1> QED BY <1>2, <1>4, <1>5 DEF OrphanInv

\* The writers, frame by frame.
LEMMA WriterOrphans ==
  ASSUME TypeOK, OrphanInv, NEW m \in Messages, WriterStep(m) \/ WriterCancel(m)
  PROVE  OrphanInv'
<1> USE DEF Goes
<1>1. pc \in [Messages -> {"load", "store", "number", "begin", "body", "sent",
                           "cancelled", "aborted", "failed"}]
      /\ seq \in [Messages -> Ids] /\ offset \in [Messages -> Nat]
  BY DEF TypeOK, WriterTypeOK
<1>2. UNCHANGED <<stream, readBuffer>>
  BY DEF WriterStep, WriterCancel, WriterFrame, readerVars
<1>3. CASE AdapterStep(m) \/ CancelFirst(m)
  <2>1. ~Numbered(m) /\ UNCHANGED wire
    BY <1>3 DEF AdapterStep, AdapterLoad, AdapterStore, AdapterNumber, CancelFirst, Numbered
  <2>2. \A other \in Messages \ {m} : pc'[other] = pc[other] /\ seq'[other] = seq[other]
    BY <1>1, <1>3 DEF AdapterStep, AdapterLoad, AdapterStore, AdapterNumber, CancelFirst
  <2> QED BY <1>2, <2>1, <2>2, NumberingOrphans
<1>4. CASE stream # "open"
  BY <1>2, <1>4 DEF OrphanInv
<1>5. CASE stream = "open" /\ (WriteStart(m) \/ WriteData(m) \/ WriteEnd(m) \/ WriteAbort(m))
  <2>1. PICK type \in {"start", "data", "end", "abort"}, at \in Nat :
          /\ wire' = Append(wire, Frame(type, seq[m], m, at))
          /\ pc'[m] = "body" \/ (pc'[m] \in {"sent", "aborted"} /\ type \in {"end", "abort"})
    <3>1. CASE WriteStart(m)
      BY <1>1, <3>1 DEF WriteStart, Writes
    <3>2. CASE WriteData(m)
      BY <1>1, <3>2 DEF WriteData, Writes, UnderWay
    <3>3. CASE WriteEnd(m)
      BY <1>1, <3>3 DEF WriteEnd, Writes
    <3>4. CASE WriteAbort(m)
      BY <1>1, <1>5, <3>4 DEF WriteAbort, Writes
    <3> QED BY <1>5, <3>1, <3>2, <3>3, <3>4
  <2> DEFINE f == Frame(type, seq[m], m, at)
  <2>2. f \in Frames /\ f.of = m /\ f.id = seq[m] /\ f.type = type
    BY <1>1 DEF Frame, Frames
  <2>3. UNCHANGED seq /\ \A other \in Messages \ {m} : pc'[other] = pc[other]
    BY <1>1, <1>5 DEF WriteStart, WriteData, WriteEnd, WriteAbort
  <2>4. Numbered(m)' /\ (UnderWay(m)' \/ IsLast(f))
    BY <2>1, <2>2 DEF Numbered, UnderWay, IsLast
  <2> HIDE DEF f
  <2>5. wire' = Append(wire, f)
    BY <2>1 DEF f
  <2> QED BY <1>2, <2>2, <2>3, <2>4, <2>5, WritingOrphans
<1> QED BY <1>3, <1>4, <1>5 DEF WriterStep, WriterCancel, NodeStep, WriteFails

\* The reader, frame by frame.
LEMMA ReaderOrphans ==
  ASSUME TypeOK, OrphanInv, ReaderStep
  PROVE  OrphanInv'
<1>1. UNCHANGED <<writerVars, stream>>
  BY DEF ReaderStep
<1>2. readBuffer \in [Ids -> [open : BOOLEAN, data : Datas]]
  BY DEF TypeOK, ReaderTypeOK
<1>3. CASE ReaderCheck \/ ReaderCountsUp \/ ReaderCountsDown \/ ReadEnds \/ ReaderSends
  <2>1. UNCHANGED <<wire, readBuffer>>
    BY <1>3 DEF ReaderCheck, ReaderCountsUp, ReaderCountsDown, ReadEnds, ReaderSends
  <2> QED BY <1>1, <2>1, QuietOrphans DEF Entries
<1>4. CASE ReaderDrops
  <2>1. UNCHANGED wire /\ Entries' \subseteq Entries
    BY <1>2, <1>4 DEF ReaderDrops, Entries, NoEntry
  <2> QED BY <1>1, <2>1, QuietOrphans
<1>5. ASSUME NEW types, ReaderTakes(types)
      PROVE  /\ wire # <<>> /\ wire' = Tail(wire) /\ Head(wire).type \in types
             /\ frameID' = Head(wire).id /\ frameID' \in Ids
  <2>1. frameID' \in Ids
    BY <1>5, TakesType DEF TypeOK
  <2> QED BY <1>5, <2>1 DEF ReaderTakes
<1>6. CASE ReadStart
  <2>1. \A i \in Entries' : i \in Entries \/ i = Head(wire).id
    BY <1>2, <1>5, <1>6 DEF ReadStart, Entries
  <2>2. Head(wire).type = "start"
    BY <1>5, <1>6 DEF ReadStart
  <2> QED BY <1>1, <1>5, <1>6, <2>1, <2>2, ReadingOrphans DEF ReadStart, IsLast
<1>7. CASE ReadData
  <2>1. \A i \in Entries' : i \in Entries
    BY <1>2, <1>5, <1>7 DEF ReadData, Entries
  <2>2. ~IsLast(Head(wire))
    BY <1>5, <1>7 DEF ReadData, IsLast
  <2> QED BY <1>1, <1>5, <1>7, <2>1, <2>2, ReadingOrphans DEF ReadData
<1>8. CASE ReadLast
  <2>1. \A i \in Entries' : i \in Entries /\ i # Head(wire).id
    BY <1>2, <1>5, <1>8 DEF ReadLast, Entries, NoEntry
  <2> QED BY <1>1, <1>5, <1>8, <2>1, ReadingOrphans DEF ReadLast
<1>9. CASE ReadCut
  <2>1. Entries' = Entries
    BY <1>9 DEF ReadCut, Entries
  <2>2. ~IsLast(Head(wire))
    BY <1>5, <1>9 DEF ReadCut, IsLast
  <2> QED BY <1>1, <1>5, <1>9, <2>1, <2>2, ReadingOrphans DEF ReadCut
<1> QED BY <1>3, <1>4, <1>6, <1>7, <1>8, <1>9 DEF ReaderStep

\* Every step.
LEMMA NextOrphans == TypeOK /\ OrphanInv /\ [Next]_vars => OrphanInv'
<1> SUFFICES ASSUME TypeOK, OrphanInv, [Next]_vars PROVE OrphanInv'
  OBVIOUS
<1>1. ASSUME NEW m \in Messages, WriterStep(m) \/ WriterCancel(m) PROVE OrphanInv'
  BY <1>1, WriterOrphans
<1>2. CASE StreamStep
  BY <1>2 DEF StreamStep, StreamEnds, StreamBreaks, OrphanInv
<1>3. CASE CloseNode
  <2>1. Entries' \subseteq Entries
    BY <1>3 DEF CloseNode, Entries, NoEntry
  <2> QED BY <1>3, <2>1, QuietOrphans DEF CloseNode
<1>4. CASE StopReading \/ Receive \/ UNCHANGED vars
  <2>1. UNCHANGED <<writerVars, stream, wire, readBuffer>>
    BY <1>4 DEF StopReading, Receive, vars, readerVars
  <2> QED BY <2>1, QuietOrphans DEF Entries
<1> QED BY <1>1, <1>2, <1>3, <1>4, ReaderOrphans DEF Next

\* As long as the stream is open an entry of readBuffer belongs to a message that
\* is still being written, or whose End or Abort frame is on its way: cancelled
\* writes (the abort branches of writeHybrid) leave nothing behind in the peer,
\* for any messages, whether or not their numbers are distinct.
THEOREM NoOrphansHolds == Spec => []NoOrphans
<1>1. Init => OrphanInv
  <2>1. ASSUME Init PROVE Len(wire) = 0 /\ Entries = {}
    BY <2>1, EmptySeq DEF Init, Entries, NoEntry
  <2> QED BY <2>1 DEF OrphanInv, FramesNumbered, StartedEnds, EntriesEnd
<1>2. OrphanInv => NoOrphans
  BY DEF OrphanInv, NoOrphans, EntriesEnd, LastComes, IsLast
<1> QED BY <1>1, <1>2, InitType, NextType, NextOrphans, PTL DEF Spec

-----------------------------------------------------------------------------
(* PendingExact.  Between the two updates the metric and readBuffer disagree  *)
(* by what the reader has still to count; a Close sets the metric to zero     *)
(* whatever that is, once, and the difference stays.                         *)

\* What the reader will still add to the metric, less what it will still add to
\* readBuffer, with the sign turned.
Owed ==
  CASE reader = "opened" -> -1
    [] reader = "count" \/ (reader = "send" /\ after = "count") -> 1
    [] reader = "drop" \/ (reader = "send" /\ after = "drop") ->
         IF readBuffer[frameID].open THEN 0 ELSE 1
    [] OTHER -> 0
Drift == pendingMessages - Cardinality(Entries) - Owed

PendingInv == Drift \in IF nodeClosed THEN -1 .. 1 ELSE {0}

\* The entries, counted, after one number is opened or closed.
LEMMA EntriesCount ==
  ASSUME TypeOK
  PROVE  /\ IsFiniteSet(Entries) /\ Cardinality(Entries) \in Nat
         /\ Cardinality(Entries) = 0 <=> Entries = {}
         /\ \A i \in Ids : Cardinality(Entries \cup {i}) =
              IF i \in Entries THEN Cardinality(Entries) ELSE Cardinality(Entries) + 1
         /\ \A i \in Ids : Cardinality(Entries \ {i}) =
              IF i \in Entries THEN Cardinality(Entries) - 1 ELSE Cardinality(Entries)
<1>1. IsFiniteSet(Ids) /\ Entries \subseteq Ids
  BY FS_Interval, SpaceAssumption DEF Ids, Entries
<1>2. IsFiniteSet(Entries)
  BY <1>1, FS_Subset
<1> QED BY <1>2, FS_CardinalityType, FS_EmptySet, FS_AddElement, FS_RemoveElement

\* The reader.
LEMMA ReaderPending ==
  ASSUME TypeOK, PendingInv, ReaderStep
  PROVE  PendingInv'
<1> DEFINE C == Cardinality(Entries)
<1>1. /\ readBuffer \in [Ids -> [open : BOOLEAN, data : Datas]] /\ frameID \in Ids
      /\ pendingMessages \in Int /\ after \in {"check", "count", "drop", "ended"}
      /\ C \in Nat /\ UNCHANGED nodeClosed
  BY EntriesCount DEF TypeOK, ReaderTypeOK, ReaderStep
<1>2. ASSUME Drift' = Drift PROVE PendingInv'
  BY <1>1, <1>2 DEF PendingInv
<1>3. CASE ReaderCheck \/ ReaderCountsUp \/ ReaderCountsDown \/ ReadEnds \/ ReaderSends
  <2>1. UNCHANGED <<readBuffer, frameID>> /\ C' = C
    BY <1>3 DEF ReaderCheck, ReaderCountsUp, ReaderCountsDown, ReadEnds, ReaderSends, Entries
  <2>2. pendingMessages' - Owed' = pendingMessages - Owed
    BY <1>1, <1>3, <2>1 DEF ReaderCheck, ReaderCountsUp, ReaderCountsDown, ReadEnds, ReaderSends,
                            ReaderGoes, HandsOver, Owed
  <2>3. Owed \in Int /\ Owed' \in Int /\ pendingMessages' \in Int
    BY <1>1, <1>3 DEF Owed, ReaderCheck, ReaderCountsUp, ReaderCountsDown, ReadEnds, ReaderSends
  <2>4. pendingMessages' - C - Owed' = pendingMessages - C - Owed
    <3>1. PICK p \in Int, q \in Int, o \in Int, r \in Int :
            p = pendingMessages /\ q = pendingMessages' /\ o = Owed /\ r = Owed'
      BY <1>1, <2>3
    <3>2. q - r = p - o
      BY <2>2, <3>1
    <3>3. q - C - r = p - C - o
      BY <1>1, <3>2
    <3> QED BY <3>1, <3>3
  <2> QED BY <1>2, <2>1, <2>4 DEF Drift
<1>4. CASE ReaderDrops
  <2>1. Entries' = Entries \ {frameID} /\ reader = "drop" /\ reader' = "count"
    BY <1>1, <1>4 DEF ReaderDrops, ReaderGoes, Entries, NoEntry
  <2>2. C' = IF frameID \in Entries THEN C - 1 ELSE C
    BY <1>1, <2>1, EntriesCount
  <2>3. Owed' = 1 /\ Owed = IF frameID \in Entries THEN 0 ELSE 1
    BY <1>1, <2>1 DEF Owed, Entries
  <2> QED BY <1>1, <1>2, <1>4, <2>2, <2>3 DEF Drift, ReaderDrops
<1>5. CASE ReadStart \/ ReadData \/ ReadLast \/ ReadCut
  <2>1. reader = "read" /\ Owed = 0 /\ UNCHANGED pendingMessages
    BY <1>5 DEF ReadStart, ReadData, ReadLast, ReadCut, ReaderTakes, Owed
  <2>2. frameID' \in Ids
    <3>1. \E types : ReaderTakes(types)
      BY <1>5 DEF ReadStart, ReadData, ReadLast, ReadCut
    <3> QED BY <3>1, TakesType DEF TypeOK
  <2>3. CASE Entries' = Entries /\ Owed' = 0
    BY <1>1, <1>2, <2>1, <2>3 DEF Drift
  <2>4. CASE ReadStart /\ ~readBuffer[frameID'].open
    <3>1. Entries' = Entries \cup {frameID'} /\ reader' = "opened"
      BY <1>1, <2>2, <2>4 DEF ReadStart, Entries, Entry
    <3>2. C' = C + 1 /\ Owed' = -1
      BY <2>2, <2>4, <3>1, EntriesCount DEF Owed, Entries
    <3> QED BY <1>1, <1>2, <2>1, <3>2 DEF Drift
  <2>5. CASE ReadLast /\ readBuffer[frameID'].open
    <3>1. Entries' = Entries \ {frameID'} /\ reader' = "send" /\ after' = "count"
      BY <1>1, <2>2, <2>5 DEF ReadLast, HandsOver, Entries, NoEntry
    <3>2. C' = C - 1 /\ Owed' = 1
      BY <2>2, <2>5, <3>1, EntriesCount DEF Owed, Entries
    <3> QED BY <1>1, <1>2, <2>1, <3>2 DEF Drift
  <2>6. CASE ReadCut \/ (ReadStart /\ readBuffer[frameID'].open)
                     \/ (ReadLast /\ ~readBuffer[frameID'].open)
    <3>1. UNCHANGED readBuffer /\ (reader' = "ended" \/ (reader' = "send" /\ after' = "check"))
      BY <2>6 DEF ReadCut, ReadStart, ReadLast, HandsOver
    <3> QED BY <2>3, <3>1 DEF Entries, Owed
  <2>7. CASE ReadData
    <3>1. Entries' = Entries
      BY <1>1, <2>2, <2>7 DEF ReadData, Entries
    <3>2. \/ reader' = "check"
          \/ reader' = "send" /\ after' = "check"
          \/ reader' = "send" /\ after' = "drop" /\ readBuffer'[frameID'].open
      BY <2>7 DEF ReadData, HandsOver
    <3> QED BY <2>3, <3>1, <3>2 DEF Owed
  <2> QED BY <1>5, <2>4, <2>5, <2>6, <2>7
<1> QED BY <1>3, <1>4, <1>5 DEF ReaderStep

\* Every step.
LEMMA NextPending == TypeOK /\ PendingInv /\ [Next]_vars => PendingInv'
<1> SUFFICES ASSUME TypeOK, PendingInv, [Next]_vars PROVE PendingInv'
  OBVIOUS
<1>1. CASE CloseNode
  <2>1. Entries' = {} /\ Cardinality(Entries') = 0
    BY <1>1, FS_EmptySet DEF CloseNode, Entries, NoEntry
  <2>2. Cardinality(Entries) \in Nat /\ (Cardinality(Entries) = 0 <=> Entries = {})
    BY EntriesCount
  <2>3. /\ nodeClosed = FALSE /\ nodeClosed' = TRUE /\ UNCHANGED <<reader, after, frameID>>
        /\ pendingMessages' = IF Entries # {} THEN 0 ELSE pendingMessages
        /\ \A i \in Ids : ~readBuffer'[i].open
    BY <1>1 DEF CloseNode, Entries, NoEntry
  <2>4. Owed \in -1 .. 1 /\ Owed' \in -1 .. 1 /\ frameID \in Ids /\ pendingMessages \in Int
    BY DEF Owed, TypeOK, ReaderTypeOK
  <2>5. Entries = {} => Owed' = Owed
    BY <2>3, <2>4 DEF Owed, Entries
  <2> QED BY <2>1, <2>2, <2>3, <2>4, <2>5 DEF PendingInv, Drift
<1>2. CASE ~ReaderStep /\ ~CloseNode
  <2>1. UNCHANGED <<readerVars, nodeClosed>>
    BY <1>2 DEF Next, WriterStep, WriterCancel, WriterFrame, StreamStep, StopReading, Receive, vars
  <2> QED BY <2>1 DEF PendingInv, Drift, Owed, Entries, readerVars
<1> QED BY <1>1, <1>2, ReaderPending

\* metrics.PendingMessages, updated with atomics outside readerLock, is the number
\* of messages in readBuffer whenever the reader is between two frames; after a
\* Close, which clears both without the reader, it is at most one off.
THEOREM PendingHolds == Spec => []PendingExact
<1>1. Init => PendingInv
  <2> SUFFICES ASSUME Init PROVE PendingInv
    OBVIOUS
  <2>1. Entries = {} /\ pendingMessages = 0 /\ Owed = 0
    BY DEF Init, Entries, NoEntry, Owed
  <2>2. Drift = 0
    BY <2>1, FS_EmptySet DEF Drift
  <2> QED BY <2>2 DEF PendingInv
<1>2. TypeOK /\ PendingInv => PendingExact
  BY EntriesCount DEF PendingInv, PendingExact, Drift, Owed, TypeOK, ReaderTypeOK
<1> QED BY <1>1, <1>2, InitType, NextType, NextPending, PTL DEF Spec

=============================================================================
