----------------------------- MODULE Multiplexer -----------------------------
(***************************************************************************)
(* One direction of lib/multiplexer: goroutines that write messages through *)
(* one nodeAdapter, frame by frame under writerLock; the byte stream; and   *)
(* the goroutine ReadMessageHybrid starts, which puts the frames together   *)
(* again and hands the messages to the consumer.                            *)
(*                                                                          *)
(* A frame is written under one lock and is one element of wire.  The data  *)
(* of a message is the sequence of its chunks.  The nodes are HybridNodes.   *)
(* Node and OptimizedNode write the same frames, without the first look at  *)
(* the context (ChecksFirst).  Node's Start frame also announces the length *)
(* of the message, so that a reader refuses one beyond the limit at once;   *)
(* that is not modelled.                                                    *)
(***************************************************************************)
EXTENDS Integers, Sequences, FiniteSets

CONSTANTS
  Messages,      \* calls of WriteMessage and WriteMessageWithSequence
  AutoMessages,  \* those of WriteMessage, numbered by nodeAdapter.sequence
  Numbers,       \* the numbers the others may be given
  Chunks,        \* how many chunks each message has
  MaxChunks,     \* how many chunks are maxDataLength, 10 MB
  IdSpace,       \* number of values of a sequence number (2^32 in the code)
  ChanSize,      \* defaultMaxBufferLength, 4096
  Nobody,        \* not a message
  ChecksFirst,   \* the context is looked at before the Start frame (HybridNode)
  Distinct,      \* the callers never have two messages of one number under way
  Cancellable,   \* messages whose context may be cancelled
  Endings,       \* how the stream may end: "eof", "error"
  MayStop,       \* the context given to ReadMessage may be cancelled
  MayClose,      \* Close may be called on the receiving node
  MaxReceived    \* bound on what the consumer takes in a behaviour

Ids == 0 .. IdSpace - 1

ASSUME SpaceAssumption == /\ IdSpace \in Nat \ {0}
                          /\ MaxChunks \in Nat \ {0}
                          /\ ChanSize \in Nat \ {0}
                          /\ MaxReceived \in Nat
ASSUME MessageAssumption == /\ Nobody \notin Messages
                            /\ AutoMessages \subseteq Messages
                            /\ Cancellable \subseteq Messages
                            /\ Numbers \subseteq Ids
                            /\ Chunks \in [Messages -> Nat]
ASSUME SwitchAssumption ==
  /\ {ChecksFirst, Distinct, MayStop, MayClose} \subseteq BOOLEAN
  /\ Endings \subseteq {"eof", "error"}

\* The k-th chunk of m; the text of an error message is one of nobody's.
Chunk(m, k) == [of |-> m, at |-> k]
AllChunks == [of : Messages \cup {Nobody}, at : Nat]
Prefix(m, n) == [k \in 1 .. n |-> Chunk(m, k)]
Payload(m) == Prefix(m, Chunks[m])
ErrorText == <<Chunk(Nobody, 0)>>

\* A frame.  A Data frame carries the chunk "at" of message "of"; in the other
\* frames the reader does not see who wrote them.
Frame(type, number, m, k) == [type |-> type, id |-> number, of |-> m, at |-> k]
Frames == [type : {"start", "data", "end", "abort", "cut"}, id : Ids,
           of : Messages, at : Nat]

\* multiplexer.Message, on the channel; APIMessage, behind the adapter.
Message(type, number, data) == [type |-> type, id |-> number, data |-> data]
ErrorMessage == Message("error", 0, ErrorText)
Delivered(msg) == [seq |-> msg.id, data |-> msg.data]

\* An entry of readBuffer, or none.
Entry(data) == [open |-> TRUE, data |-> data]
NoEntry == [open |-> FALSE, data |-> <<>>]

VARIABLES
  sequence,         \* nodeAdapter.sequence of the sender
  loaded,           \* of a WriteMessage: the value it read from sequence
  seq,              \* of a message: its number
  pc, offset,       \* of a message: where its writer is, chunks written
  wire,             \* frames written and not read
  stream,           \* "open", or how it ended
  reader,           \* where the reading goroutine is
  frameID,          \* its loop variable
  hand, after,      \* the message it is about to send, where it goes then
  readBuffer,
  pendingMessages,  \* metrics.PendingMessages, negative for 2^64 - n
  ctxDone,          \* the reader's context
  nodeClosed,       \* Close has been called on the receiving node
  ch,               \* the channel of ReadMessageHybrid
  received          \* what the consumer got through the adapter

writerVars == <<sequence, loaded, seq, pc, offset>>
readerVars == <<reader, frameID, hand, after, readBuffer, pendingMessages>>
vars == <<writerVars, wire, stream, readerVars, ctxDone, nodeClosed, ch, received>>

Init ==
  /\ sequence = 0
  /\ loaded = [m \in Messages |-> 0]
  /\ seq \in [Messages -> Ids]
  /\ \A m \in Messages : seq[m] \in IF m \in AutoMessages THEN {0} ELSE Numbers
  /\ pc = [m \in Messages |-> IF m \in AutoMessages THEN "load" ELSE "begin"]
  /\ offset = [m \in Messages |-> 0]
  /\ wire = <<>>
  /\ stream = "open"
  /\ reader = "check"
  /\ frameID = 0
  /\ hand = ErrorMessage
  /\ after = "check"
  /\ readBuffer = [i \in Ids |-> NoEntry]
  /\ pendingMessages = 0
  /\ ctxDone = FALSE
  /\ nodeClosed = FALSE
  /\ ch = <<>>
  /\ received = <<>>

-----------------------------------------------------------------------------
(* Writers.                                                                 *)

Goes(m, from, to) == pc[m] = from /\ pc' = [pc EXCEPT ![m] = to]

\* a.sequence++ and the a.sequence of the next line are not atomic: a read, a
\* write, and the value read again or kept from the increment.
AdapterLoad(m) ==
  /\ Goes(m, "load", "store")
  /\ loaded' = [loaded EXCEPT ![m] = sequence]
  /\ UNCHANGED <<sequence, seq, offset, wire>>

AdapterStore(m) ==
  /\ Goes(m, "store", "number")
  /\ sequence' = (loaded[m] + 1) % IdSpace
  /\ UNCHANGED <<loaded, seq, offset, wire>>

AdapterNumber(m) ==
  /\ Goes(m, "number", "begin")
  /\ \E n \in {sequence, (loaded[m] + 1) % IdSpace} : seq' = [seq EXCEPT ![m] = n]
  /\ UNCHANGED <<sequence, loaded, offset, wire>>

\* Between its Start frame and its End or Abort frame a message is under way.
UnderWay(m) == pc[m] = "body"

Writes(type, m, k) ==
  /\ stream = "open"
  /\ wire' = Append(wire, Frame(type, seq[m], m, k))

WriteStart(m) ==
  /\ Goes(m, "begin", "body")
  /\ Distinct => \A other \in Messages \ {m} : UnderWay(other) => seq[other] # seq[m]
  /\ Writes("start", m, 0)
  /\ UNCHANGED <<sequence, loaded, seq, offset>>

WriteData(m) ==
  /\ UnderWay(m)
  /\ offset[m] < Chunks[m]
  /\ offset' = [offset EXCEPT ![m] = @ + 1]
  /\ Writes("data", m, offset[m] + 1)
  /\ UNCHANGED <<sequence, loaded, seq, pc>>

\* The last frame does not wait for the last chunk.
WriteEndEarly(m) ==
  /\ Goes(m, "body", "sent")
  /\ offset[m] + 1 >= Chunks[m]
  /\ Writes("end", m, 0)
  /\ UNCHANGED <<sequence, loaded, seq, offset>>

WriteEnd(m) ==
  /\ Goes(m, "body", "sent")
  /\ offset[m] = Chunks[m]
  /\ Writes("end", m, 0)
  /\ UNCHANGED <<sequence, loaded, seq, offset>>

\* HybridNode looks at the context before it writes anything.
CancelFirst(m) ==
  /\ ChecksFirst
  /\ m \in Cancellable
  /\ Goes(m, "begin", "cancelled")
  /\ UNCHANGED <<sequence, loaded, seq, offset, wire>>

\* The context is done, and nothing tells the reader.
AbortSilently(m) ==
  /\ m \in Cancellable
  /\ Goes(m, "body", "aborted")
  /\ UNCHANGED <<sequence, loaded, seq, offset, wire>>

\* The context is done after the Start frame, before a chunk or before the End
\* frame: an Abort frame, its error ignored.
WriteAbort(m) ==
  /\ m \in Cancellable
  /\ Goes(m, "body", "aborted")
  /\ Writes("abort", m, 0) \/ (stream # "open" /\ UNCHANGED wire)
  /\ UNCHANGED <<sequence, loaded, seq, offset>>

WriteFails(m) ==
  /\ stream # "open"
  /\ Goes(m, "begin", "failed") \/ Goes(m, "body", "failed")
  /\ UNCHANGED <<sequence, loaded, seq, offset, wire>>

AdapterStep(m) == AdapterLoad(m) \/ AdapterStore(m) \/ AdapterNumber(m)
NodeStep(m) == WriteStart(m) \/ WriteData(m) \/ WriteEnd(m) \/ WriteFails(m)
WriterFrame == UNCHANGED <<stream, readerVars, ctxDone, nodeClosed, ch, received>>
WriterStep(m) == (AdapterStep(m) \/ NodeStep(m)) /\ WriterFrame
WriterCancel(m) == (CancelFirst(m) \/ WriteAbort(m)) /\ WriterFrame

-----------------------------------------------------------------------------
(* The stream.                                                              *)

\* The writing end is closed or its process dies: what was written stays
\* readable, and the last frame may be cut short.
StreamEnds ==
  /\ "eof" \in Endings
  /\ stream' = "eof"
  /\ \/ UNCHANGED wire
     \/ \E m \in Messages : /\ pc[m] \in {"begin", "body"}
                            /\ wire' = Append(wire, Frame("cut", seq[m], m, 0))

\* The reading end is closed under the reader (Process.Close, stdoutReader).
StreamBreaks ==
  /\ "error" \in Endings
  /\ stream' = "error"
  /\ wire' = <<>>

StreamStep ==
  /\ stream = "open"
  /\ StreamEnds \/ StreamBreaks
  /\ UNCHANGED <<writerVars, readerVars, ctxDone, nodeClosed, ch, received>>

-----------------------------------------------------------------------------
(* The reading goroutine.                                                   *)

ReaderGoes(from, to) == reader = from /\ reader' = to
HandsOver(msg, then) == hand' = msg /\ after' = then /\ reader' = "send"

\* The select at the top of the loop; then it is in io.ReadFull.
ReaderCheck ==
  /\ reader = "check"
  /\ IF ctxDone THEN HandsOver(ErrorMessage, "ended")
                ELSE reader' = "read" /\ UNCHANGED <<hand, after>>
  /\ UNCHANGED <<wire, frameID, readBuffer, pendingMessages, ch>>

ReaderTakes(types) ==
  /\ reader = "read"
  /\ wire # <<>>
  /\ Head(wire).type \in types
  /\ wire' = Tail(wire)
  /\ frameID' = Head(wire).id

\* Start of a number that is being read: an error, and the entry stays.
ReadStart ==
  /\ ReaderTakes({"start"})
  /\ IF readBuffer[frameID'].open
       THEN HandsOver(ErrorMessage, "check") /\ UNCHANGED readBuffer
       ELSE /\ readBuffer' = [readBuffer EXCEPT ![frameID'] = Entry(<<>>)]
            /\ reader' = "opened" /\ UNCHANGED <<hand, after>>
  /\ UNCHANGED <<pendingMessages, ch>>

\* metrics.PendingMessages.Add(1), outside the lock.
ReaderCountsUp ==
  /\ ReaderGoes("opened", "check")
  /\ pendingMessages' = pendingMessages + 1
  /\ UNCHANGED <<wire, frameID, hand, after, readBuffer, ch>>

\* The same without the limit.
ReadDataUnlimited ==
  /\ ReaderTakes({"data"})
  /\ LET data == readBuffer[frameID'].data IN
       IF ~readBuffer[frameID'].open
         THEN HandsOver(ErrorMessage, "check") /\ UNCHANGED readBuffer
         ELSE /\ readBuffer' = [readBuffer EXCEPT ![frameID'].data =
                                  Append(data, Chunk(Head(wire).of, Head(wire).at))]
              /\ reader' = "check" /\ UNCHANGED <<hand, after>>
  /\ UNCHANGED <<pendingMessages, ch>>

\* Data of an unknown number is an error, and so is data beyond the limit,
\* which costs the message its entry.
ReadData ==
  /\ ReaderTakes({"data"})
  /\ LET data == readBuffer[frameID'].data IN
       IF ~readBuffer[frameID'].open
         THEN HandsOver(ErrorMessage, "check") /\ UNCHANGED readBuffer
         ELSE IF Len(data) + 1 > MaxChunks
           THEN HandsOver(ErrorMessage, "drop") /\ UNCHANGED readBuffer
           ELSE /\ readBuffer' = [readBuffer EXCEPT ![frameID'].data =
                                    Append(data, Chunk(Head(wire).of, Head(wire).at))]
                /\ reader' = "check" /\ UNCHANGED <<hand, after>>
  /\ UNCHANGED <<pendingMessages, ch>>

ReaderDrops ==
  /\ ReaderGoes("drop", "count")
  /\ readBuffer' = [readBuffer EXCEPT ![frameID] = NoEntry]
  /\ UNCHANGED <<wire, frameID, hand, after, pendingMessages, ch>>

\* The same, with an aborted message left in the metric.
ReadLastMiscounted ==
  /\ ReaderTakes({"end", "abort"})
  /\ IF readBuffer[frameID'].open
       THEN /\ IF Head(wire).type = "end"
                 THEN HandsOver(Message("complete", frameID', readBuffer[frameID'].data), "count")
                 ELSE HandsOver(Message("abort", frameID', readBuffer[frameID'].data), "check")
            /\ readBuffer' = [readBuffer EXCEPT ![frameID'] = NoEntry]
       ELSE HandsOver(ErrorMessage, "check") /\ UNCHANGED readBuffer
  /\ UNCHANGED <<pendingMessages, ch>>

\* End, or Abort: the message goes to the consumer with the type that says so.
ReadLast ==
  /\ ReaderTakes({"end", "abort"})
  /\ IF readBuffer[frameID'].open
       THEN /\ HandsOver(Message(IF Head(wire).type = "end" THEN "complete" ELSE "abort",
                                 frameID', readBuffer[frameID'].data), "count")
            /\ readBuffer' = [readBuffer EXCEPT ![frameID'] = NoEntry]
       ELSE HandsOver(ErrorMessage, "check") /\ UNCHANGED readBuffer
  /\ UNCHANGED <<pendingMessages, ch>>

\* metrics.PendingMessages.Add(^uint64(0)), after the send.
ReaderCountsDown ==
  /\ ReaderGoes("count", "check")
  /\ pendingMessages' = pendingMessages - 1
  /\ UNCHANGED <<wire, frameID, hand, after, readBuffer, ch>>

\* A frame cut short: io.EOF between its header and its data, an error inside.
ReadCut ==
  /\ ReaderTakes({"cut"})
  /\ \/ reader' = "ended" /\ UNCHANGED <<hand, after>>
     \/ HandsOver(ErrorMessage, "check")
  /\ UNCHANGED <<readBuffer, pendingMessages, ch>>

\* io.EOF taken for an error like any other.
ReadEndsRetried ==
  /\ reader = "read"
  /\ wire = <<>>
  /\ stream # "open"
  /\ HandsOver(ErrorMessage, "check")
  /\ UNCHANGED <<wire, frameID, readBuffer, pendingMessages, ch>>

\* io.EOF ends the goroutine; any other error is reported and tried again.
ReadEnds ==
  /\ reader = "read"
  /\ wire = <<>>
  /\ \/ stream = "eof" /\ reader' = "ended" /\ UNCHANGED <<hand, after>>
     \/ stream = "error" /\ HandsOver(ErrorMessage, "check")
  /\ UNCHANGED <<wire, frameID, readBuffer, pendingMessages, ch>>

\* A send that gives the message up when the channel is full.
ReaderSendsOrDrops ==
  /\ ReaderGoes("send", after)
  /\ ch' = IF Len(ch) < ChanSize THEN Append(ch, hand) ELSE ch
  /\ UNCHANGED <<wire, frameID, hand, after, readBuffer, pendingMessages>>

\* ch <- m waits as long as the channel is full, whatever the context says.
ReaderSends ==
  /\ ReaderGoes("send", after)
  /\ Len(ch) < ChanSize
  /\ ch' = Append(ch, hand)
  /\ UNCHANGED <<wire, frameID, hand, after, readBuffer, pendingMessages>>

ReaderStep ==
  /\ \/ ReaderCheck \/ ReadStart \/ ReaderCountsUp \/ ReadData \/ ReaderDrops
     \/ ReadLast \/ ReaderCountsDown \/ ReadCut \/ ReadEnds \/ ReaderSends
  /\ UNCHANGED <<writerVars, stream, ctxDone, nodeClosed, received>>

\* Close clears readBuffer; the metric is reset only if there was an entry.
CloseNode ==
  /\ MayClose
  /\ ~nodeClosed
  /\ nodeClosed' = TRUE
  /\ readBuffer' = [i \in Ids |-> NoEntry]
  /\ pendingMessages' = IF \E i \in Ids : readBuffer[i].open THEN 0 ELSE pendingMessages
  /\ UNCHANGED <<writerVars, wire, stream, reader, frameID, hand, after, ctxDone, ch, received>>

StopReading ==
  /\ MayStop
  /\ ~ctxDone
  /\ ctxDone' = TRUE
  /\ UNCHANGED <<writerVars, wire, stream, readerVars, nodeClosed, ch, received>>

\* The consumer takes a message; the adapters in between keep number and data.
Receive ==
  /\ ch # <<>>
  /\ Len(received) < MaxReceived
  /\ ch' = Tail(ch)
  /\ received' = Append(received, Delivered(Head(ch)))
  /\ UNCHANGED <<writerVars, wire, stream, readerVars, ctxDone, nodeClosed>>

-----------------------------------------------------------------------------
Next ==
  \/ \E m \in Messages : WriterStep(m) \/ WriterCancel(m)
  \/ StreamStep
  \/ ReaderStep
  \/ CloseNode
  \/ StopReading
  \/ Receive

\* Goroutines that can run do run.  Nothing forces a context to be cancelled,
\* the stream to end or Close to be called.
Fairness == (\A m \in Messages : WF_vars(WriterStep(m))) /\ WF_vars(ReaderStep)

Spec == Init /\ [][Next]_vars
FairSpec == Spec /\ Fairness
\* The consumer keeps taking messages, as handleMessages and Listen do.
DrainedSpec == FairSpec /\ WF_vars(Receive)
=============================================================================
