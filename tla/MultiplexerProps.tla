-------------------------- MODULE MultiplexerProps --------------------------
(* What one direction of the multiplexer owes its users.                     *)
EXTENDS Multiplexer

WriterTypeOK ==
  /\ sequence \in Ids
  /\ loaded \in [Messages -> Ids]
  /\ seq \in [Messages -> Ids]
  /\ pc \in [Messages -> {"load", "store", "number", "begin", "body", "sent",
                          "cancelled", "aborted", "failed"}]
  /\ offset \in [Messages -> Nat]
  /\ \A m \in Messages : offset[m] <= Chunks[m]

Datas == Seq(AllChunks)
MuxMessages == [type : {"complete", "abort", "error"}, id : Ids, data : Datas]

ReaderTypeOK ==
  /\ reader \in {"check", "read", "opened", "send", "drop", "count", "ended"}
  /\ frameID \in Ids
  /\ hand \in MuxMessages
  /\ after \in {"check", "count", "drop", "ended"}
  /\ readBuffer \in [Ids -> [open : BOOLEAN, data : Datas]]
  /\ pendingMessages \in Int

StreamTypeOK ==
  /\ wire \in Seq(Frames)
  /\ stream \in {"open", "eof", "error"}

ConsumerTypeOK ==
  /\ ctxDone \in BOOLEAN /\ nodeClosed \in BOOLEAN
  /\ ch \in Seq(MuxMessages) /\ Len(ch) <= ChanSize
  /\ received \in Seq([seq : Ids, data : Datas])

\* Every variable of Multiplexer.tla is of its type, a message buffered by the
\* reader is within maxDataLength and ch within its capacity.
TypeOK ==
  /\ WriterTypeOK /\ ReaderTypeOK /\ StreamTypeOK /\ ConsumerTypeOK
  /\ \A i \in Ids : Len(readBuffer[i].data) <= MaxChunks

Entries == {i \in Ids : readBuffer[i].open}

\* A message handed over as complete is the whole payload of one message that
\* was sent, under the number of that message: frames of different writers
\* interleave on the stream and never mix in readBuffer.
CompleteIsWhole ==
  reader = "send" /\ hand.type = "complete" =>
    \E m \in Messages : pc[m] = "sent" /\ hand.id = seq[m] /\ hand.data = Payload(m)

\* What a writer has begun to send and the reader holds, the writer is still
\* sending, or it has ended it by an End or Abort frame the reader has yet to
\* see: as long as the stream is open no cancelled or failed write leaves an
\* entry in readBuffer for good (a later message of that number would be
\* taken for a duplicate).
NoOrphans ==
  stream = "open" => \A i \in Entries : \E m \in Messages :
    /\ seq[m] = i
    /\ \/ UnderWay(m)
       \/ \E k \in 1 .. Len(wire) : wire[k].of = m /\ wire[k].type \in {"end", "abort"}

\* metrics.PendingMessages, which is updated outside readerLock, agrees with
\* GetPendingMessageCount whenever the reader is between two frames.  A Close
\* that catches the reader between its two updates leaves it off by one for good
\* (2^64 - 1 at zero), and never by more.
PendingExact ==
  reader \in {"check", "read", "ended"} =>
    pendingMessages - Cardinality(Entries) \in IF nodeClosed THEN -1 .. 1 ELSE {0}

-----------------------------------------------------------------------------
(* One direction of the multiplexer is a MessageStream.                      *)

IsError(msg) == msg.data = ErrorText
IsLast(f) == f.type \in {"end", "abort"}

\* The elements of s at the positions P, in their order.  (SelectSeq takes a test,
\* a set of positions is a value, and that is what the proofs need.)
Nth(P, i) == CHOOSE k \in P : Cardinality({j \in P : j <= k}) = i
Picked(s, P) == [i \in 1 .. Cardinality(P) |-> s[Nth(P, i)]]

\* A message is on its way from its last frame on, if it is within the limit; what
\* comes with an error is none.
LastFrames == {k \in 1 .. Len(wire) : IsLast(wire[k]) /\ offset[wire[k].of] <= MaxChunks}
ItemOfFrame(f) == [seq |-> f.id, data |-> Prefix(f.of, offset[f.of])]
WireItems == [k \in 1 .. Len(wire) |-> ItemOfFrame(wire[k])]
OnWire == Picked(WireItems, LastFrames)

Real(msgs) == {k \in 1 .. Len(msgs) : ~IsError(msgs[k])}
InHand == IF reader = "send" /\ ~IsError(hand) THEN <<Delivered(hand)>> ELSE <<>>
ChannelItems == [k \in 1 .. Len(ch) |-> Delivered(ch[k])]
InChannel == Picked(ChannelItems, Real(ch))

Payloads == [m \in Messages |-> Payload(m)]
Stage(at) ==
  CASE at \in {"load", "store", "number", "begin"} -> "new"
    [] at = "body" -> "open"
    [] at = "sent" -> "sent"
    [] at \in {"cancelled", "aborted", "failed"} -> "failed"
Progress == [m \in Messages |-> Stage(pc[m])]
OpenNumber == [m \in Messages |-> IF UnderWay(m) THEN seq[m] ELSE 0]
OnItsWay == InChannel \o InHand \o OnWire
HasEnded == stream # "open"
Taken == Picked(received, Real(received))

Stream == INSTANCE MessageStream WITH
  Payloads <- Payloads,
  Limit <- MaxChunks,
  state <- Progress,
  number <- OpenNumber,
  queue <- OnItsWay,
  ended <- HasEnded,
  delivered <- Taken

\* One direction of the multiplexer implements MessageStream until Close throws
\* away what is half read, as long as the numbers under way are distinct.
StreamSpec == Stream!Init /\ [][Stream!Next \/ nodeClosed]_(Stream!vars)

-----------------------------------------------------------------------------

\* A message sent without an error is received, if the consumer keeps taking and
\* nobody ends the reading: the sender is not told of a message beyond the limit.
SentIsReceived ==
  \A m \in Messages : (pc[m] = "sent") ~>
    \/ \E i \in 1 .. Len(received) : received[i] = [seq |-> seq[m], data |-> Payload(m)]
    \/ Chunks[m] > MaxChunks
    \/ ctxDone \/ nodeClosed \/ stream = "error"

\* The end of the stream closes the consumer's channel.
EndIsNoticed == (stream = "eof") ~> (reader = "ended")
=============================================================================
