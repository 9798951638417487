----------------------------- MODULE WireCodec -----------------------------
(***************************************************************************)
(* The messages between host and Module, as the bytes they are.  Whether    *)
(* the kinds of Wire.tla may be told apart as Module.tla and Loader.tla do  *)
(* depends on what Codec.tla does with every header such a message may have. *)
(***************************************************************************)
EXTENDS ModuleProps, Codec

\* MessageTypeRequest .. MessageTypeError
MessageTypes == 1 .. 5

\* What the MessageType of a message of some kind is.
MessageType(kind) ==
  CASE kind \in {"request", "shutdown", "force_shutdown", "request_ready",
                 "plugin_request"} -> 1
    [] kind = "response" -> 2
    [] kind \in {"message", "notify"} -> 3
    [] kind \in {"ready", "shutdown_ack", "force_shutdown_ack", "request_ready_ack"} -> 4
    [] kind = "error" -> 5

HeadersOfType(t) == {Header(n, e, t, p) : n \in Texts, e \in BOOLEAN, p \in Texts}

\* The types whose headers, whatever their names and payloads, have these
\* properties; the last frames whose streams have that of a stream.
ReadBackTypes == {t \in MessageTypes : \A h \in HeadersOfType(t) : ReadsBack(h)}
PrefixRefusedTypes == {t \in MessageTypes : \A h \in HeadersOfType(t) : PrefixRefused(h)}
TrailerIgnoredTypes == {t \in MessageTypes : \A h \in HeadersOfType(t) : TrailerIgnored(h)}
ReadBackEndings == {last \in {"end", "abort"} :
  \A fs \in SeqOf({f \in WrittenFrames : f.type \in {TypeByte(t) : t \in {"start", "data", last}}},
                  MaxFrames) : StreamReadsBack(fs)}

InFlight == Elements(input) \cup Elements(output)
Whole == {m \in InFlight : m.kind # "garbled"}

\* Every whole message on its way is read as the header its sender marshalled:
\* the same name, flags, type and payload (MarshalBinary, UnmarshalBinary).
HeaderReadsBack == \A m \in Whole : MessageType(m.kind) \in ReadBackTypes

\* Whatever an Abort frame leaves of a message on its way is "garbled": no part of
\* it is taken for a header.  nodeAdapter hands aborted messages on like complete
\* ones, and this is all that keeps Listen and handleMessages from acting on them.
PrefixIsRefused == \A m \in Whole : MessageType(m.kind) \in PrefixRefusedTypes

\* A message on its way with the chunks of another appended, as a reader makes it of
\* two that use one frame ID, is read as the first one.
TrailerIsIgnored == \A m \in Whole : MessageType(m.kind) \in TrailerIgnoredTypes

\* The frames of the messages on their way are the frames the other side reads,
\* however they are interleaved and wherever the stream ends, without those that
\* announce too much: a reader never loses its place.
FramesReadBack == \A m \in InFlight :
  (IF m.kind = "garbled" THEN "abort" ELSE "end") \in ReadBackEndings
=============================================================================
