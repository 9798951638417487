-------------------------- MODULE LoaderCorrelation --------------------------
(* Responses are correlated with requests: no call gets another's response, *)
(* for any number of calls, as long as requestID does not wrap around.      *)
EXTENDS LoaderProofs, SequenceTheorems

\* Fewer calls in the Loader's life than there are numbers (2^32).
NoWrap == MaxAdds < IdSpace

-----------------------------------------------------------------------------
(* Sequences of matching messages.                                         *)

\* Taking the first message off a stream keeps the rest matching (HandlerTakes, PeerTakes).
LEMMA TailMatches ==
  ASSUME NEW S, NEW ms \in Seq(S), ms # <<>>, NEW numbers, AllMatch(ms, numbers)
  PROVE  AllMatch(Tail(ms), numbers) /\ Matches(Head(ms), numbers)
<1>1. Matches(Head(ms), numbers)
  BY DEF AllMatch
<1>2. \A i \in 1 .. Len(Tail(ms)) : Tail(ms)[i] = ms[i + 1] /\ i + 1 \in 1 .. Len(ms)
  OBVIOUS
<1> QED BY <1>1, <1>2 DEF AllMatch

\* Sending a matching message keeps a stream matching (Written).
LEMMA AppendMatches ==
  ASSUME NEW S, NEW ms \in Seq(S), NEW m \in S, NEW numbers,
         AllMatch(ms, numbers), Matches(m, numbers)
  PROVE  AllMatch(Append(ms, m), numbers)
<1>1. \A i \in 1 .. Len(Append(ms, m)) :
        Append(ms, m)[i] = m \/ (i \in 1 .. Len(ms) /\ Append(ms, m)[i] = ms[i])
  OBVIOUS
<1> QED BY <1>1 DEF AllMatch

\* So does sending several at once (PeerSends).
LEMMA ConcatMatches ==
  ASSUME NEW S, NEW ms \in Seq(S), NEW more \in Seq(S), NEW numbers,
         AllMatch(ms, numbers), AllMatch(more, numbers)
  PROVE  AllMatch(ms \o more, numbers)
<1>1. /\ Len(ms \o more) = Len(ms) + Len(more)
      /\ \A i \in 1 .. Len(ms) + Len(more) :
           (ms \o more)[i] = IF i <= Len(ms) THEN ms[i] ELSE more[i - Len(ms)]
  BY ConcatProperties
<1>2. Len(ms) \in Nat /\ Len(more) \in Nat
  OBVIOUS
<1>3. \A i \in 1 .. Len(ms \o more) :
        \/ i \in 1 .. Len(ms) /\ (ms \o more)[i] = ms[i]
        \/ i - Len(ms) \in 1 .. Len(more) /\ (ms \o more)[i] = more[i - Len(ms)]
  BY <1>1, <1>2
<1> QED BY <1>3 DEF AllMatch

\* Control messages and notifications are about no call: they match anything.
LEMMA OthersMatch ==
  ASSUME NEW kind, NEW seq, NEW body, body \notin Calls, NEW numbers
  PROVE  Matches(Msg(kind, seq, body), numbers)
  BY DEF Matches, Msg

\* A one-way message, or one of the Loader itself, is about no call.
LEMMA NobodysCall ==
  /\ None \notin Calls
  /\ \A n \in HostNotes \cup PeerBodies : n \notin Calls
  BY NoneAssumption, BodiesDisjoint DEF Bodies

\* Whatever becomes of a write of a matching message, what is in the pipe
\* matches.
LEMMA WriteMatches ==
  ASSUME NEW numbers, toPlugin \in Seq(ToPluginMsgs), AllMatch(toPlugin, numbers),
         NEW m \in ToPluginMsgs, Matches(m, numbers),
         Written(m) \/ WriteFails \/ Aborted(m) \/ WriteBlocks
  PROVE  AllMatch(toPlugin', numbers)
<1>1. [m EXCEPT !.kind = "garbled"] \in ToPluginMsgs
  BY DEF ToPluginMsgs, ToPluginKinds
<1>2. Matches([m EXCEPT !.kind = "garbled"], numbers)
  BY DEF Matches, ToPluginMsgs
<1>3. PICK sent \in ToPluginMsgs : /\ Matches(sent, numbers)
                                   /\ \/ toPlugin' = Append(toPlugin, sent)
                                      \/ toPlugin' = toPlugin
  BY <1>1, <1>2 DEF Written, WriteFails, Aborted, WriteBlocks
<1> QED BY <1>3, AppendMatches

-----------------------------------------------------------------------------
(* The inductive step, group by group.                                     *)

\* NewLoader starts correlated: no call, no message, no entry.
LEMMA InitCorrelated == Init => Correlated
<1> SUFFICES ASSUME Init PROVE Correlated
  OBVIOUS
<1> USE DEF Init
<1>1. NumbersFresh
  BY IdAssumption, SpaceAssumption DEF NumbersFresh, InFlight
<1>2. MessagesMatch
  BY DEF MessagesMatch, AllMatch
<1>3. ChannelsMatch
  BY NobodysCall DEF ChannelsMatch, EmptyChan
<1>4. NoStaleEntry
  BY DEF NoStaleEntry
<1>5. StaysRegistered /\ CallsNeverCross /\ StartsOnce
  BY DEF StaysRegistered, CallsNeverCross, StartsOnce, NoResult
<1> QED BY <1>1, <1>2, <1>3, <1>4, <1>5 DEF Correlated

\* A step that leaves the calls and the handler alone has only the messages in
\* flight to answer for.
LEMMA ElsewhereCorrelated ==
  ASSUME Correlated, UNCHANGED <<callVars, sending>>,
         \/ handler' = handler /\ (loadPc' = loadPc \/ loadPc' \notin {"idle", "fork"})
         \/ handler' = handler /\ loadPc \in {"idle", "fork"}
         \/ handler' = "recv" /\ handler = "off" /\ loadPc' \notin {"idle", "fork"},
         AllMatch(toPlugin', id), AllMatch(toHost', id),
         \A m \in jobs' : Matches(m, id)
  PROVE  Correlated'
<1> USE DEF Correlated, callVars
<1>1. NumbersFresh' /\ ChannelsMatch' /\ CallsNeverCross'
  BY DEF NumbersFresh, ChannelsMatch, CallsNeverCross, InFlight
<1>2. MessagesMatch'
  BY DEF MessagesMatch
<1>3. NoStaleEntry'
  BY DEF NoStaleEntry, InFlight
<1>4. StaysRegistered' /\ StartsOnce'
  BY DEF StaysRegistered, StartsOnce
<1> QED BY <1>1, <1>2, <1>3, <1>4

\* SendMessage and SendErrorMessage touch no call: their message matches because it
\* is about none, whatever number it takes.
LEMMA NoteCorrelated ==
  ASSUME TypeOK, Correlated, NEW n \in HostNotes, NoteStep(n)
  PROVE  Correlated'
<1>1. toPlugin \in Seq(ToPluginMsgs) /\ noteSeq[n] \in Ids
  BY DEF TypeOK, WireTypeOK, NoteTypeOK
<1>2. /\ Msg("message", noteSeq[n], n) \in ToPluginMsgs
      /\ Matches(Msg("message", noteSeq[n], n), id)
  <2>1. Msg("message", noteSeq[n], n) \in ToPluginMsgs
    BY <1>1, MsgTypes DEF Bodies, ToPluginKinds
  <2> QED BY <2>1, OthersMatch, NobodysCall
<1>3. AllMatch(toPlugin, id) /\ AllMatch(toHost, id) /\ \A m \in jobs : Matches(m, id)
  BY DEF Correlated, MessagesMatch
<1>4. AllMatch(toPlugin', id)
  <2>1. CASE NoteBegin(n)
    BY <1>3, <2>1 DEF NoteBegin
  <2>2. CASE NoteWrite(n)
    BY <1>1, <1>2, <1>3, <2>2, WriteMatches DEF NoteWrite
  <2>3. CASE NoteUnblocked(n)
    BY <1>3, <2>3 DEF NoteUnblocked, WriteFails
  <2> QED BY <2>1, <2>2, <2>3 DEF NoteStep
<1>5. /\ UNCHANGED <<callVars, sending, handler, loadPc, jobs, toHost>>
  BY DEF NoteStep, lifeVars, handlerVars, peerVars, peerState
<1> QED BY <1>3, <1>4, <1>5, ElsewhereCorrelated

\* What the Loader sends for a request of the plugin is about no call, though the
\* plugin chose its number.
LEMMA ServeCorrelated ==
  ASSUME TypeOK, Correlated, NEW r \in PeerRequests, ServeStep(r)
  PROVE  Correlated'
<1>1. toPlugin \in Seq(ToPluginMsgs) /\ serveSeq[r] \in Ids
  BY DEF TypeOK, WireTypeOK, ServeTypeOK
<1>2. /\ Msg("message", serveSeq[r], r) \in ToPluginMsgs
      /\ Matches(Msg("message", serveSeq[r], r), id)
  <2>1. Msg("message", serveSeq[r], r) \in ToPluginMsgs
    BY <1>1, MsgTypes DEF Bodies, PeerBodies, ToPluginKinds
  <2>2. r \notin Calls
    BY NobodysCall DEF PeerBodies
  <2> QED BY <2>1, <2>2, OthersMatch
<1>3. AllMatch(toPlugin, id) /\ AllMatch(toHost, id) /\ \A m \in jobs : Matches(m, id)
  BY DEF Correlated, MessagesMatch
<1>4. AllMatch(toPlugin', id)
  <2>1. CASE ServeHandled(r)
    BY <1>3, <2>1 DEF ServeHandled
  <2>2. CASE ServeWrite(r)
    BY <1>1, <1>2, <1>3, <2>2, WriteMatches DEF ServeWrite
  <2> QED BY <2>1, <2>2 DEF ServeStep
<1>5. UNCHANGED <<callVars, sending, handler, loadPc, jobs, toHost>>
  BY DEF ServeStep, lifeVars, handlerVars, peerVars, peerState
<1> QED BY <1>3, <1>4, <1>5, ElsewhereCorrelated

\* Load sends at most "request_ready", which is about no call.
LEMMA LoadCorrelated ==
  ASSUME TypeOK, Correlated, LoadStep
  PROVE  Correlated'
<1>1. toPlugin \in Seq(ToPluginMsgs) /\ NextSequence \in Ids
  BY NextSequenceType DEF TypeOK, WireTypeOK, NoteTypeOK
<1>2. /\ Msg("request_ready", NextSequence, None) \in ToPluginMsgs
      /\ Matches(Msg("request_ready", NextSequence, None), id)
  <2>1. Msg("request_ready", NextSequence, None) \in ToPluginMsgs
    BY <1>1, MsgTypes DEF ToPluginKinds
  <2> QED BY <2>1, OthersMatch, NobodysCall
<1>3. AllMatch(toPlugin, id) /\ AllMatch(toHost, id) /\ \A m \in jobs : Matches(m, id)
  BY DEF Correlated, MessagesMatch
<1>4. AllMatch(<<>>, id)
  BY DEF AllMatch
<1>5. AllMatch(toPlugin', id) /\ \A m \in jobs' : Matches(m, id)
  <2>1. CASE LoadMoves \/ LoadFork \/ LoadReady
    BY <1>3, <2>1 DEF LoadMoves, LoadFork, LoadReady, peerState
  <2>2. CASE RequestReady
    <3>1. \/ Written(Msg("request_ready", NextSequence, None)) \/ WriteFails
          \/ Aborted(Msg("request_ready", NextSequence, None)) \/ WriteBlocks
          \/ UNCHANGED <<toPlugin, stdinCopy>>
      BY <2>2 DEF RequestReady
    <3>2. AllMatch(toPlugin', id)
      BY <1>1, <1>2, <1>3, <3>1, WriteMatches
    <3> QED BY <1>3, <2>2, <3>2 DEF RequestReady, peerState
  <2>3. CASE LoadCleanup
    BY <1>3, <1>4, <2>3 DEF LoadCleanup, ProcessClose, peerState
  <2> QED BY <2>1, <2>2, <2>3 DEF LoadStep
<1>6. UNCHANGED <<callVars, sending, toHost>>
  BY DEF LoadStep
<1>7. \/ handler' = handler /\ loadPc' \notin {"idle", "fork"}
      \/ handler' = handler /\ loadPc \in {"idle", "fork"}
      \/ handler' = "recv" /\ handler = "off" /\ loadPc' \notin {"idle", "fork"}
  BY DEF LoadStep, LoadMoves, LoadFork, LoadReady, RequestReady, LoadCleanup,
         Correlated, StartsOnce
<1> QED BY <1>3, <1>5, <1>6, <1>7, ElsewhereCorrelated

\* Close and ForceClose send at most their own announcement, and lose messages.
LEMMA CloseCorrelated ==
  ASSUME TypeOK, Correlated, NEW k \in Closers, CloseStart(k) \/ CloseStep(k)
  PROVE  Correlated'
<1>1. toPlugin \in Seq(ToPluginMsgs) /\ NextSequence \in Ids
  BY NextSequenceType DEF TypeOK, WireTypeOK, NoteTypeOK
<1>2. \A kind \in {"shutdown", "force_shutdown"} :
         /\ Msg(kind, NextSequence, None) \in ToPluginMsgs
         /\ Matches(Msg(kind, NextSequence, None), id)
  <2>1. \A kind \in {"shutdown", "force_shutdown"} :
          Msg(kind, NextSequence, None) \in ToPluginMsgs
    BY <1>1, MsgTypes DEF ToPluginKinds
  <2> QED BY <2>1, OthersMatch, NobodysCall
<1>3. AllMatch(toPlugin, id) /\ AllMatch(toHost, id) /\ \A m \in jobs : Matches(m, id)
  BY DEF Correlated, MessagesMatch
<1>4. AllMatch(<<>>, id)
  BY DEF AllMatch
<1>5. AllMatch(toPlugin', id) /\ \A m \in jobs' : Matches(m, id)
  <2>1. CASE CloseBegin(k) \/ CloseAcked(k) \/ CloseCancel(k) \/ CloseJoin(k)
    BY <1>3, <2>1 DEF CloseBegin, CloseAcked, CloseCancel, CloseJoin, peerState
  <2>2. CASE CloseWrite(k)
    <3>1. PICK kind \in {"shutdown", "force_shutdown"} :
            \/ Written(Msg(kind, NextSequence, None)) \/ WriteFails
            \/ Aborted(Msg(kind, NextSequence, None)) \/ WriteBlocks
            \/ UNCHANGED <<toPlugin, stdinCopy>>
      BY <2>2 DEF CloseWrite
    <3>2. AllMatch(toPlugin', id)
      BY <1>1, <1>2, <1>3, <3>1, WriteMatches
    <3> QED BY <1>3, <2>2, <3>2 DEF CloseWrite, peerState
  <2>3. CASE CloseProcess(k)
    BY <1>3, <1>4, <2>3 DEF CloseProcess, ProcessClose, peerState
  <2> QED BY <2>1, <2>2, <2>3 DEF CloseStart, CloseStep
<1>6. UNCHANGED <<callVars, sending, handler, loadPc, toHost>>
  BY DEF CloseStart, CloseStep, CloseFrame
<1> QED BY <1>3, <1>5, <1>6, ElsewhereCorrelated

\* An expiring context and monitorProcess touch neither calls nor messages.
LEMMA QuietCorrelated ==
  ASSUME TypeOK, Correlated, LoadCtxExpires \/ MonitorStep
  PROVE  Correlated'
<1>1. AllMatch(toPlugin, id) /\ AllMatch(toHost, id) /\ \A m \in jobs : Matches(m, id)
  BY DEF Correlated, MessagesMatch
<1>2. UNCHANGED <<callVars, sending, handler, loadPc, jobs, toPlugin, toHost>>
  BY DEF LoadCtxExpires, MonitorStep, handlerVars, peerVars, peerState
<1> QED BY <1>1, <1>2, ElsewhereCorrelated

\* What the plugin sends keeps the stream to the host matching.
LEMMA PeerSendsMatches ==
  ASSUME NEW numbers, WireTypeOK, AllMatch(toHost, numbers),
         NEW m \in ToHostMsgs, Matches(m, numbers),
         PeerSends(<<m>>)
  PROVE  AllMatch(toHost', numbers)
<1>1. AllMatch(<<m>>, numbers) /\ <<m>> \in Seq(ToHostMsgs)
  BY DEF AllMatch
<1> QED BY <1>1, ConcatMatches DEF PeerSends, WireTypeOK

\* A reply copies the number and the subject of what it replies to.
LEMMA PeerRepliesMatches ==
  ASSUME NEW numbers, WireTypeOK, AllMatch(toHost, numbers),
         NEW m \in ToPluginMsgs, Matches(m, numbers),
         NEW kind \in ToHostKinds, NEW cancellable, PeerReplies(kind, m, cancellable)
  PROVE  AllMatch(toHost', numbers)
<1>1. \A kd : Matches(Msg(kd, m.seq, m.body), numbers)
  BY DEF Matches, Msg
<1>2. m.seq \in Ids /\ m.body \in Bodies \cup {None}
  BY DEF ToPluginMsgs
<1>3. Msg(kind, m.seq, m.body) \in ToHostMsgs /\ Msg("garbled", m.seq, m.body) \in ToHostMsgs
  BY <1>2, MsgTypes DEF ToHostKinds
<1> QED BY <1>1, <1>3, PeerSendsMatches DEF PeerReplies

\* Listen, processMessage and the death of the plugin keep messages matching.
LEMMA PeerCorrelated ==
  ASSUME TypeOK, Correlated, PeerListens \/ PeerWorks \/ PeerDies
  PROVE  Correlated'
<1>1. /\ WireTypeOK /\ toPlugin \in Seq(ToPluginMsgs) /\ jobs \subseteq ToPluginMsgs
      /\ NextPeerSeq \in Ids
  BY NextPeerSeqType DEF TypeOK, WireTypeOK, PeerTypeOK
<1>2. AllMatch(toPlugin, id) /\ AllMatch(toHost, id) /\ \A m \in jobs : Matches(m, id)
  BY DEF Correlated, MessagesMatch
<1>3. \A kind \in {"ready", "garbled"} :
        /\ Msg(kind, NextPeerSeq, None) \in ToHostMsgs
        /\ Matches(Msg(kind, NextPeerSeq, None), id)
  BY <1>1, MsgTypes, OthersMatch, NobodysCall DEF ToHostKinds
<1>4. \A kinds : PeerTakes(kinds) => /\ AllMatch(toPlugin', id)
                                     /\ Head(toPlugin) \in ToPluginMsgs
                                     /\ Matches(Head(toPlugin), id)
  BY <1>1, <1>2, TailMatches DEF PeerTakes
<1>5. /\ AllMatch(toPlugin', id) /\ AllMatch(toHost', id)
      /\ \A m \in jobs' : Matches(m, id)
  <2>1. CASE PeerReady
    <3>1. AllMatch(toHost', id)
      BY <1>1, <1>2, <1>3, <2>1, PeerSendsMatches DEF PeerReady
    <3> QED BY <1>2, <2>1, <3>1 DEF PeerReady
  <2>2. CASE PeerAccepts
    BY <1>2, <1>4, <2>2 DEF PeerAccepts
  <2>3. CASE PeerRefuses
    <3>1. AllMatch(toHost', id)
      BY <1>1, <1>2, <1>4, <2>3, PeerRepliesMatches DEF PeerRefuses, ToHostKinds
    <3> QED BY <1>2, <1>4, <2>3, <3>1 DEF PeerRefuses
  <2>4. CASE PeerDrops \/ PeerForced
    BY <1>2, <1>4, <2>4 DEF PeerDrops, PeerForced
  <2>5. CASE PeerShutdown
    <3>1. AllMatch(toHost', id)
      BY <1>1, <1>2, <1>4, <2>5, PeerRepliesMatches DEF PeerShutdown, ToHostKinds
    <3> QED BY <1>2, <1>4, <2>5, <3>1 DEF PeerShutdown
  <2>6. CASE PeerForceShutdown
    <3>1. AllMatch(toHost', id)
      BY <1>1, <1>2, <1>4, <2>6, PeerRepliesMatches DEF PeerForceShutdown, ToHostKinds
    <3> QED BY <1>2, <1>4, <2>6, <3>1 DEF PeerForceShutdown
  <2>7. CASE PeerRequestReady
    <3>1. AllMatch(toHost', id)
      BY <1>1, <1>2, <1>3, <2>7, PeerSendsMatches DEF PeerRequestReady
    <3> QED BY <1>2, <1>4, <2>7, <3>1 DEF PeerRequestReady
  <2>8. ASSUME NEW m \in jobs, PeerFinishes(m) \/ PeerRequestReadyAck(m)
        PROVE  AllMatch(toHost', id) /\ UNCHANGED toPlugin /\ jobs' \subseteq jobs
    BY <1>1, <1>2, <2>8, PeerRepliesMatches DEF PeerFinishes, PeerRequestReadyAck, ToHostKinds
  <2>9. ASSUME NEW n \in PeerBodies, NEW kind \in ToHostKinds, NEW number \in Ids,
               PeerSends(<<Msg(kind, number, n)>>)
        PROVE  AllMatch(toHost', id)
    <3>1. n \notin Calls /\ n \in Bodies \cup {None}
      BY NobodysCall DEF Bodies
    <3>2. Msg(kind, number, n) \in ToHostMsgs /\ Matches(Msg(kind, number, n), id)
      BY <3>1, MsgTypes, OthersMatch
    <3> QED BY <1>1, <1>2, <2>9, <3>2, PeerSendsMatches
  <2>10. CASE PeerWorking
    <3>1. ASSUME NEW n \in PeerNotes \cup PeerErrors, PeerNote(n)
          PROVE  AllMatch(toHost', id) /\ UNCHANGED <<toPlugin, jobs>>
      BY <1>1, <2>9, <3>1 DEF PeerNote, ToHostKinds, PeerBodies
    <3>2. ASSUME NEW r \in PeerRequests, PeerRequest(r)
          PROVE  AllMatch(toHost', id) /\ UNCHANGED <<toPlugin, jobs>>
      BY <2>9, <3>2, ClockAssumption DEF PeerRequest, ToHostKinds, PeerBodies
    <3>3. PeerQuits => UNCHANGED <<toPlugin, toHost, jobs>>
      BY DEF PeerQuits
    <3> QED BY <1>2, <2>8, <2>10, <3>1, <3>2, <3>3 DEF PeerWorking
  <2>11. CASE PeerDies
    BY <1>2, <2>11 DEF PeerDies, AllMatch
  <2> QED BY <1>2, <2>1, <2>2, <2>3, <2>4, <2>5, <2>6, <2>7, <2>8, <2>10, <2>11
          DEF PeerListens, PeerListening, PeerWorks
<1>6. UNCHANGED <<callVars, sending, handler, loadPc>>
  BY DEF PeerListens, PeerWorks, PeerDies, PeerFrame, handlerVars, lifeVars
<1> QED BY <1>5, <1>6, ElsewhereCorrelated

\* handleMessages hands a reply to the call it is about, because the entry it
\* finds under a number and the message of that number mean the same call.
LEMMA HandlerCorrelated ==
  ASSUME TypeOK, Correlated, HandlerStep
  PROVE  Correlated'
<1>1. /\ CallTypeOK /\ HandlerTypeOK /\ toHost \in Seq(ToHostMsgs)
      /\ NumbersFresh /\ MessagesMatch /\ ChannelsMatch /\ StartsOnce
      /\ NoStaleEntry /\ StaysRegistered /\ CallsNeverCross
  BY DEF TypeOK, WireTypeOK, Correlated
<1>2. UNCHANGED <<requestID, pc, id, result, loadPc, toPlugin, jobs>>
  BY DEF HandlerStep, lifeVars, peerVars, peerState
<1>3. NumbersFresh' /\ CallsNeverCross'
  BY <1>1, <1>2 DEF NumbersFresh, CallsNeverCross, InFlight
<1>4. handler # "off"
  BY DEF HandlerStep, HandlerSend, HandlerCleanup, HandleReady, HandleShutdownAck,
         HandleForceShutdownAck, HandleReply, HandleRequest, HandleIgnored, HandlerLoadDone,
         HandlerTakes
<1>5. StartsOnce'
  BY <1>1, <1>2, <1>4 DEF StartsOnce
<1>6. AllMatch(toHost', id)
  <2>1. (\E kinds : HandlerTakes(kinds)) => AllMatch(toHost', id)
    BY <1>1, TailMatches DEF HandlerTakes, MessagesMatch
  <2>2. (\E kinds : HandlerTakes(kinds)) \/ UNCHANGED toHost
    BY DEF HandlerStep, HandlerSend, HandlerCleanup, HandleReady, HandleShutdownAck,
           HandleForceShutdownAck, HandleReply, HandleRequest, HandleIgnored, HandlerLoadDone
  <2> QED BY <1>1, <2>1, <2>2 DEF MessagesMatch
<1>7. MessagesMatch'
  <2>1. CASE HandleReply
    <3>1. Head(toHost) \in ToHostMsgs /\ Matches(Head(toHost), id)
      BY <1>1, <2>1, TailMatches DEF HandleReply, HandlerTakes, MessagesMatch
    <3>2. Head(toHost).seq \in Ids /\ Head(toHost).seq # 0
      BY <2>1, <3>1 DEF HandleReply, IsReply, ToHostMsgs
    <3>3. id[pendingRequests[Head(toHost).seq]] = Head(toHost).seq
      BY <1>1, <2>1, <3>2 DEF HandleReply, NoStaleEntry
    <3> QED BY <1>1, <1>2, <1>6, <2>1, <3>1, <3>2, <3>3 DEF HandleReply, MessagesMatch
  <2>2. CASE ~HandleReply
    <3>1. handler' # "send"
      BY <2>2 DEF HandlerStep, HandlerSend, HandlerCleanup, HandleReady, HandleShutdownAck,
            HandleForceShutdownAck, HandleRequest, HandleIgnored, HandlerLoadDone, HandlerTakes,
            handlerVars
    <3> QED BY <1>1, <1>2, <1>6, <3>1 DEF MessagesMatch
  <2> QED BY <2>1, <2>2
<1>8. ChannelsMatch' /\ NoStaleEntry' /\ StaysRegistered'
  <2>1. CASE HandlerSend
    <3>1. /\ sending.to \in Calls /\ sending.msg.seq = id[sending.to]
          /\ sending.msg.seq # 0 /\ Matches(sending.msg, id)
      BY <1>1, <2>1 DEF HandlerSend, MessagesMatch, HandlerTypeOK
    <3>2. sending.msg.body \notin Calls \ {sending.to}
      BY <1>1, <3>1 DEF Matches, NumbersFresh
    <3>3. ChannelsMatch'
      <4>1. \/ respChan' = respChan
            \/ respChan' = [respChan EXCEPT ![sending.to] = FullChan(sending.msg.body)]
        BY <2>1 DEF HandlerSend
      <4>2. FullChan(sending.msg.body).from = sending.msg.body
        BY DEF FullChan
      <4> QED BY <1>1, <3>1, <3>2, <4>1, <4>2 DEF ChannelsMatch, CallTypeOK
    <3> QED BY <1>1, <1>2, <2>1, <3>3 DEF HandlerSend, NoStaleEntry, StaysRegistered, InFlight
  <2>2. CASE HandlerCleanup
    <3>1. ChannelsMatch'
      BY <1>1, <2>2, NobodysCall DEF HandlerCleanup, ChannelsMatch, EmptyChan, ClosedChan
    <3> QED BY <2>2, <3>1 DEF HandlerCleanup, NoStaleEntry, StaysRegistered
  <2>3. CASE UNCHANGED <<pendingRequests, respChan>>
    <3>1. handler # "done"
      BY DEF HandlerStep, HandlerSend, HandlerCleanup, HandleReady, HandleShutdownAck,
             HandleForceShutdownAck, HandleReply, HandleRequest, HandleIgnored, HandlerLoadDone,
         HandlerTakes
    <3> QED BY <1>1, <1>2, <2>3, <3>1 DEF ChannelsMatch, NoStaleEntry, StaysRegistered, InFlight
  <2> QED BY <2>1, <2>2, <2>3 DEF HandlerStep
<1> QED BY <1>3, <1>5, <1>7, <1>8 DEF Correlated

\* What a step of a call leaves alone.
LEMMA CallFrameCorrelated ==
  ASSUME Correlated, CallFrame, UNCHANGED id, AllMatch(toPlugin', id)
  PROVE  MessagesMatch' /\ StartsOnce'
  BY DEF Correlated, MessagesMatch, StartsOnce, CallFrame, handlerVars, lifeVars,
         peerVars, peerState

\* The first checks of Call change nothing but its position.
LEMMA CallStartCorrelated ==
  ASSUME TypeOK, Correlated, NEW c \in Calls, CallStart(c)
  PROVE  Correlated'
<1> USE DEF CallStart, CallBegin
<1>1. /\ pc \in [Calls -> CallPcs] /\ result \in [Calls -> Results]
      /\ pendingRequests \in [Ids -> Calls \cup {None}]
  BY DEF TypeOK, CallTypeOK
<1>2. pc[c] = "idle" /\ pc' \in {[pc EXCEPT ![c] = "gen"], [pc EXCEPT ![c] = "done"]}
  BY DEF Goes, Returns
<1>3. /\ NumbersFresh /\ ChannelsMatch /\ NoStaleEntry /\ StaysRegistered /\ CallsNeverCross
      /\ AllMatch(toPlugin, id)
  BY DEF Correlated, MessagesMatch
<1>4. UNCHANGED <<requestID, pendingRequests, id, respChan, toPlugin, handler>>
  BY DEF CallFrame, handlerVars
<1>5. NumbersFresh'
  BY <1>1, <1>2, <1>3, <1>4 DEF NumbersFresh, InFlight
<1>6. NoStaleEntry' /\ StaysRegistered'
  <2>1. \A d \in Calls : InFlight(d) <=> InFlight(d)'
    BY <1>1, <1>2 DEF InFlight
  <2>2. NoStaleEntry'
    BY <1>1, <1>3, <1>4, <2>1 DEF NoStaleEntry
  <2>3. StaysRegistered'
    BY <1>1, <1>2, <1>3, <1>4 DEF StaysRegistered
  <2> QED BY <2>2, <2>3
<1>7. CallsNeverCross'
  <2>1. result' = result \/ result' = [result EXCEPT ![c] = Outcome("refused")]
    BY DEF Returns
  <2> QED BY <1>1, <1>3, <2>1, NobodysCall DEF CallsNeverCross, Outcome
<1>8. ChannelsMatch'
  BY <1>3, <1>4 DEF ChannelsMatch
<1> QED BY <1>3, <1>4, <1>5, <1>6, <1>7, <1>8, CallFrameCorrelated DEF Correlated

\* A caller that gives up leaves its entry to the deferred delete, and an aborted
\* request still carries its number.
LEMMA CallExpiresCorrelated ==
  ASSUME TypeOK, Correlated, NEW c \in Calls, CallExpires(c)
  PROVE  Correlated'
<1> USE DEF CallExpires, CallGivesUp
<1>1. /\ pc \in [Calls -> CallPcs] /\ result \in [Calls -> Results] /\ id \in [Calls -> Ids]
      /\ pendingRequests \in [Ids -> Calls \cup {None}]
      /\ toPlugin \in Seq(ToPluginMsgs)
  BY DEF TypeOK, CallTypeOK, WireTypeOK
<1>2. pc[c] \in {"write", "wait"} /\ pc' = [pc EXCEPT ![c] = "deferred"]
  BY DEF Goes, Returns
<1>3. /\ NumbersFresh /\ ChannelsMatch /\ NoStaleEntry /\ StaysRegistered /\ CallsNeverCross
      /\ AllMatch(toPlugin, id)
  BY DEF Correlated, MessagesMatch
<1>4. UNCHANGED <<requestID, pendingRequests, id, respChan, handler>>
  BY DEF CallFrame, handlerVars
<1>5. NumbersFresh'
  BY <1>1, <1>2, <1>3, <1>4 DEF NumbersFresh, InFlight
<1>6. NoStaleEntry' /\ StaysRegistered'
  <2>1. \A d \in Calls : InFlight(d) <=> InFlight(d)'
    BY <1>1, <1>2 DEF InFlight
  <2>2. NoStaleEntry'
    BY <1>1, <1>3, <1>4, <2>1 DEF NoStaleEntry
  <2>3. StaysRegistered'
    BY <1>1, <1>2, <1>3, <1>4 DEF StaysRegistered
  <2> QED BY <2>2, <2>3
<1>7. CallsNeverCross'
  <2>1. \/ result' = [result EXCEPT ![c] = Outcome("writeError")]
        \/ result' = [result EXCEPT ![c] = Outcome("ctxDone")]
    BY DEF Returns
  <2> QED BY <1>1, <1>3, <2>1, NobodysCall DEF CallsNeverCross, Outcome
<1>8. ChannelsMatch'
  BY <1>3, <1>4 DEF ChannelsMatch
<1>9. AllMatch(toPlugin', id)
  <2>1. Msg("request", id[c], c) \in ToPluginMsgs
    BY <1>1, MsgTypes DEF Bodies, ToPluginKinds
  <2>2. id[c] # 0
    BY <1>2, <1>3 DEF NumbersFresh, InFlight
  <2>3. Matches(Msg("request", id[c], c), id)
    BY <2>2 DEF Matches, Msg
  <2> QED BY <1>1, <1>3, <2>1, <2>3, WriteMatches
<1> QED BY <1>3, <1>4, <1>5, <1>6, <1>7, <1>8, <1>9, CallFrameCorrelated DEF Correlated

\* The counter's value is the number as long as it does not wrap.
LEMMA SmallMod ==
  ASSUME NEW n \in Nat, NEW d \in Nat \ {0}, n < d
  PROVE  n % d = n
<1>1. n \div d = 0
  BY SMT
<1>2. n = d * (n \div d) + (n % d)
  BY SMT
<1> QED BY <1>1, <1>2

\* Add(1) gives a number no call has had, as long as the counter does not wrap.
LEMMA GenerateAddCorrelated ==
  ASSUME NoWrap, TypeOK, Correlated, NEW c \in Calls, GenerateAdd(c), CallFrame,
         UNCHANGED <<respChan, toPlugin, stdinCopy>>
  PROVE  Correlated'
<1>1. /\ pc \in [Calls -> CallPcs] /\ id \in [Calls -> Ids]
      /\ pendingRequests \in [Ids -> Calls \cup {None}]
      /\ requestID \in Nat /\ \A d \in Calls : id[d] \in Nat
  BY IdAssumption, SpaceAssumption DEF TypeOK, CallTypeOK, Ids
<1>2. /\ NumbersFresh /\ MessagesMatch /\ ChannelsMatch /\ NoStaleEntry /\ StaysRegistered
      /\ CallsNeverCross /\ StartsOnce
  BY DEF Correlated
<1>3. requestID' = requestID + 1 /\ requestID' % IdSpace = requestID'
  <2>1. /\ requestID + 1 \in Nat /\ IdSpace \in Nat \ {0} /\ requestID + 1 < IdSpace
        /\ requestID' = requestID + 1
    BY <1>1, IdAssumption, SpaceAssumption DEF GenerateAdd, NoWrap
  <2> QED BY <2>1, SmallMod
<1>4. /\ pc[c] = "gen" /\ id[c] = 0
      /\ id' = [id EXCEPT ![c] = requestID + 1]
      /\ pc' = [pc EXCEPT ![c] = "check"]
  <2>1. pc[c] = "gen" /\ id[c] = 0
    BY <1>2 DEF GenerateAdd, NumbersFresh
  <2>2. requestID' % IdSpace # 0
    BY <1>1, <1>3
  <2>3. id' = [id EXCEPT ![c] = requestID + 1]
    BY <1>3 DEF GenerateAdd
  <2>4. pc' = [pc EXCEPT ![c] = "check"]
    BY <2>2 DEF GenerateAdd, Goes, Skipped
  <2> QED BY <2>1, <2>3, <2>4
<1>5. /\ UNCHANGED <<pendingRequests, result, respChan, toPlugin, toHost, jobs, handler,
                     sending, loadPc>>
  BY DEF GenerateAdd, CallFrame, handlerVars, peerVars, peerState, lifeVars
<1>6. NumbersFresh'
  BY <1>1, <1>2, <1>3, <1>4 DEF NumbersFresh, InFlight
<1>7. \A m : Matches(m, id) => Matches(m, id')
  BY <1>1, <1>4 DEF Matches
<1>8. MessagesMatch'
  <2>1. AllMatch(toPlugin, id') /\ AllMatch(toHost, id')
    BY <1>2, <1>7 DEF MessagesMatch, AllMatch
  <2>2. handler = "send" => sending.to # c /\ sending.to \in Calls
    BY <1>2, <1>4 DEF MessagesMatch, TypeOK, HandlerTypeOK
  <2>3. handler = "send" => sending.msg.seq = id'[sending.to]
    BY <1>1, <1>2, <1>4, <2>2 DEF MessagesMatch
  <2> QED BY <1>2, <1>5, <1>7, <2>1, <2>3 DEF MessagesMatch
<1>9. NoStaleEntry'
  <2>1. \A i \in Ids : pendingRequests[i] # None => pendingRequests[i] \in Calls \ {c}
    BY <1>1, <1>2, <1>4 DEF NoStaleEntry, InFlight
  <2> QED BY <1>1, <1>2, <1>4, <1>5, <2>1 DEF NoStaleEntry, InFlight
<1>10. StaysRegistered'
  BY <1>1, <1>2, <1>4, <1>5 DEF StaysRegistered
<1>11. ChannelsMatch' /\ CallsNeverCross' /\ StartsOnce'
  BY <1>2, <1>5 DEF ChannelsMatch, CallsNeverCross, StartsOnce
<1> QED BY <1>6, <1>8, <1>9, <1>10, <1>11 DEF Correlated

\* A step of a call that keeps its number: what each of the others owes.
LEMMA CallStepCorrelated ==
  ASSUME NoWrap, TypeOK, Correlated, NEW c \in Calls, CallStep(c)
  PROVE  Correlated'
<1> DEFINE Quiet == UNCHANGED <<respChan, toPlugin, stdinCopy>>
<1>1. /\ pc \in [Calls -> CallPcs] /\ id \in [Calls -> Ids] /\ result \in [Calls -> Results]
      /\ pendingRequests \in [Ids -> Calls \cup {None}]
      /\ respChan \in [Calls -> Chans]
      /\ toPlugin \in Seq(ToPluginMsgs)
  BY DEF TypeOK, CallTypeOK, WireTypeOK
<1>2. /\ NumbersFresh /\ ChannelsMatch /\ NoStaleEntry /\ StaysRegistered /\ CallsNeverCross
      /\ AllMatch(toPlugin, id)
  BY DEF Correlated, MessagesMatch
<1>3. CallFrame /\ UNCHANGED handler
  BY DEF CallStep, CallFrame, handlerVars
<1>4. ASSUME UNCHANGED id, AllMatch(toPlugin', id), NumbersFresh', ChannelsMatch',
             NoStaleEntry', StaysRegistered', CallsNeverCross'
      PROVE  Correlated'
  BY <1>3, <1>4, CallFrameCorrelated DEF Correlated
<1>5. CASE GenerateAdd(c) /\ Quiet
  BY <1>3, <1>5, GenerateAddCorrelated
<1>6. CASE GenerateCheck(c) /\ Quiet
  <2>1. UNCHANGED <<requestID, pendingRequests, id, result, respChan, toPlugin>> /\ pc[c] = "check"
    BY <1>6 DEF GenerateCheck
  <2>2. pendingRequests[id[c]] = None
    BY <1>1, <1>2, <2>1 DEF NoStaleEntry, NumbersFresh, InFlight
  <2>3. pc' = [pc EXCEPT ![c] = "register"]
    BY <1>6, <2>2 DEF GenerateCheck, Goes
  <2>4. NumbersFresh'
    BY <1>1, <1>2, <2>1, <2>3 DEF NumbersFresh, InFlight
  <2>5. \A d \in Calls : InFlight(d) <=> InFlight(d)'
    BY <1>1, <2>1, <2>3 DEF InFlight
  <2>6. NoStaleEntry'
    BY <1>1, <1>2, <2>1, <2>5 DEF NoStaleEntry
  <2>7. StaysRegistered'
    BY <1>1, <1>2, <1>3, <2>1, <2>3 DEF StaysRegistered
  <2>8. ChannelsMatch' /\ CallsNeverCross'
    BY <1>2, <2>1 DEF ChannelsMatch, CallsNeverCross
  <2> QED BY <1>2, <1>4, <2>1, <2>4, <2>6, <2>7, <2>8
<1>7. CASE GenerateFallback(c) /\ Quiet
  BY <1>2, <1>7 DEF GenerateFallback, NumbersFresh
<1>8. CASE Register(c) /\ Quiet
  <2>1. UNCHANGED <<requestID, id, respChan, toPlugin>> /\ pc[c] = "register"
    BY <1>8 DEF Register
  <2>2. CASE closed
    <3>1. UNCHANGED pendingRequests /\ pc' = [pc EXCEPT ![c] = "done"]
      BY <1>8, <2>2 DEF Register, Returns, Goes
    <3>2. result' = [result EXCEPT ![c] = Outcome("refused")]
      BY <1>8, <2>2 DEF Register, Returns
    <3>3. NumbersFresh'
      BY <1>1, <1>2, <2>1, <3>1 DEF NumbersFresh, InFlight
    <3>4. \A d \in Calls : InFlight(d) <=> InFlight(d)'
      BY <1>1, <2>1, <3>1 DEF InFlight
    <3>5. NoStaleEntry'
      BY <1>1, <1>2, <2>1, <3>1, <3>4 DEF NoStaleEntry
    <3>6. StaysRegistered'
      BY <1>1, <1>2, <1>3, <2>1, <3>1 DEF StaysRegistered
    <3>7. ChannelsMatch' /\ CallsNeverCross'
      BY <1>1, <1>2, <2>1, <3>2, NobodysCall DEF ChannelsMatch, CallsNeverCross, Outcome
    <3> QED BY <1>2, <1>4, <2>1, <3>3, <3>5, <3>6, <3>7
  <2>3. CASE ~closed
    <3>1. /\ UNCHANGED result /\ pc' = [pc EXCEPT ![c] = "write"]
          /\ pendingRequests' = [pendingRequests EXCEPT ![id[c]] = c]
      BY <1>8, <2>3 DEF Register, Goes
    <3>2. id[c] \in Ids /\ id[c] # 0 /\ \A d \in Calls \ {c} : id[d] # id[c]
      BY <1>1, <1>2, <2>1 DEF NumbersFresh
    <3>3. NumbersFresh'
      BY <1>1, <1>2, <2>1, <3>1 DEF NumbersFresh, InFlight
    <3>4. InFlight(c)' /\ \A d \in Calls : InFlight(d) => InFlight(d)'
      BY <1>1, <3>1 DEF InFlight
    <3>5. NoStaleEntry'
      BY <1>1, <1>2, <2>1, <3>1, <3>4 DEF NoStaleEntry
    <3>6. StaysRegistered'
      BY <1>1, <1>2, <1>3, <2>1, <3>1, <3>2 DEF StaysRegistered
    <3>7. ChannelsMatch' /\ CallsNeverCross'
      BY <1>2, <2>1, <3>1 DEF ChannelsMatch, CallsNeverCross
    <3> QED BY <1>2, <1>4, <2>1, <3>3, <3>5, <3>6, <3>7
  <2> QED BY <2>2, <2>3
<1>9. CASE CallDeferred(c) /\ Quiet
  <2>1. /\ UNCHANGED <<requestID, id, result, respChan, toPlugin>> /\ pc[c] = "deferred"
        /\ pendingRequests' = [pendingRequests EXCEPT ![id[c]] = None]
        /\ pc' = [pc EXCEPT ![c] = "done"]
    BY <1>9 DEF CallDeferred, Goes
  <2>2. id[c] \in Ids /\ id[c] # 0 /\ \A d \in Calls \ {c} : id[d] # id[c]
    BY <1>1, <1>2, <2>1 DEF NumbersFresh, InFlight
  <2>3. NumbersFresh'
    BY <1>1, <1>2, <2>1 DEF NumbersFresh, InFlight
  <2>4. \A d \in Calls \ {c} : InFlight(d) => InFlight(d)'
    BY <1>1, <2>1 DEF InFlight
  <2>5. \A i \in Ids : pendingRequests'[i] # None =>
          pendingRequests[i] = pendingRequests'[i] /\ pendingRequests[i] \in Calls \ {c}
    BY <1>1, <1>2, <2>1, <2>2 DEF NoStaleEntry
  <2>6. NoStaleEntry'
    BY <1>2, <2>1, <2>4, <2>5 DEF NoStaleEntry
  <2>7. StaysRegistered'
    BY <1>1, <1>2, <1>3, <2>1, <2>2 DEF StaysRegistered
  <2>8. ChannelsMatch' /\ CallsNeverCross'
    BY <1>2, <2>1 DEF ChannelsMatch, CallsNeverCross
  <2> QED BY <1>2, <1>4, <2>1, <2>3, <2>6, <2>7, <2>8
<1>10. CASE CallWrite(c)
  <2>1. /\ UNCHANGED <<requestID, pendingRequests, id, respChan>>
        /\ pc[c] \in {"write", "blocked"}
        /\ pc' \in {[pc EXCEPT ![c] = to] : to \in {"wait", "blocked", "deferred"}}
    BY <1>10 DEF CallWrite, Goes, Returns
  <2>2. NumbersFresh'
    BY <1>1, <1>2, <2>1 DEF NumbersFresh, InFlight
  <2>3. \A d \in Calls : InFlight(d) <=> InFlight(d)'
    BY <1>1, <2>1 DEF InFlight
  <2>4. NoStaleEntry'
    BY <1>1, <1>2, <2>1, <2>3 DEF NoStaleEntry
  <2>5. StaysRegistered'
    BY <1>1, <1>2, <1>3, <2>1 DEF StaysRegistered
  <2>6. CallsNeverCross'
    <3>1. result' = result \/ result' = [result EXCEPT ![c] = Outcome("writeError")]
      BY <1>10 DEF CallWrite, Returns
    <3> QED BY <1>1, <1>2, <3>1 DEF CallsNeverCross, Outcome
  <2>7. ChannelsMatch'
    BY <1>2, <2>1 DEF ChannelsMatch
  <2>8. AllMatch(toPlugin', id)
    <3>1. Msg("request", id[c], c) \in ToPluginMsgs
      BY <1>1, MsgTypes DEF Bodies, ToPluginKinds
    <3>2. id[c] # 0
      BY <1>2, <2>1 DEF NumbersFresh, InFlight
    <3>3. Matches(Msg("request", id[c], c), id)
      BY <3>2 DEF Matches, Msg
    <3>4. Written(Msg("request", id[c], c)) \/ WriteFails \/ WriteBlocks
      BY <1>10 DEF CallWrite
    <3> QED BY <1>1, <1>2, <3>1, <3>3, <3>4, WriteMatches
  <2> QED BY <1>4, <2>1, <2>2, <2>4, <2>5, <2>6, <2>7, <2>8
<1>11. CASE CallReceive(c)
  <2>1. /\ UNCHANGED <<requestID, pendingRequests, id, toPlugin>> /\ pc[c] = "wait"
        /\ pc' = [pc EXCEPT ![c] = "deferred"]
    BY <1>11 DEF CallReceive, Goes, Returns
  <2>2. NumbersFresh'
    BY <1>1, <1>2, <2>1 DEF NumbersFresh, InFlight
  <2>3. \A d \in Calls : InFlight(d) <=> InFlight(d)'
    BY <1>1, <2>1 DEF InFlight
  <2>4. NoStaleEntry'
    BY <1>1, <1>2, <2>1, <2>3 DEF NoStaleEntry
  <2>5. StaysRegistered'
    BY <1>1, <1>2, <1>3, <2>1 DEF StaysRegistered
  <2>6. CallsNeverCross'
    <3>1. PICK r : result' = [result EXCEPT ![c] = r] /\ r.from \notin Calls \ {c}
      BY <1>2, <1>11, NobodysCall DEF CallReceive, Returns, Outcome, ChannelsMatch
    <3> QED BY <1>1, <1>2, <3>1 DEF CallsNeverCross
  <2>7. ChannelsMatch'
    <3>1. respChan' = respChan \/ respChan' = [respChan EXCEPT ![c] = EmptyChan]
      BY <1>11 DEF CallReceive
    <3> QED BY <1>1, <1>2, <3>1, NobodysCall DEF ChannelsMatch, EmptyChan
  <2> QED BY <1>2, <1>4, <2>1, <2>2, <2>4, <2>5, <2>6, <2>7
<1> QED BY <1>5, <1>6, <1>7, <1>8, <1>9, <1>10, <1>11 DEF CallStep

-----------------------------------------------------------------------------

\* Every step keeps the correlation.
LEMMA NextCorrelated ==
  ASSUME NoWrap, TypeOK, Correlated, [Next]_vars
  PROVE  Correlated'
<1>1. CASE \E c \in Calls : CallStart(c) \/ CallStep(c) \/ CallExpires(c)
  BY <1>1, CallStartCorrelated, CallStepCorrelated, CallExpiresCorrelated
<1>2. CASE \E n \in HostNotes : NoteStep(n)
  BY <1>2, NoteCorrelated
<1>3. CASE HandlerStep
  BY <1>3, HandlerCorrelated
<1>4. CASE LoadStep
  BY <1>4, LoadCorrelated
<1>5. CASE LoadCtxExpires \/ MonitorStep
  BY <1>5, QuietCorrelated
<1>6. CASE \E k \in Closers : CloseStart(k) \/ CloseStep(k)
  BY <1>6, CloseCorrelated
<1>7. CASE PeerListens \/ PeerWorks \/ PeerDies
  BY <1>7, PeerCorrelated
<1>9. CASE \E r \in PeerRequests : ServeStep(r)
  BY <1>9, ServeCorrelated
<1>8. CASE UNCHANGED vars
  <2>1. AllMatch(toPlugin, id) /\ AllMatch(toHost, id) /\ \A m \in jobs : Matches(m, id)
    BY DEF Correlated, MessagesMatch
  <2>2. UNCHANGED <<callVars, sending, handler, loadPc, toPlugin, toHost, jobs>>
    BY <1>8 DEF vars, handlerVars, lifeVars, peerVars, peerState, wireVars
  <2> QED BY <2>1, <2>2, ElsewhereCorrelated
<1> QED BY <1>1, <1>2, <1>3, <1>4, <1>5, <1>6, <1>7, <1>8, <1>9 DEF Next

\* requestID correlates: in every reachable state a number means one call,
\* in pendingRequests and in every message, with any number of calls, give-ups,
\* late replies, crashes and closes, as long as requestID does not wrap.
THEOREM CorrelationHolds ==
  ASSUME NoWrap
  PROVE  Spec => []Correlated
<1>1. Init => Correlated
  BY InitCorrelated
<1>2. TypeOK /\ Correlated /\ [Next]_vars => Correlated'
  BY NextCorrelated
<1> QED BY <1>1, <1>2, TypeCorrect, PTL DEF Spec

\* No call returns the reply to another call, whatever order replies come in.
THEOREM NeverCross ==
  ASSUME NoWrap
  PROVE  Spec => []CallsNeverCross
<1>1. Correlated => CallsNeverCross
  BY DEF Correlated
<1> QED BY <1>1, CorrelationHolds, PTL

\* Calls in flight have numbers of their own, and none has number zero.
THEOREM NumbersUnique ==
  ASSUME NoWrap
  PROVE  Spec => []UniqueInFlight
<1>1. Correlated => UniqueInFlight
  BY DEF Correlated, NumbersFresh, UniqueInFlight
<1> QED BY <1>1, CorrelationHolds, PTL

\* A waiting call's channel is found under its number until the final cleanup:
\* no deferred delete and no registration of another call takes it away.
THEOREM EntriesExact ==
  ASSUME NoWrap
  PROVE  Spec => []StaysRegistered
<1>1. Correlated => StaysRegistered
  BY DEF Correlated
<1> QED BY <1>1, CorrelationHolds, PTL
=============================================================================
