---------------------------- MODULE LoaderProofs ----------------------------
(* Proofs about Loader.tla, for every value of its constants: the types, and *)
(* what is left when a Loader has been closed, or has failed to load.        *)
EXTENDS LoaderProps, TLAPS

\* A uint32 counter stays in its range.
LEMMA IdsClosed == \A n \in Nat : n % IdSpace \in Ids
  BY SpaceAssumption DEF Ids

\* The messages the actions build are messages.
LEMMA MsgTypes ==
  ASSUME NEW seq \in Ids, NEW body \in Bodies \cup {None}
  PROVE  /\ \A kind \in ToPluginKinds : Msg(kind, seq, body) \in ToPluginMsgs
         /\ \A kind \in ToHostKinds : Msg(kind, seq, body) \in ToHostMsgs
  BY DEF Msg, ToPluginMsgs, ToHostMsgs

\* The numbers nodeAdapter gives out are numbers, on the host ...
LEMMA NextSequenceType == sequence \in Ids => NextSequence \in Ids
  BY IdsClosed, SpaceAssumption DEF NextSequence, Ids

\* ... and in the plugin.
LEMMA NextPeerSeqType == peerSeq \in Ids => NextPeerSeq \in Ids
  BY IdsClosed, SpaceAssumption DEF NextPeerSeq, Ids

\* A write leaves a sequence of messages, whatever its outcome.
LEMMA WriteTypes ==
  ASSUME ProcTypeOK, toPlugin \in Seq(ToPluginMsgs), NEW m \in ToPluginMsgs,
         Written(m) \/ WriteFails \/ Aborted(m) \/ WriteBlocks
  PROVE  toPlugin' \in Seq(ToPluginMsgs) /\ stdinCopy' \in {"running", "ended"}
<1>1. CASE Written(m)
  BY <1>1 DEF Written, ProcTypeOK
<1>2. CASE WriteFails
  BY <1>2 DEF WriteFails, ProcTypeOK
<1>3. CASE Aborted(m)
  <2>1. [m EXCEPT !.kind = "garbled"] \in ToPluginMsgs
    BY DEF ToPluginMsgs, ToPluginKinds
  <2> QED BY <1>3, <2>1 DEF Aborted, ProcTypeOK
<1>4. CASE WriteBlocks
  BY <1>4 DEF WriteBlocks, ProcTypeOK
<1> QED BY <1>1, <1>2, <1>3, <1>4

-----------------------------------------------------------------------------
(* Type correctness.                                                       *)

\* The handler's empty hand is a message of the type.
LEMMA NoMsgType == NoMsg \in ToHostMsgs
  BY SpaceAssumption DEF NoMsg, Msg, ToHostMsgs, ToHostKinds, Ids

\* NewLoader builds a Loader of the type.
LEMMA InitType == Init => TypeOK
<1> SUFFICES ASSUME Init PROVE TypeOK
  OBVIOUS
<1> USE IdAssumption, SpaceAssumption DEF Init
<1>1. LifeTypeOK
  BY DEF LifeTypeOK
<1>4. NoteTypeOK
  <2>1. 0 \in Ids
    BY DEF Ids
  <2> QED BY <2>1 DEF NoteTypeOK
<1>7. ServeTypeOK
  <2>1. 0 \in Ids
    BY DEF Ids
  <2> QED BY <2>1 DEF ServeTypeOK
<1>6. ProcTypeOK /\ PeerTypeOK
  <2>1. 0 \in Ids
    BY DEF Ids
  <2> QED BY <2>1 DEF ProcTypeOK, PeerTypeOK
<1>5. WireTypeOK
  BY DEF WireTypeOK
<1>2. CallTypeOK
  <2>1. EmptyChan \in Chans
    BY DEF EmptyChan, Chans
  <2>2. NoResult \in Results
    BY DEF NoResult, Results, ResultKinds
  <2> QED BY <2>1, <2>2 DEF CallTypeOK, CallPcs, Ids
<1>3. HandlerTypeOK
  BY NoMsgType DEF HandlerTypeOK, NoSending
<1> QED BY <1>1, <1>2, <1>3, <1>4, <1>5, <1>6, <1>7 DEF TypeOK

\* What a call returns is an outcome.
LEMMA OutcomeTypes ==
  /\ \A kind \in ResultKinds : Outcome(kind) \in Results
  /\ \A body \in Bodies \cup {None} :
       [kind |-> "reply", from |-> body] \in Results
  BY DEF Outcome, Results, ResultKinds

\* A step of a call disturbs only the variables of calls and the write it makes.
LEMMA CallFrameType ==
  ASSUME TypeOK, CallFrame
  PROVE  /\ LifeTypeOK' /\ NoteTypeOK' /\ HandlerTypeOK' /\ ServeTypeOK' /\ PeerTypeOK'
         /\ stdinCopy' \in {"running", "ended"} => ProcTypeOK'
         /\ toPlugin' \in Seq(ToPluginMsgs) => WireTypeOK'
<1>1. LifeTypeOK'
  BY DEF TypeOK, CallFrame, LifeTypeOK, lifeVars
<1>2. NoteTypeOK' /\ HandlerTypeOK' /\ ServeTypeOK'
  BY DEF TypeOK, CallFrame, NoteTypeOK, HandlerTypeOK, ServeTypeOK, noteVars, handlerVars,
         serveVars
<1>3. PeerTypeOK' /\ (stdinCopy' \in {"running", "ended"} => ProcTypeOK')
  BY DEF TypeOK, CallFrame, PeerTypeOK, ProcTypeOK, peerVars, peerState
<1>4. toPlugin' \in Seq(ToPluginMsgs) => WireTypeOK'
  BY DEF TypeOK, CallFrame, WireTypeOK
<1> QED BY <1>1, <1>2, <1>3, <1>4

\* The first checks of Call.
LEMMA CallStartType ==
  ASSUME TypeOK, NEW c \in Calls, CallStart(c)
  PROVE  TypeOK'
<1> USE DEF CallStart, CallBegin
<1>1. CallTypeOK'
  <2> USE DEF TypeOK, CallTypeOK
  <2>1. Outcome("refused") \in Results
    BY OutcomeTypes DEF ResultKinds
  <2>2. pc' \in [Calls -> CallPcs]
    BY DEF Goes, Returns, CallPcs
  <2>3. result' \in [Calls -> Results]
    BY <2>1 DEF Returns
  <2> QED BY <2>2, <2>3
<1>2. toPlugin' \in Seq(ToPluginMsgs) /\ stdinCopy' \in {"running", "ended"}
  BY DEF TypeOK, WireTypeOK, ProcTypeOK
<1> QED BY <1>1, <1>2, CallFrameType DEF TypeOK

\* Call, from generateRequestID to the deferred delete.
LEMMA CallStepType ==
  ASSUME TypeOK, NEW c \in Calls, CallStep(c)
  PROVE  TypeOK'
<1> SUFFICES /\ CallTypeOK'
             /\ toPlugin' \in Seq(ToPluginMsgs)
             /\ stdinCopy' \in {"running", "ended"}
  BY CallFrameType DEF CallStep, TypeOK
<1> DEFINE Quiet == UNCHANGED <<respChan, toPlugin, stdinCopy>>
<1>1. CallTypeOK /\ ProcTypeOK /\ toPlugin \in Seq(ToPluginMsgs)
  BY DEF TypeOK, WireTypeOK
<1> USE <1>1 DEF CallTypeOK, Goes
<1>a. Quiet => toPlugin' \in Seq(ToPluginMsgs) /\ stdinCopy' \in {"running", "ended"}
  BY DEF ProcTypeOK
<1>b. \A kind \in ResultKinds : Outcome(kind) \in Results
  BY OutcomeTypes
<1>c. CASE GenerateAdd(c) /\ Quiet
  <2>1. requestID' \in PastCalls .. MaxAdds /\ requestID' \in Nat
    BY <1>c, IdAssumption DEF GenerateAdd
  <2>2. id' \in [Calls -> Ids]
    BY <2>1, <1>c, IdsClosed DEF GenerateAdd
  <2>3. attempt' \in [Calls -> Nat]
    BY <1>c DEF GenerateAdd
  <2>4. pc' \in [Calls -> CallPcs]
    BY <1>c DEF GenerateAdd, CallPcs
  <2> QED BY <1>a, <1>c, <2>1, <2>2, <2>3, <2>4 DEF GenerateAdd
<1>d. CASE GenerateCheck(c) /\ Quiet
  <2>1. pc' \in [Calls -> CallPcs]
    BY <1>d DEF GenerateCheck, CallPcs
  <2> QED BY <1>a, <1>d, <2>1 DEF GenerateCheck
<1>e. CASE GenerateFallback(c) /\ Quiet
  <2>0. requestID \in Nat
    BY IdAssumption
  <2>1. requestID % IdSpace \in Ids
    BY <2>0, IdsClosed
  <2>2. id' \in [Calls -> Ids]
    BY <2>1, <1>e DEF GenerateFallback
  <2>3. pc' \in [Calls -> CallPcs]
    BY <1>e DEF GenerateFallback, CallPcs
  <2> QED BY <1>a, <1>e, <2>2, <2>3 DEF GenerateFallback
<1>f. CASE Register(c) /\ Quiet
  <2>1. pc' \in [Calls -> CallPcs]
    BY <1>f DEF Register, Returns, CallPcs
  <2>2. pendingRequests' \in [Ids -> Calls \cup {None}]
    BY <1>f DEF Register
  <2>3. result' \in [Calls -> Results]
    BY <1>b, <1>f DEF Register, Returns, ResultKinds
  <2> QED BY <1>a, <1>f, <2>1, <2>2, <2>3 DEF Register
<1>g. CASE CallDeferred(c) /\ Quiet
  <2>1. pc' \in [Calls -> CallPcs]
    BY <1>g DEF CallDeferred, CallPcs
  <2>2. pendingRequests' \in [Ids -> Calls \cup {None}]
    BY <1>g DEF CallDeferred
  <2> QED BY <1>a, <1>g, <2>1, <2>2 DEF CallDeferred
<1>h. CASE CallWrite(c)
  <2>1. pc' \in [Calls -> CallPcs]
    BY <1>h DEF CallWrite, Returns, CallPcs
  <2>2. result' \in [Calls -> Results]
    BY <1>b, <1>h DEF CallWrite, Returns, ResultKinds
  <2>3. Msg("request", id[c], c) \in ToPluginMsgs
    BY MsgTypes DEF Bodies, ToPluginKinds
  <2>4. Written(Msg("request", id[c], c)) \/ WriteFails \/ WriteBlocks
    BY <1>h DEF CallWrite
  <2>5. toPlugin' \in Seq(ToPluginMsgs) /\ stdinCopy' \in {"running", "ended"}
    BY <2>3, <2>4, WriteTypes
  <2> QED BY <1>h, <2>1, <2>2, <2>5 DEF CallWrite
<1>i. CASE CallReceive(c)
  <2>1. pc' \in [Calls -> CallPcs]
    BY <1>i DEF CallReceive, Returns, CallPcs
  <2>2. respChan[c].from \in Bodies \cup {None} /\ EmptyChan \in Chans
    BY DEF Chans, EmptyChan
  <2>3. [kind |-> "reply", from |-> respChan[c].from] \in Results
    BY <2>2, OutcomeTypes
  <2>4. result' \in [Calls -> Results]
    BY <1>b, <1>i, <2>3 DEF CallReceive, Returns, ResultKinds
  <2>5. respChan' \in [Calls -> Chans]
    BY <1>i, <2>2 DEF CallReceive
  <2> QED BY <1>i, <2>1, <2>4, <2>5 DEF CallReceive, ProcTypeOK
<1> QED BY <1>c, <1>d, <1>e, <1>f, <1>g, <1>h, <1>i DEF CallStep

\* Call, given up by its context.
LEMMA CallExpiresType ==
  ASSUME TypeOK, NEW c \in Calls, CallExpires(c)
  PROVE  TypeOK'
<1>1. CallTypeOK /\ ProcTypeOK /\ toPlugin \in Seq(ToPluginMsgs)
  BY DEF TypeOK, WireTypeOK
<1> USE <1>1 DEF CallTypeOK, CallExpires, CallGivesUp, Returns, Goes
<1>2. pc' \in [Calls -> CallPcs]
  BY DEF CallPcs
<1>3. result' \in [Calls -> Results]
  <2>1. \A kind \in {"writeError", "ctxDone"} :
          Outcome(kind) \in Results
    BY OutcomeTypes DEF ResultKinds
  <2> QED BY <2>1
<1>4. CallTypeOK'
  BY <1>2, <1>3
<1>5. Msg("request", id[c], c) \in ToPluginMsgs
  BY MsgTypes DEF Bodies, ToPluginKinds
<1>6. toPlugin' \in Seq(ToPluginMsgs) /\ stdinCopy' \in {"running", "ended"}
  BY <1>5, WriteTypes DEF ProcTypeOK
<1> QED BY <1>4, <1>6, CallFrameType DEF TypeOK

\* SendMessage and SendErrorMessage.
LEMMA NoteStepType ==
  ASSUME TypeOK, NEW n \in HostNotes, NoteStep(n)
  PROVE  TypeOK'
<1>1. NoteTypeOK /\ ProcTypeOK /\ toPlugin \in Seq(ToPluginMsgs)
  BY DEF TypeOK, WireTypeOK
<1>2. NextSequence \in Ids
  BY <1>1, NextSequenceType DEF NoteTypeOK
<1>3. Msg("message", noteSeq[n], n) \in ToPluginMsgs
  BY <1>1, MsgTypes DEF NoteTypeOK, Bodies, ToPluginKinds
<1>4. NoteTypeOK' /\ toPlugin' \in Seq(ToPluginMsgs) /\ stdinCopy' \in {"running", "ended"}
  <2>1. CASE NoteBegin(n)
    BY <1>1, <1>2, <2>1 DEF NoteBegin, NoteTypeOK, ProcTypeOK
  <2>2. CASE NoteWrite(n)
    <3>1. NoteTypeOK'
      BY <1>1, <2>2 DEF NoteWrite, NoteTypeOK
    <3>2. \/ Written(Msg("message", noteSeq[n], n)) \/ WriteFails
          \/ Aborted(Msg("message", noteSeq[n], n)) \/ WriteBlocks
      BY <2>2 DEF NoteWrite
    <3> QED BY <1>1, <1>3, <3>1, <3>2, WriteTypes
  <2>3. CASE NoteUnblocked(n)
    BY <1>1, <2>3 DEF NoteUnblocked, WriteFails, NoteTypeOK, ProcTypeOK
  <2> QED BY <2>1, <2>2, <2>3 DEF NoteStep
<1>5. LifeTypeOK' /\ HandlerTypeOK' /\ ServeTypeOK'
  BY DEF NoteStep, TypeOK, LifeTypeOK, HandlerTypeOK, ServeTypeOK, lifeVars, handlerVars,
         serveVars
<1>6. CallTypeOK'
  BY DEF NoteStep, TypeOK, CallTypeOK, callVars
<1>7. ProcTypeOK' /\ PeerTypeOK'
  BY <1>1, <1>4 DEF NoteStep, TypeOK, ProcTypeOK, PeerTypeOK, peerVars, peerState
<1>8. WireTypeOK'
  BY <1>4 DEF NoteStep, TypeOK, WireTypeOK
<1> QED BY <1>4, <1>5, <1>6, <1>7, <1>8 DEF TypeOK

\* handleMessages.
LEMMA HandlerStepType ==
  ASSUME TypeOK, HandlerStep
  PROVE  TypeOK'
<1>1. HandlerTypeOK /\ CallTypeOK /\ ServeTypeOK /\ toHost \in Seq(ToHostMsgs)
  BY DEF TypeOK, WireTypeOK
<1>2. NoSending \in [to : Calls \cup {None}, msg : ToHostMsgs]
  BY NoMsgType DEF NoSending
<1>3. /\ HandlerTypeOK' /\ toHost' \in Seq(ToHostMsgs)
      /\ pendingRequests' \in [Ids -> Calls \cup {None}]
      /\ respChan' \in [Calls -> Chans]
      /\ ServeTypeOK'
  <2> DEFINE Same == UNCHANGED <<pendingRequests, respChan, serveVars>>
  <2>0. Same => /\ pendingRequests' \in [Ids -> Calls \cup {None}]
                /\ respChan' \in [Calls -> Chans]
                /\ ServeTypeOK'
    BY <1>1 DEF CallTypeOK, ServeTypeOK, serveVars
  <2>s. UNCHANGED serveVars => ServeTypeOK'
    BY <1>1 DEF ServeTypeOK, serveVars
  <2>t. \A kinds : HandlerTakes(kinds) => toHost' \in Seq(ToHostMsgs)
    BY <1>1 DEF HandlerTakes
  <2>1. CASE HandlerSend /\ UNCHANGED serveVars
    <3>1. sending.msg.body \in Bodies \cup {None} /\ sending.to \in Calls
      BY <1>1, <2>1 DEF HandlerSend, HandlerTypeOK, ToHostMsgs
    <3>2. FullChan(sending.msg.body) \in Chans
      BY <3>1 DEF FullChan, Chans
    <3>3. respChan' \in [Calls -> Chans]
      BY <1>1, <2>1, <3>1, <3>2 DEF HandlerSend, CallTypeOK
    <3>4. HandlerTypeOK'
      BY <1>1, <1>2, <2>1 DEF HandlerSend, HandlerTypeOK
    <3> QED BY <1>1, <2>1, <2>s, <3>3, <3>4 DEF HandlerSend, CallTypeOK
  <2>2. CASE HandlerCleanup /\ UNCHANGED serveVars
    <3>1. EmptyChan \in Chans /\ ClosedChan \in Chans
      BY DEF EmptyChan, ClosedChan, Chans
    <3>2. respChan' \in [Calls -> Chans]
      BY <1>1, <2>2, <3>1 DEF HandlerCleanup, CallTypeOK
    <3>3. HandlerTypeOK'
      BY <1>1, <2>2 DEF HandlerCleanup, HandlerTypeOK
    <3> QED BY <1>1, <2>2, <2>s, <3>2, <3>3 DEF HandlerCleanup
  <2>3. CASE HandleReady /\ Same
    BY <1>1, <2>0, <2>t, <2>3 DEF HandleReady, HandlerTypeOK
  <2>4. CASE HandleShutdownAck /\ Same
    BY <1>1, <2>0, <2>t, <2>4 DEF HandleShutdownAck, HandlerTypeOK
  <2>5. CASE HandleForceShutdownAck /\ Same
    BY <1>1, <2>0, <2>t, <2>5 DEF HandleForceShutdownAck, HandlerTypeOK
  <2>6. CASE HandleReply /\ Same
    <3>1. Head(toHost) \in ToHostMsgs /\ toHost' \in Seq(ToHostMsgs)
      BY <1>1, <2>6 DEF HandleReply, HandlerTakes
    <3>2. Head(toHost).seq \in Ids
      BY <3>1 DEF ToHostMsgs
    <3>3. pendingRequests[Head(toHost).seq] \in Calls
      BY <1>1, <2>6, <3>2 DEF HandleReply, CallTypeOK
    <3>4. HandlerTypeOK'
      BY <1>1, <2>6, <3>1, <3>3 DEF HandleReply, HandlerTypeOK
    <3> QED BY <2>0, <2>6, <3>1, <3>4
  <2>7. CASE HandleIgnored /\ Same
    BY <1>1, <2>0, <2>t, <2>7 DEF HandleIgnored, HandlerTypeOK, handlerVars
  <2>8. CASE HandlerLoadDone /\ Same
    BY <1>1, <2>0, <2>8 DEF HandlerLoadDone, HandlerTypeOK
  <2>9. CASE HandleRequest /\ UNCHANGED <<pendingRequests, respChan>>
    <3>1. HandlerTypeOK' /\ toHost' \in Seq(ToHostMsgs)
      BY <1>1, <2>t, <2>9 DEF HandleRequest, HandlerTypeOK, handlerVars
    <3>2. Head(toHost).seq \in Ids
      <4>1. Head(toHost) \in ToHostMsgs
        BY <1>1, <2>9 DEF HandleRequest, HandlerTakes
      <4> QED BY <4>1 DEF ToHostMsgs
    <3>3. ServeTypeOK'
      BY <1>1, <2>9, <3>2 DEF HandleRequest, ServeTypeOK
    <3> QED BY <1>1, <2>9, <3>1, <3>3 DEF CallTypeOK
  <2> QED BY <2>1, <2>2, <2>3, <2>4, <2>5, <2>6, <2>7, <2>8, <2>9 DEF HandlerStep
<1>4. CallTypeOK'
  BY <1>1, <1>3 DEF HandlerStep, CallTypeOK
<1>5. LifeTypeOK' /\ NoteTypeOK'
  BY DEF HandlerStep, TypeOK, LifeTypeOK, NoteTypeOK, lifeVars, noteVars
<1>6. ProcTypeOK' /\ PeerTypeOK' /\ WireTypeOK'
  BY <1>3 DEF HandlerStep, TypeOK, ProcTypeOK, PeerTypeOK, WireTypeOK, procVars, peerVars, peerState
<1> QED BY <1>3, <1>4, <1>5, <1>6 DEF TypeOK

\* The goroutine of a request of the plugin.
LEMMA ServeStepType ==
  ASSUME TypeOK, NEW r \in PeerRequests, ServeStep(r)
  PROVE  TypeOK'
<1>1. ServeTypeOK /\ ProcTypeOK /\ toPlugin \in Seq(ToPluginMsgs)
  BY DEF TypeOK, WireTypeOK
<1>2. Msg("message", serveSeq[r], r) \in ToPluginMsgs
  BY <1>1, MsgTypes DEF ServeTypeOK, Bodies, PeerBodies, ToPluginKinds
<1>3. ServeTypeOK' /\ toPlugin' \in Seq(ToPluginMsgs) /\ stdinCopy' \in {"running", "ended"}
  <2>1. CASE ServeHandled(r)
    BY <1>1, <2>1 DEF ServeHandled, ServeStep, ServeGoes, ServeTypeOK, ProcTypeOK
  <2>2. CASE ServeWrite(r)
    <3>1. ServeTypeOK'
      BY <1>1, <2>2 DEF ServeWrite, ServeStep, ServeGoes, ServeTypeOK
    <3>2. \/ Written(Msg("message", serveSeq[r], r)) \/ WriteFails
          \/ Aborted(Msg("message", serveSeq[r], r)) \/ WriteBlocks
      BY <2>2 DEF ServeWrite
    <3> QED BY <1>1, <1>2, <3>1, <3>2, WriteTypes
  <2> QED BY <2>1, <2>2 DEF ServeStep
<1>4. LifeTypeOK' /\ NoteTypeOK' /\ HandlerTypeOK'
  BY DEF ServeStep, TypeOK, LifeTypeOK, NoteTypeOK, HandlerTypeOK, lifeVars, noteVars,
         handlerVars
<1>5. CallTypeOK'
  BY DEF ServeStep, TypeOK, CallTypeOK, callVars
<1>6. ProcTypeOK' /\ PeerTypeOK'
  BY <1>1, <1>3 DEF ServeStep, TypeOK, ProcTypeOK, PeerTypeOK, peerVars, peerState
<1>7. WireTypeOK'
  BY <1>3 DEF ServeStep, TypeOK, WireTypeOK
<1> QED BY <1>3, <1>4, <1>5, <1>6, <1>7 DEF TypeOK

\* Closing the process leaves its variables, and the plugin's, in range.
LEMMA ProcessCloseType ==
  ASSUME ProcessClose
  PROVE  /\ proc' \in {"none", "alive", "dead"} /\ stdinOpen' \in BOOLEAN
         /\ stdinCopy' \in {"running", "ended"}
         /\ toPlugin' \in Seq(ToPluginMsgs)
         /\ peer' \in {"off", "starting", "serving", "leaving", "forced"}
         /\ jobs' \subseteq ToPluginMsgs
<1>1. toPlugin' \in Seq(ToPluginMsgs)
  BY DEF ProcessClose
<1> QED BY <1>1 DEF ProcessClose

\* Load, waitForReadySignal and RequestReady.
LEMMA LoadStepType ==
  ASSUME TypeOK, LoadStep
  PROVE  TypeOK'
<1>1. /\ LifeTypeOK /\ NoteTypeOK /\ HandlerTypeOK /\ ProcTypeOK /\ PeerTypeOK
      /\ toPlugin \in Seq(ToPluginMsgs)
  BY DEF TypeOK, WireTypeOK
<1>2. NextSequence \in Ids /\ Msg("request_ready", NextSequence, None) \in ToPluginMsgs
  BY <1>1, NextSequenceType, MsgTypes DEF NoteTypeOK, ToPluginKinds
<1>3. UNCHANGED <<closed, processExited, closePc, notePc, noteSeq, sending, readyReceived,
                  shutdownAck, forceShutdownAck, peerSeq, peerSent, toHost>>
  BY DEF LoadStep
<1> DEFINE Moved == /\ attached' \in BOOLEAN /\ loadDone' \in BOOLEAN
                    /\ loadPc' \in {"idle", "fork", "ready1", "request", "blocked",
                                    "ready2", "close", "cancel", "ok", "failed"}
                    /\ monitor' \in {"off", "wait", "check", "store", "cancel", "done"}
           Handled == /\ handler' = handler \/ handler' = "recv"
                      /\ readySignal' \in BOOLEAN
                      /\ sequence' \in Ids
           Piped == /\ ProcTypeOK' /\ toPlugin' \in Seq(ToPluginMsgs)
                    /\ peer' \in {"off", "starting", "serving", "leaving", "forced"}
                    /\ jobs' \subseteq ToPluginMsgs
<1>4. Moved /\ Handled /\ Piped
  <2>1. CASE LoadMoves
    <3>1. Moved
      BY <1>1, <2>1 DEF LoadMoves, LifeTypeOK
    <3>2. Handled
      BY <1>1, <2>1 DEF LoadMoves, NoteTypeOK, HandlerTypeOK
    <3>3. Piped
      BY <1>1, <2>1 DEF LoadMoves, ProcTypeOK, PeerTypeOK, procVars, peerState
    <3> QED BY <3>1, <3>2, <3>3
  <2>2. CASE LoadFork
    <3>1. Moved
      BY <1>1, <2>2 DEF LoadFork, LifeTypeOK
    <3>2. Handled
      BY <1>1, <2>2 DEF LoadFork, NoteTypeOK, HandlerTypeOK
    <3>3. Piped
      BY <1>1, <2>2 DEF LoadFork, ProcTypeOK, PeerTypeOK
    <3> QED BY <3>1, <3>2, <3>3
  <2>3. CASE LoadReady
    <3>1. Moved
      BY <1>1, <2>3 DEF LoadReady, LifeTypeOK
    <3>2. Handled
      BY <1>1, <2>3 DEF LoadReady, NoteTypeOK, HandlerTypeOK
    <3>3. Piped
      BY <1>1, <2>3 DEF LoadReady, ProcTypeOK, PeerTypeOK, procVars, peerState
    <3> QED BY <3>1, <3>2, <3>3
  <2>4. CASE RequestReady
    <3>1. Moved
      BY <1>1, <2>4 DEF RequestReady, LifeTypeOK
    <3>2. Handled
      BY <1>1, <1>2, <2>4 DEF RequestReady, NoteTypeOK, HandlerTypeOK
    <3>3. \/ Written(Msg("request_ready", NextSequence, None)) \/ WriteFails
          \/ Aborted(Msg("request_ready", NextSequence, None)) \/ WriteBlocks
          \/ UNCHANGED <<toPlugin, stdinCopy>>
      BY <2>4 DEF RequestReady
    <3>4. toPlugin' \in Seq(ToPluginMsgs) /\ stdinCopy' \in {"running", "ended"}
      BY <1>1, <1>2, <3>3, WriteTypes DEF ProcTypeOK
    <3>5. Piped
      BY <1>1, <2>4, <3>4 DEF RequestReady, ProcTypeOK, PeerTypeOK, peerState
    <3> QED BY <3>1, <3>2, <3>5
  <2>5. CASE LoadCleanup
    <3>1. Moved
      BY <1>1, <2>5 DEF LoadCleanup, LifeTypeOK
    <3>2. Handled
      BY <1>1, <2>5 DEF LoadCleanup, NoteTypeOK, HandlerTypeOK
    <3>3. ProcessClose \/ UNCHANGED <<procVars, toPlugin, peerState>>
      BY <2>5 DEF LoadCleanup
    <3>4. Piped
      BY <1>1, <3>3, ProcessCloseType DEF ProcTypeOK, PeerTypeOK, procVars, peerState
    <3> QED BY <3>1, <3>2, <3>4
  <2> QED BY <2>1, <2>2, <2>3, <2>4, <2>5 DEF LoadStep
<1>5. LifeTypeOK'
  BY <1>1, <1>3, <1>4 DEF LifeTypeOK
<1>6. NoteTypeOK'
  BY <1>1, <1>3, <1>4 DEF NoteTypeOK
<1>7. HandlerTypeOK'
  BY <1>1, <1>3, <1>4 DEF HandlerTypeOK
<1>8. PeerTypeOK' /\ ProcTypeOK'
  BY <1>1, <1>3, <1>4 DEF PeerTypeOK
<1>9. WireTypeOK'
  BY <1>3, <1>4 DEF TypeOK, WireTypeOK
<1>10. CallTypeOK' /\ ServeTypeOK'
  BY DEF LoadStep, TypeOK, CallTypeOK, ServeTypeOK, callVars, serveVars
<1> QED BY <1>4, <1>5, <1>6, <1>7, <1>8, <1>9, <1>10 DEF TypeOK

\* The context given to Load ends.
LEMMA LoadCtxType ==
  ASSUME TypeOK, LoadCtxExpires
  PROVE  TypeOK'
<1>1. LifeTypeOK' /\ NoteTypeOK' /\ HandlerTypeOK'
  BY DEF LoadCtxExpires, TypeOK, LifeTypeOK, NoteTypeOK, HandlerTypeOK, noteVars, handlerVars
<1>2. CallTypeOK' /\ ServeTypeOK'
  BY DEF LoadCtxExpires, TypeOK, CallTypeOK, ServeTypeOK, callVars, serveVars
<1>3. ProcTypeOK' /\ PeerTypeOK' /\ WireTypeOK'
  BY DEF LoadCtxExpires, TypeOK, ProcTypeOK, PeerTypeOK, WireTypeOK, procVars, peerVars, peerState
<1> QED BY <1>1, <1>2, <1>3 DEF TypeOK

\* Close and ForceClose.
LEMMA CloseStepType ==
  ASSUME TypeOK, NEW k \in Closers, CloseStart(k) \/ CloseStep(k)
  PROVE  TypeOK'
<1>1. /\ LifeTypeOK /\ NoteTypeOK /\ HandlerTypeOK /\ ProcTypeOK /\ PeerTypeOK
      /\ toPlugin \in Seq(ToPluginMsgs)
  BY DEF TypeOK, WireTypeOK
<1>2. CloseFrame
  BY DEF CloseStart, CloseStep
<1>3. /\ NextSequence \in Ids
      /\ Msg("shutdown", NextSequence, None) \in ToPluginMsgs
      /\ Msg("force_shutdown", NextSequence, None) \in ToPluginMsgs
  BY <1>1, NextSequenceType, MsgTypes DEF NoteTypeOK, ToPluginKinds
<1> DEFINE Moved == /\ closed' \in BOOLEAN /\ loadDone' \in BOOLEAN
                    /\ closePc' \in [Closers -> {"idle", "refused", "write", "blocked",
                                     "ack", "cancel", "process", "join", "joined", "timedOut"}]
           Signalled == /\ sequence' \in Ids
                        /\ shutdownAck' \in BOOLEAN /\ forceShutdownAck' \in BOOLEAN
           Piped == /\ ProcTypeOK' /\ toPlugin' \in Seq(ToPluginMsgs)
                    /\ peer' \in {"off", "starting", "serving", "leaving", "forced"}
                    /\ jobs' \subseteq ToPluginMsgs
<1> USE DEF CloseGoes
<1>4. Moved /\ Signalled /\ Piped
  <2>1. CASE CloseBegin(k)
    <3>1. Moved /\ Signalled
      BY <1>1, <2>1 DEF CloseBegin, LifeTypeOK, NoteTypeOK, HandlerTypeOK
    <3>2. Piped
      BY <1>1, <2>1 DEF CloseBegin, ProcTypeOK, PeerTypeOK, procVars, peerState
    <3> QED BY <3>1, <3>2
  <2>2. CASE CloseWrite(k)
    <3>1. Moved
      BY <1>1, <2>2 DEF CloseWrite, LifeTypeOK
    <3>2. Signalled
      BY <1>1, <1>3, <2>2 DEF CloseWrite, NoteTypeOK, HandlerTypeOK
    <3>3. PICK m \in ToPluginMsgs : \/ Written(m) \/ WriteFails \/ Aborted(m) \/ WriteBlocks
                                    \/ UNCHANGED <<toPlugin, stdinCopy>>
      BY <1>3, <2>2 DEF CloseWrite
    <3>4. toPlugin' \in Seq(ToPluginMsgs) /\ stdinCopy' \in {"running", "ended"}
      BY <1>1, <3>3, WriteTypes DEF ProcTypeOK
    <3>5. Piped
      BY <1>1, <2>2, <3>4 DEF CloseWrite, ProcTypeOK, PeerTypeOK, peerState
    <3> QED BY <3>1, <3>2, <3>5
  <2>3. CASE CloseAcked(k)
    <3>1. Moved /\ Signalled
      BY <1>1, <2>3 DEF CloseAcked, LifeTypeOK, NoteTypeOK, HandlerTypeOK
    <3>2. Piped
      BY <1>1, <2>3 DEF CloseAcked, ProcTypeOK, PeerTypeOK, procVars, peerState
    <3> QED BY <3>1, <3>2
  <2>4. CASE CloseCancel(k)
    <3>1. Moved /\ Signalled
      BY <1>1, <2>4 DEF CloseCancel, LifeTypeOK, NoteTypeOK, HandlerTypeOK
    <3>2. Piped
      BY <1>1, <2>4 DEF CloseCancel, ProcTypeOK, PeerTypeOK, procVars, peerState
    <3> QED BY <3>1, <3>2
  <2>5. CASE CloseProcess(k)
    <3>1. Moved /\ Signalled
      BY <1>1, <2>5 DEF CloseProcess, LifeTypeOK, NoteTypeOK, HandlerTypeOK
    <3>2. ProcessClose \/ UNCHANGED <<procVars, toPlugin, peerState>>
      BY <2>5 DEF CloseProcess
    <3>3. Piped
      BY <1>1, <3>2, ProcessCloseType DEF ProcTypeOK, PeerTypeOK, procVars, peerState
    <3> QED BY <3>1, <3>3
  <2>6. CASE CloseJoin(k)
    <3>1. Moved /\ Signalled
      BY <1>1, <2>6 DEF CloseJoin, LifeTypeOK, NoteTypeOK, HandlerTypeOK
    <3>2. Piped
      BY <1>1, <2>6 DEF CloseJoin, ProcTypeOK, PeerTypeOK, procVars, peerState
    <3> QED BY <3>1, <3>2
  <2> QED BY <2>1, <2>2, <2>3, <2>4, <2>5, <2>6 DEF CloseStart, CloseStep
<1>5. LifeTypeOK' /\ NoteTypeOK'
  BY <1>1, <1>2, <1>4 DEF CloseFrame, LifeTypeOK, NoteTypeOK
<1>6. HandlerTypeOK' /\ ProcTypeOK'
  BY <1>1, <1>2, <1>4 DEF CloseFrame, HandlerTypeOK
<1>7. PeerTypeOK'
  BY <1>1, <1>2, <1>4 DEF CloseFrame, PeerTypeOK
<1>8. WireTypeOK'
  BY <1>2, <1>4 DEF CloseFrame, TypeOK, WireTypeOK
<1>9. CallTypeOK' /\ ServeTypeOK'
  BY <1>2 DEF CloseFrame, TypeOK, CallTypeOK, ServeTypeOK, callVars, serveVars
<1> QED BY <1>5, <1>6, <1>7, <1>8, <1>9 DEF TypeOK

\* monitorProcess.
LEMMA MonitorStepType ==
  ASSUME TypeOK, MonitorStep
  PROVE  TypeOK'
<1>1. LifeTypeOK'
  BY DEF MonitorStep, MonitorProcess, MonitorGoes, TypeOK, LifeTypeOK
<1>2. NoteTypeOK' /\ HandlerTypeOK'
  BY DEF MonitorStep, TypeOK, NoteTypeOK, HandlerTypeOK, noteVars, handlerVars
<1>3. CallTypeOK' /\ ServeTypeOK'
  BY DEF MonitorStep, TypeOK, CallTypeOK, ServeTypeOK, callVars, serveVars
<1>4. ProcTypeOK' /\ PeerTypeOK' /\ WireTypeOK'
  BY DEF MonitorStep, TypeOK, ProcTypeOK, PeerTypeOK, WireTypeOK, procVars, peerVars, peerState
<1> QED BY <1>1, <1>2, <1>3, <1>4 DEF TypeOK

\* A step of the plugin leaves the Loader's own variables of their type.
LEMMA PeerFrameType ==
  ASSUME TypeOK, PeerFrame, PeerTypeOK', WireTypeOK'
  PROVE  TypeOK'
<1>1. LifeTypeOK' /\ NoteTypeOK' /\ HandlerTypeOK' /\ ProcTypeOK'
  BY DEF PeerFrame, TypeOK, LifeTypeOK, NoteTypeOK, HandlerTypeOK, ProcTypeOK,
         lifeVars, noteVars, handlerVars, procVars
<1>2. CallTypeOK' /\ ServeTypeOK'
  BY DEF PeerFrame, TypeOK, CallTypeOK, ServeTypeOK, callVars, serveVars
<1> QED BY <1>1, <1>2 DEF TypeOK

\* A message of the plugin joins the stream.
LEMMA PeerSendsType ==
  ASSUME WireTypeOK, NEW ms \in Seq(ToHostMsgs), PeerSends(ms)
  PROVE  toHost' \in Seq(ToHostMsgs)
  BY DEF PeerSends, WireTypeOK

\* A reply of the plugin, whole, cut short or not sent, is of the type.
LEMMA PeerRepliesType ==
  ASSUME WireTypeOK, NEW m \in ToPluginMsgs, NEW kind \in ToHostKinds, NEW cancellable,
         PeerReplies(kind, m, cancellable)
  PROVE  toHost' \in Seq(ToHostMsgs)
<1>1. Msg(kind, m.seq, m.body) \in ToHostMsgs /\ Msg("garbled", m.seq, m.body) \in ToHostMsgs
  BY MsgTypes DEF ToPluginMsgs, ToHostKinds
<1>2. /\ <<Msg(kind, m.seq, m.body)>> \in Seq(ToHostMsgs)
      /\ <<Msg("garbled", m.seq, m.body)>> \in Seq(ToHostMsgs)
  BY <1>1
<1> QED BY <1>2, PeerSendsType DEF PeerReplies, WireTypeOK

\* Module.Listen.
LEMMA PeerListensType ==
  ASSUME TypeOK, PeerListens
  PROVE  TypeOK'
<1>1. PeerTypeOK /\ WireTypeOK /\ NextPeerSeq \in Ids
  BY NextPeerSeqType DEF TypeOK, PeerTypeOK
<1>2. \A kinds : PeerTakes(kinds) => /\ Head(toPlugin) \in ToPluginMsgs
                                     /\ toPlugin' \in Seq(ToPluginMsgs)
  BY <1>1 DEF PeerTakes, WireTypeOK
<1>3. \A kind \in {"ready", "garbled"} :
        <<Msg(kind, NextPeerSeq, None)>> \in Seq(ToHostMsgs)
  BY <1>1, MsgTypes DEF ToHostKinds
<1>4. PeerTypeOK' /\ WireTypeOK'
  <2>1. CASE PeerReady
    <3>1. toHost' \in Seq(ToHostMsgs)
      BY <1>1, <1>3, <2>1, PeerSendsType DEF PeerReady, WireTypeOK
    <3>2. peer' \in {"serving", "leaving", "forced"}
      BY <2>1 DEF PeerReady
    <3> QED BY <1>1, <2>1, <3>1, <3>2 DEF PeerReady, PeerTypeOK, WireTypeOK
  <2>2. CASE PeerAccepts
    <3>1. PeerTypeOK'
      BY <1>1, <1>2, <2>2 DEF PeerAccepts, PeerTypeOK
    <3> QED BY <1>1, <1>2, <2>2, <3>1 DEF PeerAccepts, WireTypeOK
  <2>3. CASE PeerRefuses
    <3>1. toHost' \in Seq(ToHostMsgs)
      BY <1>1, <1>2, <2>3, PeerRepliesType DEF PeerRefuses, ToHostKinds
    <3> QED BY <1>1, <1>2, <2>3, <3>1 DEF PeerRefuses, PeerTypeOK, WireTypeOK
  <2>4. CASE PeerDrops
    BY <1>1, <1>2, <2>4 DEF PeerDrops, PeerTypeOK, WireTypeOK
  <2>5. CASE PeerShutdown
    <3>1. toHost' \in Seq(ToHostMsgs)
      BY <1>1, <1>2, <2>5, PeerRepliesType DEF PeerShutdown, ToHostKinds
    <3> QED BY <1>1, <1>2, <2>5, <3>1 DEF PeerShutdown, PeerTypeOK, WireTypeOK
  <2>6. CASE PeerForced
    BY <1>1, <2>6 DEF PeerForced, PeerTypeOK, WireTypeOK
  <2>7. CASE PeerForceShutdown
    <3>1. toHost' \in Seq(ToHostMsgs)
      BY <1>1, <1>2, <2>7, PeerRepliesType DEF PeerForceShutdown, ToHostKinds
    <3> QED BY <1>1, <1>2, <2>7, <3>1 DEF PeerForceShutdown, PeerTypeOK, WireTypeOK
  <2>8. CASE PeerRequestReady
    <3>1. toHost' \in Seq(ToHostMsgs)
      BY <1>1, <1>3, <2>8, PeerSendsType DEF PeerRequestReady, WireTypeOK
    <3>2. jobs' \subseteq ToPluginMsgs
      BY <1>1, <1>2, <2>8 DEF PeerRequestReady, PeerTypeOK
    <3> QED BY <1>1, <1>2, <2>8, <3>1, <3>2 DEF PeerRequestReady, PeerTypeOK, WireTypeOK
  <2>9. ASSUME NEW m \in jobs, PeerRequestReadyAck(m)
        PROVE  PeerTypeOK' /\ WireTypeOK'
    <3>1. toHost' \in Seq(ToHostMsgs)
      BY <1>1, <2>9, PeerRepliesType DEF PeerRequestReadyAck, PeerTypeOK, ToHostKinds
    <3> QED BY <1>1, <2>9, <3>1 DEF PeerRequestReadyAck, PeerTypeOK, WireTypeOK
  <2> QED BY <2>1, <2>2, <2>3, <2>4, <2>5, <2>6, <2>7, <2>8, <2>9
          DEF PeerListens, PeerListening
<1> QED BY <1>4, PeerFrameType DEF PeerListens

\* processMessage, and what the plugin's own code does.
LEMMA PeerWorksType ==
  ASSUME TypeOK, PeerWorks
  PROVE  TypeOK'
<1>1. PeerTypeOK /\ WireTypeOK /\ NextPeerSeq \in Ids
  BY NextPeerSeqType DEF TypeOK, PeerTypeOK
<1>2. PeerTypeOK' /\ WireTypeOK'
  <2>1. ASSUME NEW m \in jobs, PeerFinishes(m)
        PROVE  PeerTypeOK' /\ WireTypeOK'
    <3>1. toHost' \in Seq(ToHostMsgs)
      BY <1>1, <2>1, PeerRepliesType DEF PeerFinishes, PeerTypeOK, ToHostKinds
    <3> QED BY <1>1, <2>1, <3>1 DEF PeerFinishes, PeerTypeOK, WireTypeOK
  <2>2. ASSUME NEW n \in PeerNotes \cup PeerErrors, PeerNote(n)
        PROVE  PeerTypeOK' /\ WireTypeOK'
    <3>1. <<Msg(IF n \in PeerErrors THEN "error" ELSE "notify", NextPeerSeq, n)>>
            \in Seq(ToHostMsgs)
      BY <1>1, MsgTypes DEF ToHostKinds, Bodies, PeerBodies
    <3>2. toHost' \in Seq(ToHostMsgs)
      BY <1>1, <2>2, <3>1, PeerSendsType DEF PeerNote
    <3> QED BY <1>1, <2>2, <3>2 DEF PeerNote, PeerTypeOK, WireTypeOK, PeerBodies
  <2>3. ASSUME NEW r \in PeerRequests, PeerRequest(r)
        PROVE  PeerTypeOK' /\ WireTypeOK'
    <3>1. \A number \in ClockNumbers :
            <<Msg("plugin_request", number, r)>> \in Seq(ToHostMsgs)
      BY ClockAssumption, MsgTypes DEF ToHostKinds, Bodies, PeerBodies
    <3>2. toHost' \in Seq(ToHostMsgs)
      BY <1>1, <2>3, <3>1, PeerSendsType DEF PeerRequest
    <3> QED BY <1>1, <2>3, <3>2 DEF PeerRequest, PeerTypeOK, WireTypeOK, PeerBodies
  <2>4. CASE PeerQuits
    BY <1>1, <2>4 DEF PeerQuits, PeerTypeOK, WireTypeOK
  <2> QED BY <2>1, <2>2, <2>3, <2>4 DEF PeerWorks, PeerWorking
<1> QED BY <1>2, PeerFrameType DEF PeerWorks

\* The end of the plugin process.
LEMMA PeerDiesType ==
  ASSUME TypeOK, PeerDies
  PROVE  TypeOK'
<1>1. LifeTypeOK' /\ NoteTypeOK' /\ HandlerTypeOK'
  BY DEF PeerDies, TypeOK, LifeTypeOK, NoteTypeOK, HandlerTypeOK, lifeVars, noteVars, handlerVars
<1>2. CallTypeOK' /\ ServeTypeOK'
  BY DEF PeerDies, TypeOK, CallTypeOK, ServeTypeOK, callVars, serveVars
<1>3. ProcTypeOK' /\ PeerTypeOK'
  BY DEF PeerDies, TypeOK, ProcTypeOK, PeerTypeOK
<1>4. WireTypeOK'
  BY DEF PeerDies, TypeOK, WireTypeOK
<1> QED BY <1>1, <1>2, <1>3, <1>4 DEF TypeOK

\* Doing nothing.
LEMMA StutterType == TypeOK /\ UNCHANGED vars => TypeOK'
<1> SUFFICES ASSUME TypeOK, UNCHANGED vars PROVE TypeOK'
  OBVIOUS
<1>1. LifeTypeOK' /\ NoteTypeOK' /\ HandlerTypeOK'
  BY DEF vars, TypeOK, LifeTypeOK, NoteTypeOK, HandlerTypeOK, lifeVars, noteVars, handlerVars
<1>2. CallTypeOK' /\ ServeTypeOK'
  BY DEF vars, TypeOK, CallTypeOK, ServeTypeOK, callVars, serveVars
<1>3. ProcTypeOK' /\ PeerTypeOK' /\ WireTypeOK'
  BY DEF vars, TypeOK, ProcTypeOK, PeerTypeOK, WireTypeOK, procVars, peerVars, peerState, wireVars
<1> QED BY <1>1, <1>2, <1>3 DEF TypeOK

\* Every step of the host, the plugin and the process keeps every variable in
\* its type: the typing of types.go's Loader, at every number of calls.
LEMMA NextType == TypeOK /\ [Next]_vars => TypeOK'
<1> SUFFICES ASSUME TypeOK, [Next]_vars PROVE TypeOK'
  OBVIOUS
<1>1. CASE \E c \in Calls : CallStart(c) \/ CallStep(c) \/ CallExpires(c)
  BY <1>1, CallStartType, CallStepType, CallExpiresType
<1>2. CASE \E n \in HostNotes : NoteStep(n)
  BY <1>2, NoteStepType
<1>3. CASE HandlerStep \/ LoadStep \/ LoadCtxExpires \/ MonitorStep
  BY <1>3, HandlerStepType, LoadStepType, LoadCtxType, MonitorStepType
<1>4. CASE \E k \in Closers : CloseStart(k) \/ CloseStep(k)
  BY <1>4, CloseStepType
<1>5. CASE PeerListens \/ PeerWorks \/ PeerDies
  BY <1>5, PeerListensType, PeerWorksType, PeerDiesType
<1>7. CASE \E r \in PeerRequests : ServeStep(r)
  BY <1>7, ServeStepType
<1>6. CASE UNCHANGED vars
  BY <1>6, StutterType
<1> QED BY <1>1, <1>2, <1>3, <1>4, <1>5, <1>6, <1>7 DEF Next

\* The loader's variables, the messages and the plugin as the host sees it stay
\* of their types, whatever the constants.
THEOREM TypeCorrect == Spec => []TypeOK
<1>1. Init => TypeOK
  BY InitType
<1>2. TypeOK /\ [Next]_vars => TypeOK'
  BY NextType
<1> QED BY <1>1, <1>2, PTL DEF Spec

-----------------------------------------------------------------------------
(* Shutting down: no call is left registered, and no process.               *)

\* NewLoader is neither closed nor done.
LEMMA InitSealed == Init => Sealed
  BY DEF Init, Sealed, NoLateRegistration

\* Only Register adds to pendingRequests.
LEMMA EmptyStaysEmpty ==
  ASSUME TypeOK, [Next]_vars, closed, \A i \in Ids : pendingRequests[i] = None
  PROVE  \A i \in Ids : pendingRequests'[i] = None
<1>1. pendingRequests \in [Ids -> Calls \cup {None}] /\ id \in [Calls -> Ids]
  BY DEF TypeOK, CallTypeOK
<1>2. CASE \E c \in Calls : CallStart(c) \/ CallExpires(c)
  BY <1>2 DEF CallStart, CallBegin, CallExpires, CallGivesUp
<1>3. ASSUME NEW c \in Calls, CallStep(c)
      PROVE  \A i \in Ids : pendingRequests'[i] = None
  <2>1. CASE Register(c)
    BY <2>1 DEF Register
  <2>2. CASE CallDeferred(c)
    BY <1>1, <2>2 DEF CallDeferred
  <2>3. CASE GenerateAdd(c) \/ GenerateCheck(c) \/ GenerateFallback(c) \/ CallWrite(c) \/ CallReceive(c)
    BY <2>3 DEF GenerateAdd, GenerateCheck, GenerateFallback, CallWrite, CallReceive
  <2> QED BY <1>3, <2>1, <2>2, <2>3 DEF CallStep
<1>4. CASE HandlerStep
  BY <1>4 DEF HandlerStep, HandlerSend, HandlerCleanup
<1>5. CASE \/ \E n \in HostNotes : NoteStep(n)
           \/ \E r \in PeerRequests : ServeStep(r)
           \/ \E k \in Closers : CloseStart(k) \/ CloseStep(k)
  BY <1>5 DEF NoteStep, ServeStep, CloseStart, CloseStep, CloseFrame, callVars
<1>6. CASE LoadStep \/ LoadCtxExpires \/ MonitorStep \/ UNCHANGED vars
  BY <1>6 DEF LoadStep, LoadCtxExpires, MonitorStep, vars, callVars
<1>7. CASE PeerListens \/ PeerWorks \/ PeerDies
  BY <1>7 DEF PeerListens, PeerWorks, PeerDies, PeerFrame, callVars
<1> QED BY <1>2, <1>3, <1>4, <1>5, <1>6, <1>7 DEF Next

\* The flags Sealed is about, in every step that is not the Loader's own.
LEMMA SealedElsewhere ==
  ASSUME TypeOK, Sealed, [Next]_vars,
         UNCHANGED <<lifeVars, handler>> \/ (UNCHANGED lifeVars /\ HandlerStep)
  PROVE  Sealed'
<1>1. handler' \in {"exit", "done"} => loadDone
  BY DEF Sealed, HandlerStep, HandlerSend, HandlerCleanup, HandleReady, HandleShutdownAck,
         HandleForceShutdownAck, HandleReply, HandleRequest, HandleIgnored, HandlerLoadDone,
         handlerVars
<1>2. (handler' = "done" /\ handler # "done") => \A i \in Ids : pendingRequests'[i] = None
  BY DEF HandlerStep, HandlerSend, HandlerCleanup, HandleReady, HandleShutdownAck,
         HandleForceShutdownAck, HandleReply, HandleRequest, HandleIgnored, HandlerLoadDone,
         handlerVars
<1>3. NoLateRegistration'
  <2> SUFFICES ASSUME handler' = "done", handler = "done", ~MayExpire,
                      loadPc \notin {"cancel", "failed"}
               PROVE  \A i \in Ids : pendingRequests'[i] = None
    BY <1>2 DEF NoLateRegistration, lifeVars
  <2>1. closed /\ \A i \in Ids : pendingRequests[i] = None
    BY DEF Sealed, NoLateRegistration
  <2> QED BY <2>1, EmptyStaysEmpty
<1> QED BY <1>1, <1>3 DEF Sealed, lifeVars

\* Load cancels loadCtx only when it fails.
LEMMA SealedLoad ==
  ASSUME TypeOK, Sealed, LoadStep
  PROVE  Sealed'
<1>1. UNCHANGED <<closed, closePc, pendingRequests>>
  BY DEF LoadStep, callVars
<1>2. handler' = handler \/ handler' = "recv"
  BY DEF LoadStep, LoadMoves, LoadFork, LoadReady, RequestReady, LoadCleanup
<1>3. monitor' = monitor \/ monitor' = "wait"
  BY DEF LoadStep, LoadMoves, LoadFork, LoadReady, RequestReady, LoadCleanup
<1>4. loadPc \in {"cancel", "failed"} => loadPc' = "failed"
  BY DEF LoadStep, LoadMoves, LoadFork, LoadReady, RequestReady, LoadCleanup
<1>5. loadDone' = loadDone \/ (loadDone' = TRUE /\ loadPc' = "failed")
  BY DEF LoadStep, LoadMoves, LoadFork, LoadReady, RequestReady, LoadCleanup
<1> QED BY <1>1, <1>2, <1>3, <1>4, <1>5 DEF Sealed, NoLateRegistration

\* Close and ForceClose set closed before they cancel loadCtx.
LEMMA SealedClose ==
  ASSUME TypeOK, Sealed, NEW k \in Closers, CloseStart(k) \/ CloseStep(k)
  PROVE  Sealed'
<1>1. UNCHANGED <<handler, monitor, loadPc, pendingRequests>>
  BY DEF CloseStart, CloseStep, CloseFrame, callVars
<1>2. closed' = TRUE
  BY DEF CloseStart, CloseStep, CloseBegin, CloseWrite, CloseAcked, CloseCancel, CloseProcess,
         CloseJoin, Sealed
<1>3. loadDone' = loadDone \/ loadDone' = TRUE
  BY DEF CloseStart, CloseStep, CloseBegin, CloseWrite, CloseAcked, CloseCancel, CloseProcess,
         CloseJoin, TypeOK, LifeTypeOK
<1> QED BY <1>1, <1>2, <1>3 DEF Sealed, NoLateRegistration

\* monitorProcess sets closed before it cancels loadCtx.
LEMMA SealedMonitor ==
  ASSUME TypeOK, Sealed, MonitorStep \/ LoadCtxExpires
  PROVE  Sealed'
<1>1. UNCHANGED <<handler, loadPc, closePc, pendingRequests>>
  BY DEF MonitorStep, LoadCtxExpires, callVars, handlerVars
<1>2. CASE MonitorStep
  BY <1>1, <1>2 DEF MonitorStep, MonitorProcess, MonitorGoes, Sealed, NoLateRegistration,
                    TypeOK, LifeTypeOK
<1>3. CASE LoadCtxExpires
  BY <1>1, <1>3 DEF LoadCtxExpires, Sealed, NoLateRegistration
<1> QED BY <1>2, <1>3

\* Every step keeps the order in which a Loader is sealed.
LEMMA NextSealed ==
  ASSUME TypeOK, Sealed, [Next]_vars
  PROVE  Sealed'
<1>1. CASE \E c \in Calls : CallStart(c) \/ CallStep(c) \/ CallExpires(c)
  BY <1>1, SealedElsewhere DEF CallStart, CallStep, CallExpires, CallFrame, handlerVars
<1>2. CASE \/ \E n \in HostNotes : NoteStep(n)
           \/ \E r \in PeerRequests : ServeStep(r)
           \/ HandlerStep
  BY <1>2, SealedElsewhere DEF NoteStep, ServeStep, HandlerStep, handlerVars
<1>3. CASE LoadStep
  BY <1>3, SealedLoad
<1>4. CASE \E k \in Closers : CloseStart(k) \/ CloseStep(k)
  BY <1>4, SealedClose
<1>5. CASE MonitorStep \/ LoadCtxExpires
  BY <1>5, SealedMonitor
<1>6. CASE PeerListens \/ PeerWorks \/ PeerDies \/ UNCHANGED vars
  BY <1>6, SealedElsewhere DEF PeerListens, PeerWorks, PeerDies, PeerFrame, handlerVars, vars
<1> QED BY <1>1, <1>2, <1>3, <1>4, <1>5, <1>6 DEF Next

\* Sealed in every reachable state: whoever shuts a Loader down, Close, ForceClose or
\* monitorProcess, sets closed before loadCtx is cancelled, and handleMessages ends
\* after that, except by a failing Load or a deadline.
THEOREM SealedHolds == Spec => []Sealed
<1>1. Init => Sealed
  BY InitSealed
<1>2. TypeOK /\ Sealed /\ [Next]_vars => Sealed'
  BY NextSealed
<1> QED BY <1>1, <1>2, TypeCorrect, PTL DEF Spec

\* Nobody is registered after handleMessages has emptied pendingRequests: the
\* look at closed under requestMutex is enough.
THEOREM NothingRegisteredLate == Spec => []NoLateRegistration
<1>1. Sealed => NoLateRegistration
  BY DEF Sealed
<1> QED BY <1>1, SealedHolds, PTL

-----------------------------------------------------------------------------
(* The process.                                                            *)

\* Before Load there is no process.
LEMMA InitGone == Init => Gone
  BY DEF Init, Gone, LoadFailedMeansGone

\* Load forks once, and ends what it forked before it fails.
LEMMA GoneLoad ==
  ASSUME Gone, LoadStep
  PROVE  Gone'
<1> USE DEF Gone, LoadFailedMeansGone
<1>1. UNCHANGED closePc
  BY DEF LoadStep
<1>2. CASE LoadMoves
  BY <1>1, <1>2 DEF LoadMoves, procVars
<1>3. CASE LoadFork
  BY <1>1, <1>3 DEF LoadFork
<1>4. CASE LoadReady
  BY <1>1, <1>4 DEF LoadReady, procVars
<1>5. CASE RequestReady
  BY <1>1, <1>5 DEF RequestReady
<1>6. CASE LoadCleanup
  BY <1>1, <1>6 DEF LoadCleanup, ProcessClose, procVars
<1> QED BY <1>2, <1>3, <1>4, <1>5, <1>6 DEF LoadStep

\* Close and ForceClose kill the process before they wait for the goroutines.
LEMMA GoneClose ==
  ASSUME TypeOK, Gone, NEW k \in Closers, CloseStart(k) \/ CloseStep(k)
  PROVE  Gone'
<1>1. UNCHANGED <<attached, loadPc>> /\ closePc = [x \in Closers |-> closePc[x]]
  BY DEF CloseStart, CloseStep, CloseFrame, TypeOK, LifeTypeOK
<1>2. proc' = proc \/ (proc' = "dead" /\ attached)
  <2>1. CASE CloseProcess(k)
    BY <2>1 DEF CloseProcess, ProcessClose, procVars
  <2>2. CASE CloseBegin(k) \/ CloseWrite(k) \/ CloseAcked(k) \/ CloseCancel(k) \/ CloseJoin(k)
    BY <2>2 DEF CloseBegin, CloseWrite, CloseAcked, CloseCancel, CloseJoin, procVars
  <2> QED BY <2>1, <2>2 DEF CloseStart, CloseStep
<1>3. PICK to : /\ closePc' = [closePc EXCEPT ![k] = to]
                /\ ~EarlyClose => loadPc \notin {"idle", "fork"}
                /\ ~EarlyClose /\ to \in {"join", "joined", "timedOut"} => proc' # "alive"
  <2>1. CASE CloseStart(k)
    <3>1. CloseGoes(k, "refused") \/ CloseGoes(k, "write")
      BY <2>1 DEF CloseStart, CloseBegin
    <3>2. ~EarlyClose => loadPc \notin {"idle", "fork"}
      BY <2>1 DEF CloseStart, CloseBegin
    <3> QED BY <3>1, <3>2 DEF CloseGoes
  <2>2. CASE CloseStep(k)
    <3>1. closePc[k] # "idle" /\ (~EarlyClose => loadPc \notin {"idle", "fork"})
      BY <2>2 DEF CloseStep, CloseWrite, CloseAcked, CloseCancel, CloseProcess, CloseJoin, Gone
    <3>2. CASE CloseWrite(k) \/ CloseAcked(k) \/ CloseCancel(k)
      BY <3>1, <3>2 DEF CloseWrite, CloseAcked, CloseCancel, CloseGoes
    <3>3. CASE CloseProcess(k)
      BY <3>1, <3>3 DEF CloseProcess, CloseGoes, ProcessClose, procVars, Gone
    <3>4. CASE CloseJoin(k)
      BY <3>1, <3>4 DEF CloseJoin, CloseGoes, procVars, Gone
    <3> QED BY <2>2, <3>2, <3>3, <3>4 DEF CloseStep
  <2> QED BY <2>1, <2>2
<1> QED BY <1>1, <1>2, <1>3 DEF Gone, LoadFailedMeansGone

\* Nothing else starts a process or moves Load, Close or ForceClose.
LEMMA GoneElsewhere ==
  ASSUME Gone, UNCHANGED <<attached, loadPc, closePc>>,
         proc' = proc \/ (proc = "alive" /\ proc' = "dead")
  PROVE  Gone'
  BY DEF Gone, LoadFailedMeansGone

\* Every step.
LEMMA NextGone ==
  ASSUME TypeOK, Gone, [Next]_vars
  PROVE  Gone'
<1>1. CASE \E c \in Calls : CallStart(c) \/ CallStep(c) \/ CallExpires(c)
  BY GoneElsewhere, <1>1 DEF CallStart, CallStep, CallExpires, CallFrame, lifeVars
<1>2. CASE \/ \E n \in HostNotes : NoteStep(n)
           \/ \E r \in PeerRequests : ServeStep(r)
           \/ HandlerStep
  BY GoneElsewhere, <1>2 DEF NoteStep, ServeStep, HandlerStep, lifeVars, procVars
<1>3. CASE LoadStep
  BY <1>3, GoneLoad
<1>4. CASE \E k \in Closers : CloseStart(k) \/ CloseStep(k)
  BY <1>4, GoneClose
<1>5. CASE MonitorStep \/ LoadCtxExpires \/ UNCHANGED vars
  BY GoneElsewhere, <1>5 DEF MonitorStep, LoadCtxExpires, procVars, vars, lifeVars
<1>6. CASE PeerListens \/ PeerWorks \/ PeerDies
  BY GoneElsewhere, <1>6 DEF PeerListens, PeerWorks, PeerDies, PeerFrame, lifeVars, procVars
<1> QED BY <1>1, <1>2, <1>3, <1>4, <1>5, <1>6 DEF Next

\* The process is started once, by Load, and a Close, a ForceClose or a failing Load
\* that is past Process.Close has ended it.
THEOREM GoneHolds == Spec => []Gone
<1>1. Init => Gone
  BY InitGone
<1>2. TypeOK /\ Gone /\ [Next]_vars => Gone'
  BY NextGone
<1> QED BY <1>1, <1>2, TypeCorrect, PTL DEF Spec

\* Close and ForceClose, called once Load has forked, leave no process
\* behind: whatever the plugin, the calls in progress and the monitor do.
THEOREM CloseEndsProcess ==
  ASSUME ~EarlyClose
  PROVE  Spec => []ClosedMeansGone
<1>1. Gone => ClosedMeansGone
  BY DEF Gone, ClosedMeansGone
<1> QED BY <1>1, GoneHolds, PTL

\* A Load that returns an error leaves no process behind.
THEOREM FailedLoadEndsProcess == Spec => []LoadFailedMeansGone
<1>1. Gone => LoadFailedMeansGone
  BY DEF Gone
<1> QED BY <1>1, GoneHolds, PTL
=============================================================================
