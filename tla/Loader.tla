------------------------------- MODULE Loader -------------------------------
(***************************************************************************)
(* The host side of plugin.go: lib/plugin's Loader.  Goroutines of the     *)
(* application run Call / SendRequest, SendMessage / SendErrorMessage,     *)
(* Load, Close and ForceClose; the Loader itself runs handleMessages,      *)
(* monitorProcess and a goroutine for each request of the plugin.  They    *)
(* share pendingRequests, the closed flag, loadCtx, the multiplexer's      *)
(* writer and the process with its pipes.                                  *)
(*                                                                         *)
(* What the plugin does with what it is sent is Plugin.tla.                *)
(***************************************************************************)
EXTENDS Plugin, FiniteSets

CONSTANTS
  Closers,       \* subset of {"close", "force"}: who may call Close, ForceClose
  MaxAttempts,   \* maxAttempts of generateRequestID (100 in the code)
  MaxAdds,       \* bound on requestID.Add(1) in a behaviour
  MayCrash,      \* the plugin process may die by itself
  SlowStart,     \* the plugin may take longer than 5 seconds to get ready
  MayExpire,     \* the context given to Load may be cancelled or expire
  EarlyClose,    \* Close and ForceClose may run before Load has forked the plugin
  PastCalls      \* calls made, and completed, before the behaviour begins

ASSUME IdAssumption == /\ MaxAttempts \in Nat \ {0}
                       /\ MaxAdds \in Nat
                       /\ PastCalls \in 0 .. MaxAdds
ASSUME FlagAssumption == {MayCrash, SlowStart, MayExpire, EarlyClose} \subseteq BOOLEAN
ASSUME CloserAssumption == Closers \subseteq {"close", "force"}

NoMsg == Msg("garbled", 0, None)

\* Contents of a response channel (make(chan []byte, 1)).
EmptyChan == [state |-> "empty", from |-> None]
ClosedChan == [state |-> "closed", from |-> None]
FullChan(body) == [state |-> "full", from |-> body]
Chans == [state : {"empty", "closed", "full"}, from : Bodies \cup {None}]

NoResult == [kind |-> "none", from |-> None]
Outcome(kind) == [kind |-> kind, from |-> None]
ResultKinds == {"none", "refused", "reply", "chanClosed", "ctxDone",
                "loadDone", "writeError"}

VARIABLES
  \* the Loader's own state
  attached,         \* l.process, l.multiplexer and l.loadCtx are set
  loadPc,           \* where Load is
  closed,           \* l.closed
  loadDone,         \* l.loadCtx is done
  processExited,    \* l.processExited
  closePc,          \* where Close and ForceClose are
  monitor,          \* where monitorProcess is
  \* calls
  requestID,        \* Adds made on l.requestID; its uint32 value is modulo IdSpace
  pendingRequests,  \* l.pendingRequests: the call whose channel is registered
  pc, attempt, id,  \* of a call: position, loop count, its requestID
  respChan,         \* of a call: its responseChan
  result,           \* of a call: what it returned
  \* other messages of the host
  sequence,         \* nodeAdapter.sequence of the host's multiplexer
  notePc, noteSeq,
  \* handleMessages and the one-slot channels it fills
  handler,          \* "off", "recv", "send", "exit", "done"
  sending,          \* the call found in pendingRequests and the message for it
  readyReceived, readySignal, shutdownAck, forceShutdownAck,
  servePc, serveSeq,  \* of a request of the plugin: its goroutine, its number
  \* the plugin process and its pipes
  proc,             \* "none", "alive", "dead"
  stdinOpen,        \* process.stdinWriter is not closed
  stdinCopy         \* os/exec's goroutine copying stdin: "running", "ended"

lifeVars == <<attached, loadPc, closed, loadDone, processExited, closePc, monitor>>
callVars == <<requestID, pendingRequests, pc, attempt, id, respChan, result>>
noteVars == <<sequence, notePc, noteSeq>>
handlerVars == <<handler, sending, readyReceived, readySignal, shutdownAck,
                 forceShutdownAck>>
serveVars == <<servePc, serveSeq>>
procVars == <<proc, stdinOpen, stdinCopy>>
peerState == <<peer, jobs>>
peerVars == <<peerState, peerSeq, peerSent>>
wireVars == <<toPlugin, toHost>>
vars == <<lifeVars, callVars, noteVars, handlerVars, serveVars, procVars, peerVars,
          wireVars>>

NoSending == [to |-> None, msg |-> NoMsg]

Init ==
  /\ attached = FALSE
  /\ loadPc = "idle"
  /\ closed = FALSE
  /\ loadDone = FALSE
  /\ processExited = FALSE
  /\ closePc = [k \in Closers |-> "idle"]
  /\ monitor = "off"
  /\ requestID = PastCalls
  /\ pendingRequests = [i \in Ids |-> None]
  /\ pc = [c \in Calls |-> "idle"]
  /\ attempt = [c \in Calls |-> 0]
  /\ id = [c \in Calls |-> 0]
  /\ respChan = [c \in Calls |-> EmptyChan]
  /\ result = [c \in Calls |-> NoResult]
  /\ sequence = 0
  /\ notePc = [n \in HostNotes |-> "idle"]
  /\ noteSeq = [n \in HostNotes |-> 0]
  /\ handler = "off"
  /\ sending = NoSending
  /\ readyReceived = FALSE
  /\ readySignal = FALSE
  /\ shutdownAck = FALSE
  /\ forceShutdownAck = FALSE
  /\ servePc = [r \in PeerRequests |-> "none"]
  /\ serveSeq = [r \in PeerRequests |-> 0]
  /\ proc = "none"
  /\ stdinOpen = FALSE
  /\ stdinCopy = "ended"
  /\ peer = "off"
  /\ peerSeq = 0
  /\ peerSent = {}
  /\ jobs = {}
  /\ toPlugin = <<>>
  /\ toHost = <<>>

-----------------------------------------------------------------------------
(* Writing on the multiplexer.  A write of a message has four outcomes.    *)

\* The frames reach the plugin.
PipeUp == proc = "alive" /\ stdinOpen
Written(m) == PipeUp /\ toPlugin' = Append(toPlugin, m) /\ UNCHANGED stdinCopy

\* stdinWriter is closed: the next frame fails.
WriteFails == ~stdinOpen /\ UNCHANGED <<toPlugin, stdinCopy>>

\* The context is done.  Checked before the first frame, nothing is sent;
\* checked later, an Abort frame ends the message and the reader still hands
\* over what it has: a header cut short, or a complete one.  The adapters drop
\* the message type, so the plugin cannot tell.
Aborted(m) ==
  /\ \/ UNCHANGED toPlugin
     \/ PipeUp /\ \E sent \in {m, [m EXCEPT !.kind = "garbled"]} :
          toPlugin' = Append(toPlugin, sent)
  /\ UNCHANGED stdinCopy

\* The process is dead and the pipe still open.  os/exec's copying goroutine
\* takes the first frame, fails to pass it on and ends; nobody reads the pipe
\* any more, and the next frame's Write never returns (the context is not
\* looked at while it waits, and writerLock is held).
WriteBlocks ==
  /\ proc = "dead" /\ stdinOpen
  /\ stdinCopy' = "ended"
  /\ UNCHANGED toPlugin

NextSequence == (sequence + 1) % IdSpace

-----------------------------------------------------------------------------
(* Call and SendRequest.                                                   *)

Goes(c, to) == pc' = [pc EXCEPT ![c] = to]
Returns(c, r, to) == result' = [result EXCEPT ![c] = r] /\ Goes(c, to)

CallBegin(c) ==
  /\ pc[c] = "idle"
  /\ IF closed \/ ~attached
       THEN Returns(c, Outcome("refused"), "done")
       ELSE Goes(c, "gen") /\ UNCHANGED result
  /\ UNCHANGED <<requestID, pendingRequests, attempt, id>>

\* if id == 0 { continue }.  Without it, the first number after a wrap is zero.
NeverSkipped(number) == FALSE
Skipped(number) == number = 0

\* generateRequestID: id := l.requestID.Add(1); zero is skipped.
GenerateAdd(c) ==
  /\ pc[c] = "gen"
  /\ requestID < MaxAdds
  /\ requestID' = requestID + 1
  /\ id' = [id EXCEPT ![c] = requestID' % IdSpace]
  /\ attempt' = [attempt EXCEPT ![c] = @ + 1]
  /\ Goes(c, IF ~Skipped(requestID' % IdSpace) THEN "check"
             ELSE IF attempt[c] + 1 < MaxAttempts THEN "gen" ELSE "fallback")
  /\ UNCHANGED <<pendingRequests, result>>

\* generateRequestID: is the id pending?  Under RLock, released before use.
GenerateCheck(c) ==
  /\ pc[c] = "check"
  /\ Goes(c, IF pendingRequests[id[c]] = None THEN "register"
             ELSE IF attempt[c] < MaxAttempts THEN "gen" ELSE "fallback")
  /\ UNCHANGED <<requestID, pendingRequests, attempt, id, result>>

\* generateRequestID after maxAttempts: the counter's value, pending or not.
GenerateFallback(c) ==
  /\ pc[c] = "fallback"
  /\ id' = [id EXCEPT ![c] = requestID % IdSpace]
  /\ Goes(c, "register")
  /\ UNCHANGED <<requestID, pendingRequests, attempt, result>>

\* Register without the second look at closed.
RegisterUnchecked(c) ==
  /\ pc[c] = "register"
  /\ pendingRequests' = [pendingRequests EXCEPT ![id[c]] = c]
  /\ Goes(c, "write")
  /\ UNCHANGED <<result, requestID, attempt, id>>

\* Under requestMutex: the second look at closed, then the registration.
Register(c) ==
  /\ pc[c] = "register"
  /\ IF closed
       THEN Returns(c, Outcome("refused"), "done") /\ UNCHANGED pendingRequests
       ELSE /\ pendingRequests' = [pendingRequests EXCEPT ![id[c]] = c]
            /\ Goes(c, "write")
            /\ UNCHANGED result
  /\ UNCHANGED <<requestID, attempt, id>>

\* WriteMessageWithSequence; a Write that blocks returns only when stdinWriter
\* is closed.
CallWrite(c) ==
  /\ \/ /\ pc[c] = "write"
        /\ Written(Msg("request", id[c], c))
        /\ Goes(c, "wait") /\ UNCHANGED result
     \/ /\ pc[c] = "write"
        /\ WriteBlocks
        /\ Goes(c, "blocked") /\ UNCHANGED result
     \/ /\ pc[c] \in {"write", "blocked"}
        /\ WriteFails
        /\ Returns(c, Outcome("writeError"), "deferred")
  /\ UNCHANGED <<requestID, pendingRequests, attempt, id, respChan>>

\* case <-l.loadCtx.Done(), and Call without that case.
NotReleased == FALSE
Released == loadDone

\* The select of Call: the response channel or loadCtx.
CallReceive(c) ==
  /\ pc[c] = "wait"
  /\ \/ /\ respChan[c].state = "full"
        /\ respChan' = [respChan EXCEPT ![c] = EmptyChan]
        /\ Returns(c, [kind |-> "reply", from |-> respChan[c].from], "deferred")
     \/ /\ respChan[c].state = "closed"
        /\ Returns(c, Outcome("chanClosed"), "deferred")
        /\ UNCHANGED respChan
     \/ /\ Released
        /\ Returns(c, Outcome("loadDone"), "deferred")
        /\ UNCHANGED respChan
  /\ UNCHANGED <<requestID, pendingRequests, attempt, id, toPlugin, stdinCopy>>

\* The deferred delete, of the counter's value instead of the call's number.
CallDeferredLatest(c) ==
  /\ pc[c] = "deferred"
  /\ pendingRequests' = [pendingRequests EXCEPT ![requestID % IdSpace] = None]
  /\ Goes(c, "done")
  /\ UNCHANGED <<requestID, attempt, id, result>>

\* The deferred delete: by id, whoever is registered under it.
CallDeferred(c) ==
  /\ pc[c] = "deferred"
  /\ pendingRequests' = [pendingRequests EXCEPT ![id[c]] = None]
  /\ Goes(c, "done")
  /\ UNCHANGED <<requestID, attempt, id, result>>

\* The caller's context is done: while it writes, or in the select.
CallGivesUp(c) ==
  /\ \/ /\ pc[c] = "write"
        /\ Aborted(Msg("request", id[c], c))
        /\ Returns(c, Outcome("writeError"), "deferred")
     \/ /\ pc[c] = "wait"
        /\ Returns(c, Outcome("ctxDone"), "deferred")
        /\ UNCHANGED <<toPlugin, stdinCopy>>
  /\ UNCHANGED <<requestID, pendingRequests, attempt, id, respChan>>

CallFrame == UNCHANGED <<lifeVars, noteVars, handlerVars, serveVars, proc, stdinOpen,
                         peerVars, toHost>>
CallStep(c) ==
  /\ \/ /\ \/ GenerateAdd(c) \/ GenerateCheck(c) \/ GenerateFallback(c)
           \/ Register(c) \/ CallDeferred(c)
        /\ UNCHANGED <<respChan, toPlugin, stdinCopy>>
     \/ CallWrite(c)
     \/ CallReceive(c)
  /\ CallFrame
CallStart(c) == CallBegin(c) /\ UNCHANGED <<respChan, toPlugin, stdinCopy>> /\ CallFrame
CallExpires(c) == CallGivesUp(c) /\ CallFrame

-----------------------------------------------------------------------------
(* SendMessage and SendErrorMessage: one-way, under a number of the         *)
(* multiplexer.  a.sequence++ is not atomic: the value is read in NoteBegin *)
(* and stored in NoteWrite.                                                *)

NoteBegin(n) ==
  /\ notePc[n] = "idle"
  /\ IF closed \/ ~attached
       THEN notePc' = [notePc EXCEPT ![n] = "done"] /\ UNCHANGED noteSeq
       ELSE /\ notePc' = [notePc EXCEPT ![n] = "write"]
            /\ noteSeq' = [noteSeq EXCEPT ![n] = NextSequence]
  /\ UNCHANGED <<sequence, toPlugin, stdinCopy>>

NoteWrite(n) ==
  /\ notePc[n] = "write"
  /\ sequence' = noteSeq[n]
  /\ LET m == Msg("message", noteSeq[n], n) IN
       \/ /\ Written(m) \/ WriteFails \/ Aborted(m)
          /\ notePc' = [notePc EXCEPT ![n] = "done"]
       \/ /\ WriteBlocks
          /\ notePc' = [notePc EXCEPT ![n] = "blocked"]
  /\ UNCHANGED noteSeq

NoteUnblocked(n) ==
  /\ notePc[n] = "blocked"
  /\ WriteFails
  /\ notePc' = [notePc EXCEPT ![n] = "done"]
  /\ UNCHANGED <<sequence, noteSeq>>

NoteStep(n) ==
  /\ NoteBegin(n) \/ NoteWrite(n) \/ NoteUnblocked(n)
  /\ UNCHANGED <<lifeVars, callVars, handlerVars, serveVars, proc, stdinOpen,
                 peerVars, toHost>>

-----------------------------------------------------------------------------
(* handleMessages.                                                         *)

HandlerTakes(kinds) ==
  /\ handler = "recv"
  /\ toHost # <<>>
  /\ Head(toHost).kind \in kinds
  /\ toHost' = Tail(toHost)

\* The first "ready"; the send on readySignal does not wait.
HandleReady ==
  /\ HandlerTakes({"ready"})
  /\ ~readyReceived
  /\ readyReceived' = TRUE
  /\ readySignal' = TRUE
  /\ UNCHANGED <<handler, sending, shutdownAck, forceShutdownAck>>

\* The acknowledgment is read, and nobody told.
HandleShutdownAckIgnored ==
  /\ HandlerTakes({"shutdown_ack"})
  /\ UNCHANGED handlerVars

HandleShutdownAck ==
  /\ HandlerTakes({"shutdown_ack"})
  /\ shutdownAck' = TRUE
  /\ UNCHANGED <<handler, sending, readyReceived, readySignal, forceShutdownAck>>

HandleForceShutdownAck ==
  /\ HandlerTakes({"force_shutdown_ack"})
  /\ forceShutdownAck' = TRUE
  /\ UNCHANGED <<handler, sending, readyReceived, readySignal, shutdownAck>>

IsReply(m) == m.kind \in {"response", "error"} /\ m.seq # 0

\* The send without the look for a registered channel.
HandleReplyUnchecked ==
  /\ HandlerTakes({"response", "error"})
  /\ IsReply(Head(toHost))
  /\ sending' = [to |-> pendingRequests[Head(toHost).seq], msg |-> Head(toHost)]
  /\ handler' = "send"
  /\ UNCHANGED <<readyReceived, readySignal, shutdownAck, forceShutdownAck>>

\* A Response or Error whose number is pending: the channel is looked up under
\* RLock, which is released before the send.
HandleReply ==
  /\ HandlerTakes({"response", "error"})
  /\ IsReply(Head(toHost))
  /\ pendingRequests[Head(toHost).seq] # None
  /\ sending' = [to |-> pendingRequests[Head(toHost).seq], msg |-> Head(toHost)]
  /\ handler' = "send"
  /\ UNCHANGED <<readyReceived, readySignal, shutdownAck, forceShutdownAck>>

\* A request of the plugin whose name has a handler gets a goroutine.
HandleRequest ==
  /\ HandlerTakes({"plugin_request"})
  /\ Head(toHost).seq # 0
  /\ servePc' = [servePc EXCEPT ![Head(toHost).body] = "handle"]
  /\ serveSeq' = [serveSeq EXCEPT ![Head(toHost).body] = Head(toHost).seq]
  /\ UNCHANGED handlerVars

\* Everything else leaves the Loader as it is: undecodable data, a reply
\* nobody waits for, a later "ready", a request under number zero or for a name
\* without a handler, notifications (given to the registered handler, which is
\* the application's).
HandleIgnored ==
  /\ HandlerTakes(ToHostKinds \ {"shutdown_ack", "force_shutdown_ack"})
  /\ Head(toHost).kind = "ready" => readyReceived
  /\ IsReply(Head(toHost)) => pendingRequests[Head(toHost).seq] = None
  /\ UNCHANGED handlerVars

\* select { responseChan <- mesg.Data; <-loadCtx.Done(); default }
HandlerSend ==
  /\ handler = "send"
  /\ \/ /\ respChan[sending.to].state = "empty"
        /\ respChan' = [respChan EXCEPT ![sending.to] = FullChan(sending.msg.body)]
        /\ handler' = "recv"
     \/ /\ respChan[sending.to].state = "full" /\ ~loadDone
        /\ handler' = "recv" /\ UNCHANGED respChan
     \/ /\ loadDone
        /\ handler' = "exit" /\ UNCHANGED respChan
  /\ sending' = NoSending
  /\ UNCHANGED <<pendingRequests, readyReceived, readySignal, shutdownAck,
                 forceShutdownAck, toHost>>

HandlerLoadDone ==
  /\ handler = "recv"
  /\ loadDone
  /\ handler' = "exit"
  /\ UNCHANGED <<sending, readyReceived, readySignal, shutdownAck,
                 forceShutdownAck, toHost>>

IsPending(c) == \E i \in Ids : pendingRequests[i] = c

\* The deferred cleanup, under requestMutex: a channel that holds a response
\* has it received (and lost), any other is closed; every entry goes.
HandlerCleanup ==
  /\ handler = "exit"
  /\ handler' = "done"
  /\ respChan' = [c \in Calls |->
                    IF ~IsPending(c) THEN respChan[c]
                    ELSE IF respChan[c].state = "full" THEN EmptyChan
                    ELSE ClosedChan]
  /\ pendingRequests' = [i \in Ids |-> None]
  /\ UNCHANGED <<sending, readyReceived, readySignal, shutdownAck,
                 forceShutdownAck, toHost>>

HandlerStep ==
  /\ \/ /\ HandlerSend \/ HandlerCleanup
        /\ UNCHANGED serveVars
     \/ /\ HandleReady \/ HandleShutdownAck \/ HandleForceShutdownAck
           \/ HandleReply \/ HandleIgnored \/ HandlerLoadDone
        /\ UNCHANGED <<pendingRequests, respChan, serveVars>>
     \/ HandleRequest /\ UNCHANGED <<pendingRequests, respChan>>
  /\ UNCHANGED <<lifeVars, requestID, pc, attempt, id, result, noteVars, procVars,
                 peerVars, toPlugin>>

-----------------------------------------------------------------------------
(* The goroutine of a request of the plugin: the handler, which is the       *)
(* application's, then SendMessageWithSequence under the request's number.  *)
(* Its context is a child of loadCtx and has 30 seconds.                    *)

ServeGoes(r, from, to) == servePc[r] = from /\ servePc' = [servePc EXCEPT ![r] = to]

ServeHandled(r) ==
  /\ ServeGoes(r, "handle", IF closed THEN "done" ELSE "write")
  /\ UNCHANGED <<toPlugin, stdinCopy>>

ServeWrite(r) ==
  LET m == Msg("message", serveSeq[r], r) IN
    \/ ServeGoes(r, "write", "done") /\ (Written(m) \/ WriteFails \/ Aborted(m))
    \/ ServeGoes(r, "write", "blocked") /\ WriteBlocks
    \/ ServeGoes(r, "blocked", "done") /\ WriteFails

ServeStep(r) ==
  /\ ServeHandled(r) \/ ServeWrite(r)
  /\ UNCHANGED <<serveSeq, lifeVars, callVars, noteVars, handlerVars, proc, stdinOpen,
                 peerVars, toHost>>

-----------------------------------------------------------------------------
(* process.Process: Close and Wait.                                        *)

\* Close without the Kill.
ProcessClosePipes ==
  /\ stdinOpen' = FALSE
  /\ stdinCopy' = "ended"
  /\ toPlugin' = <<>>
  /\ UNCHANGED <<proc, peerState>>

\* Close with nothing but the Kill.
ProcessKill ==
  /\ proc' = "dead"
  /\ toPlugin' = <<>>
  /\ peer' = "off" /\ jobs' = {}
  /\ UNCHANGED <<stdinOpen, stdinCopy>>

\* Both pipes, then Kill.  Closing stdinWriter gives the copying goroutine its
\* end of file; what the plugin had not answered is lost.
ProcessClose ==
  /\ proc' = "dead"
  /\ stdinOpen' = FALSE
  /\ stdinCopy' = "ended"
  /\ toPlugin' = <<>>
  /\ peer' = "off" /\ jobs' = {}

\* cmd.Wait returns when the process is gone and the goroutine copying into
\* its stdin has ended: that goroutine is in a Read of the host's pipe and
\* learns of the death only from its next write, or when the pipe is closed.
WaitReturns == proc = "dead" /\ stdinCopy = "ended"

-----------------------------------------------------------------------------
(* Load.                                                                   *)

\* The same with a plain receive of readySignal after RequestReady.
LoadMovesPatient ==
  /\ \/ loadPc = "idle" /\ loadPc' = (IF closed THEN "failed" ELSE "fork")
     \/ loadPc = "fork" /\ loadPc' = "failed"
     \/ loadPc = "ready1" /\ loadPc' = "request" /\ SlowStart
     \/ loadPc = "ready1" /\ loadDone /\ loadPc' = "close"
  /\ UNCHANGED <<attached, loadDone, monitor, sequence, handler, readySignal,
                 procVars, peerState, toPlugin>>

\* The error returns, and the selects of waitForReadySignal.
LoadMoves ==
  /\ \/ loadPc = "idle" /\ loadPc' = (IF closed THEN "failed" ELSE "fork")
     \/ loadPc = "fork" /\ loadPc' = "failed"          \* Fork fails
     \/ loadPc = "ready1" /\ loadPc' = "request" /\ SlowStart   \* 5 seconds
     \/ loadPc = "ready2" /\ loadPc' = "close"         \* 3 seconds
     \/ /\ loadPc \in {"ready1", "ready2"} /\ loadDone
        /\ loadPc' = "close"
  /\ UNCHANGED <<attached, loadDone, monitor, sequence, handler, readySignal,
                 procVars, peerState, toPlugin>>

\* Fork, the multiplexer, loadCtx and the two goroutines.
LoadFork ==
  /\ loadPc = "fork"
  /\ loadPc' = "ready1"
  /\ attached' = TRUE
  /\ proc' = "alive" /\ stdinOpen' = TRUE /\ stdinCopy' = "running"
  /\ peer' = "starting"
  /\ handler' = "recv"
  /\ monitor' = "wait"
  /\ UNCHANGED <<loadDone, sequence, readySignal, jobs, toPlugin>>

LoadReady ==
  /\ loadPc \in {"ready1", "ready2"}
  /\ readySignal
  /\ readySignal' = FALSE
  /\ loadPc' = "ok"
  /\ UNCHANGED <<attached, loadDone, monitor, sequence, handler, procVars, peerState, toPlugin>>

RequestReady ==
  /\ \/ /\ loadPc = "request" /\ closed
        /\ loadPc' = "close"
        /\ UNCHANGED <<sequence, toPlugin, stdinCopy>>
     \/ /\ loadPc = "request" /\ ~closed
        /\ sequence' = NextSequence
        /\ LET m == Msg("request_ready", NextSequence, None) IN
             \/ Written(m) /\ loadPc' = "ready2"
             \/ (WriteFails \/ Aborted(m)) /\ loadPc' = "close"
             \/ WriteBlocks /\ loadPc' = "blocked"
     \/ /\ loadPc = "blocked"
        /\ WriteFails
        /\ loadPc' = "close"
        /\ UNCHANGED sequence
  /\ UNCHANGED <<attached, loadDone, monitor, handler, readySignal, proc, stdinOpen, peerState>>

\* No ready signal: p.Close(), then l.cancelLoad().  closed stays as it is.
LoadCleanup ==
  /\ \/ /\ loadPc = "close"
        /\ ProcessClose
        /\ loadPc' = "cancel"
        /\ UNCHANGED loadDone
     \/ /\ loadPc = "cancel"
        /\ loadDone' = TRUE
        /\ loadPc' = "failed"
        /\ UNCHANGED <<procVars, toPlugin, peerState>>
  /\ UNCHANGED <<attached, monitor, sequence, handler, readySignal>>

LoadStep ==
  /\ LoadMoves \/ LoadFork \/ LoadReady \/ RequestReady \/ LoadCleanup
  /\ UNCHANGED <<closed, processExited, closePc, callVars, notePc, noteSeq,
                 sending, readyReceived, shutdownAck, forceShutdownAck, serveVars,
                 peerSeq, peerSent, toHost>>

\* The context Load was given is cancelled or expires: loadCtx is its child.
LoadCtxExpires ==
  /\ MayExpire
  /\ attached
  /\ ~loadDone
  /\ loadDone' = TRUE
  /\ UNCHANGED <<attached, loadPc, closed, processExited, closePc, monitor, callVars,
                 noteVars, handlerVars, serveVars, procVars, peerVars, toPlugin, toHost>>

-----------------------------------------------------------------------------
(* Close ("close") and ForceClose ("force").                               *)

CloseGoes(k, to) == closePc' = [closePc EXCEPT ![k] = to]

\* CompareAndSwap(false, true) on closed.
CloseBegin(k) ==
  /\ closePc[k] = "idle"
  /\ EarlyClose \/ loadPc \notin {"idle", "fork"}
  /\ CloseGoes(k, IF closed THEN "refused" ELSE "write")
  /\ closed' = TRUE
  /\ UNCHANGED <<loadDone, sequence, shutdownAck, forceShutdownAck, procVars, peerState, toPlugin>>

CloseWrite(k) ==
  /\ \/ /\ closePc[k] = "write" /\ ~attached
        /\ CloseGoes(k, "cancel")
        /\ UNCHANGED <<sequence, toPlugin, stdinCopy>>
     \/ /\ closePc[k] = "write" /\ attached
        /\ sequence' = NextSequence
        /\ LET m == Msg(IF k = "close" THEN "shutdown" ELSE "force_shutdown",
                        NextSequence, None) IN
             \/ Written(m) /\ CloseGoes(k, "ack")
             \/ (WriteFails \/ Aborted(m)) /\ CloseGoes(k, "cancel")
             \/ WriteBlocks /\ CloseGoes(k, "blocked")
     \/ /\ closePc[k] = "blocked"
        /\ WriteFails
        /\ CloseGoes(k, "cancel")
        /\ UNCHANGED sequence
  /\ UNCHANGED <<closed, loadDone, shutdownAck, forceShutdownAck, proc, stdinOpen, peerState>>

\* <-l.shutdownAck, without a timeout; <-l.forceShutdownAck, 500ms at most.
CloseAcked(k) ==
  /\ closePc[k] = "ack"
  /\ \/ k = "close" /\ shutdownAck /\ shutdownAck' = FALSE /\ UNCHANGED forceShutdownAck
     \/ k = "force" /\ forceShutdownAck /\ forceShutdownAck' = FALSE /\ UNCHANGED shutdownAck
     \/ k = "force" /\ UNCHANGED <<shutdownAck, forceShutdownAck>>
  /\ CloseGoes(k, "cancel")
  /\ UNCHANGED <<closed, loadDone, sequence, procVars, peerState, toPlugin>>

CloseCancel(k) ==
  /\ closePc[k] = "cancel"
  /\ loadDone' = (loadDone \/ attached)
  /\ CloseGoes(k, "process")
  /\ UNCHANGED <<closed, sequence, shutdownAck, forceShutdownAck, procVars, peerState, toPlugin>>

CloseProcess(k) ==
  /\ closePc[k] = "process"
  /\ IF attached THEN ProcessClose ELSE UNCHANGED <<procVars, toPlugin, peerState>>
  /\ CloseGoes(k, "join")
  /\ UNCHANGED <<closed, loadDone, sequence, shutdownAck, forceShutdownAck>>

\* wg.Wait(), or 2 seconds (500ms in ForceClose).
GoroutinesDone == handler \in {"off", "done"} /\ monitor \in {"off", "done"}
CloseJoin(k) ==
  /\ closePc[k] = "join"
  /\ CloseGoes(k, "timedOut") \/ (GoroutinesDone /\ CloseGoes(k, "joined"))
  /\ UNCHANGED <<closed, loadDone, sequence, shutdownAck, forceShutdownAck, procVars,
                 peerState, toPlugin>>

CloseFrame == UNCHANGED <<attached, loadPc, processExited, monitor, callVars, notePc,
                          noteSeq, handler, sending, readyReceived, readySignal,
                          serveVars, peerSeq, peerSent, toHost>>
CloseStart(k) == CloseBegin(k) /\ CloseFrame
CloseStep(k) ==
  /\ CloseWrite(k) \/ CloseAcked(k) \/ CloseCancel(k) \/ CloseProcess(k) \/ CloseJoin(k)
  /\ CloseFrame

-----------------------------------------------------------------------------
(* monitorProcess.  closed is read in one step and stored in a later one.  *)

MonitorGoes(from, to) == monitor = from /\ monitor' = to

MonitorProcess ==
  \/ /\ MonitorGoes("wait", "check")
     /\ WaitReturns
     /\ processExited' = TRUE
     /\ UNCHANGED <<closed, loadDone>>
  \/ /\ MonitorGoes("check", IF closed THEN "done" ELSE "store")
     /\ UNCHANGED <<closed, loadDone, processExited>>
  \/ /\ MonitorGoes("store", "cancel")
     /\ closed' = TRUE
     /\ UNCHANGED <<loadDone, processExited>>
  \/ /\ MonitorGoes("cancel", "done")
     /\ loadDone' = TRUE
     /\ UNCHANGED <<closed, processExited>>

MonitorStep ==
  /\ MonitorProcess
  /\ UNCHANGED <<attached, loadPc, closePc, callVars, noteVars, handlerVars, serveVars,
                 procVars, peerVars, toPlugin, toHost>>

IsProcessAlive == ~processExited /\ ~closed

-----------------------------------------------------------------------------
(* The plugin, as far as the Loader can tell.                               *)

PeerFrame == UNCHANGED <<lifeVars, callVars, noteVars, handlerVars, serveVars, procVars>>
PeerListens == PeerListening /\ PeerFrame
PeerWorks == PeerWorking /\ PeerFrame

\* main ends after Listen, or the process crashes.  A chunk that os/exec's
\* copying goroutine holds at that moment makes it end at once.
PeerDies ==
  /\ proc = "alive"
  /\ MayCrash \/ Cancellable
  /\ proc' = "dead"
  /\ stdinCopy' = stdinCopy \/ (toPlugin # <<>> /\ stdinCopy' = "ended")
  /\ toPlugin' = <<>>
  /\ peer' = "off" /\ jobs' = {}
  /\ UNCHANGED <<lifeVars, callVars, noteVars, handlerVars, serveVars, stdinOpen,
                 peerSeq, peerSent, toHost>>

-----------------------------------------------------------------------------
Next ==
  \/ \E c \in Calls : CallStart(c) \/ CallStep(c) \/ CallExpires(c)
  \/ \E n \in HostNotes : NoteStep(n)
  \/ HandlerStep
  \/ \E r \in PeerRequests : ServeStep(r)
  \/ LoadStep
  \/ LoadCtxExpires
  \/ \E k \in Closers : CloseStart(k) \/ CloseStep(k)
  \/ MonitorStep
  \/ PeerListens \/ PeerWorks \/ PeerDies

\* Goroutines that can run do run, timers fire, and Listen of a live plugin
\* takes its messages.  Nothing forces the application to make a call or to
\* close, a handler of the plugin to finish, a context to expire or the process
\* to die.
Fairness ==
  /\ \A c \in Calls : WF_vars(CallStep(c))
  /\ \A n \in HostNotes : WF_vars(NoteStep(n))
  /\ WF_vars(HandlerStep)
  /\ WF_vars(LoadStep)
  /\ \A k \in Closers : WF_vars(CloseStep(k))
  /\ WF_vars(MonitorStep)
  /\ WF_vars(PeerListens)

\* Every call is made with a context that has a deadline.
Deadlines == \A c \in Calls : WF_vars(CallExpires(c))

Spec == Init /\ [][Next]_vars
FairSpec == Spec /\ Fairness
=============================================================================
