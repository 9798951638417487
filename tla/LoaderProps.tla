----------------------------- MODULE LoaderProps -----------------------------
(* What the Loader promises to the goroutines that use it.                  *)
EXTENDS Loader

LifeTypeOK ==
  /\ attached \in BOOLEAN /\ closed \in BOOLEAN
  /\ loadDone \in BOOLEAN /\ processExited \in BOOLEAN
  /\ loadPc \in {"idle", "fork", "ready1", "request", "blocked", "ready2", "close",
                 "cancel", "ok", "failed"}
  /\ closePc \in [Closers -> {"idle", "refused", "write", "blocked", "ack", "cancel",
                              "process", "join", "joined", "timedOut"}]
  /\ monitor \in {"off", "wait", "check", "store", "cancel", "done"}

CallPcs == {"idle", "gen", "check", "fallback", "register", "write", "blocked",
            "wait", "deferred", "done"}
Results == [kind : ResultKinds, from : Bodies \cup {None}]

CallTypeOK ==
  /\ requestID \in PastCalls .. MaxAdds
  /\ pendingRequests \in [Ids -> Calls \cup {None}]
  /\ pc \in [Calls -> CallPcs]
  /\ attempt \in [Calls -> Nat]
  /\ id \in [Calls -> Ids]
  /\ respChan \in [Calls -> Chans]
  /\ result \in [Calls -> Results]

NoteTypeOK ==
  /\ sequence \in Ids
  /\ notePc \in [HostNotes -> {"idle", "write", "blocked", "done"}]
  /\ noteSeq \in [HostNotes -> Ids]

HandlerTypeOK ==
  /\ handler \in {"off", "recv", "send", "exit", "done"}
  /\ sending \in [to : Calls \cup {None}, msg : ToHostMsgs]
  /\ handler = "send" => sending.to \in Calls
  /\ readyReceived \in BOOLEAN /\ readySignal \in BOOLEAN
  /\ shutdownAck \in BOOLEAN /\ forceShutdownAck \in BOOLEAN

ServeTypeOK ==
  /\ servePc \in [PeerRequests -> {"none", "handle", "write", "blocked", "done"}]
  /\ serveSeq \in [PeerRequests -> Ids]

ProcTypeOK ==
  /\ proc \in {"none", "alive", "dead"}
  /\ stdinOpen \in BOOLEAN
  /\ stdinCopy \in {"running", "ended"}

PeerTypeOK ==
  /\ peer \in {"off", "starting", "serving", "leaving", "forced"}
  /\ jobs \subseteq ToPluginMsgs
  /\ peerSeq \in Ids
  /\ peerSent \subseteq PeerBodies

WireTypeOK == toPlugin \in Seq(ToPluginMsgs) /\ toHost \in Seq(ToHostMsgs)

\* Every variable of Loader.tla is of its type: the flags and channels of
\* types.go's Loader, the positions in its functions, the messages in flight.
TypeOK == /\ LifeTypeOK /\ CallTypeOK /\ NoteTypeOK /\ HandlerTypeOK
          /\ ServeTypeOK /\ ProcTypeOK /\ PeerTypeOK /\ WireTypeOK

\* A call holds its number from its registration to its deferred delete.
InFlight(c) == pc[c] \in {"write", "blocked", "wait", "deferred"}

\* Call returns the plugin's reply to its own request and to no other
\* message, whatever the order of replies, late replies and give-ups.
ResponseIntegrity ==
  \A c \in Calls : result[c].kind = "reply" => result[c].from = c

\* RequestReady has failed, or Close or ForceClose no longer waits for its
\* acknowledgment: the context of the announcement may have run out in the
\* middle of it, and what had been written is then a message without a readable
\* header.
AnnouncementCut ==
  \/ loadPc \in {"close", "cancel", "failed"}
  \/ \E k \in Closers : closePc[k] \in {"cancel", "process", "join", "joined", "timedOut"}

\* What a message that is about no call and has this number can be.
Explained(about, number) ==
  \/ about \in HostNotes /\ notePc[about] # "idle" /\ noteSeq[about] = number
  \/ about \in PeerRequests /\ servePc[about] # "none" /\ serveSeq[about] = number
  \/ about \in PeerErrors
  \/ about = None /\ AnnouncementCut

\* A reply that is not to the call's own request is to a one-way message that
\* was sent under the call's number: by the host, by the host in answer to a
\* request of the plugin, or by the plugin (an error message); or it refuses
\* an announcement of the Loader that was cut short, with an Error under its
\* number.  With calls alone on the wire, and every announcement sent in full,
\* this is ResponseIntegrity.
RepliesExplained ==
  \A c \in Calls : LET about == result[c].from IN
    result[c].kind = "reply" /\ about # c => Explained(about, id[c])

\* Whatever else is on the wire, no call ever gets the reply to another call.
CallsNeverCross ==
  \A c \in Calls : result[c].kind = "reply" => result[c].from \notin Calls \ {c}

\* generateRequestID gave up looking, or was about to.
Exhausted(c) == attempt[c] >= MaxAttempts

\* Around the wrap of the counter, no call in flight has number zero, which
\* handleMessages does not correlate, and two calls in flight share a number
\* only if one of them has used up the attempts of generateRequestID.
UniqueInFlight ==
  \A c \in Calls : InFlight(c) /\ ~Exhausted(c) =>
    /\ id[c] # 0
    /\ \A d \in Calls \ {c} : InFlight(d) /\ ~Exhausted(d) => id[d] # id[c]

\* While a call writes or waits, handleMessages finds its channel under its
\* number, unless the final cleanup has run: no other call's deferred delete
\* or registration takes the entry away.
StaysRegistered ==
  \A c \in Calls : pc[c] \in {"write", "blocked", "wait"} /\ handler # "done"
                     => pendingRequests[id[c]] = c

\* An entry of pendingRequests belongs to a call that has not returned: no
\* path out of Call leaves one behind.
NoStaleEntry ==
  \A i \in Ids : pendingRequests[i] # None =>
    /\ InFlight(pendingRequests[i])
    /\ id[pendingRequests[i]] = i

\* A message about a call carries the number of that call.
Matches(m, numbers) == m.body \in Calls => m.seq # 0 /\ m.seq = numbers[m.body]
AllMatch(ms, numbers) == \A i \in 1 .. Len(ms) : Matches(ms[i], numbers)

\* Numbers come from one counter: none twice, and none before it is needed.
NumbersFresh ==
  /\ \A c \in Calls : id[c] <= requestID
  /\ \A c, d \in Calls : c # d /\ id[c] # 0 => id[c] # id[d]
  /\ \A c \in Calls : /\ pc[c] \in {"idle", "gen"} => id[c] = 0
                      /\ pc[c] \in {"check", "register"} \/ InFlight(c) => id[c] # 0
                      /\ pc[c] # "fallback"

MessagesMatch ==
  /\ AllMatch(toPlugin, id) /\ AllMatch(toHost, id)
  /\ \A m \in jobs : Matches(m, id)
  /\ handler = "send" =>
       /\ Matches(sending.msg, id)
       /\ sending.msg.seq # 0
       /\ sending.msg.seq = id[sending.to]

\* handleMessages is started once, by Load.
StartsOnce == loadPc \in {"idle", "fork"} => handler = "off"

ChannelsMatch == \A c \in Calls : respChan[c].from \notin Calls \ {c}

\* As long as requestID does not wrap around, a number means one call
\* everywhere: in pendingRequests, in what the plugin is working on, in every
\* message in either direction and in the reply the handler is about to hand
\* over.  This is what correlates responses with requests.
Correlated ==
  /\ NumbersFresh /\ MessagesMatch /\ ChannelsMatch /\ StartsOnce
  /\ NoStaleEntry /\ StaysRegistered /\ CallsNeverCross

\* The cleanup of handleMessages is the last word of a loader that was closed:
\* the second look at closed, under requestMutex, keeps a call from
\* registering after it.  (A Load that fails, or whose context expires,
\* cancels loadCtx without closing.)
NoLateRegistration ==
  (handler = "done" /\ ~MayExpire /\ loadPc \notin {"cancel", "failed"})
    => \A i \in Ids : pendingRequests[i] = None

\* When Close or ForceClose has returned without "already closed", the plugin
\* process is not running.
ClosedMeansGone ==
  \A k \in Closers : closePc[k] \in {"joined", "timedOut"} => proc # "alive"

\* A Load that has forked the plugin and fails has ended it.
LoadFailedMeansGone == (loadPc = "failed" /\ attached) => proc # "alive"

\* What closing rests on: loadCtx is cancelled by a Close, by the monitor after
\* it has set closed, by a Load that fails or by its own deadline, and nothing
\* else; the handler ends only after it; and a number registered after the
\* handler's cleanup would need closed to be false.
Sealed ==
  /\ handler \in {"exit", "done"} => loadDone
  /\ monitor = "cancel" => closed
  /\ \A k \in Closers : closePc[k] # "idle" => closed
  /\ loadDone /\ ~MayExpire /\ loadPc # "failed" => closed
  /\ NoLateRegistration

\* The plugin process is started once, by Load, and whoever ends the Loader's
\* life with it has killed it.
Gone ==
  /\ ~attached => proc = "none" /\ loadPc \in {"idle", "fork", "failed"}
  /\ attached => loadPc \notin {"idle", "fork"}
  /\ loadPc = "cancel" => proc # "alive"
  /\ ~EarlyClose => \A k \in Closers : closePc[k] # "idle" => loadPc \notin {"idle", "fork"}
  /\ ~EarlyClose => \A k \in Closers :
       closePc[k] \in {"join", "joined", "timedOut"} => proc # "alive"
  /\ LoadFailedMeansGone

\* Close kills a plugin that has acknowledged "shutdown" only after the requests
\* it accepted have been answered.
GracefulCloseWaits ==
  [][\A k \in Closers : (k = "close" /\ closePc[k] = "process" /\ closePc'[k] = "join")
       => (peer = "leaving" => Working = {})]_vars

-----------------------------------------------------------------------------

\* With a deadline in the context of every call, a call that has begun returns.
CallsReturn == Deadlines => \A c \in Calls : (pc[c] = "gen") ~> (pc[c] = "done")

\* Once loadCtx is done every call returns, deadline or not.
ShutdownReleasesCalls ==
  \A c \in Calls : (loadDone /\ pc[c] \notin {"idle", "done"}) ~> (pc[c] = "done")

\* Close and ForceClose return.
CloseReturns ==
  \A k \in Closers : (closePc[k] = "write") ~> (closePc[k] \in {"joined", "timedOut"})

\* Load returns: ready, or one of its timeouts.
LoadReturns == (loadPc = "ready1") ~> (loadPc \in {"ok", "failed"})

\* After the plugin process has died, IsProcessAlive says so.
DeathIsNoticed == (proc = "dead") ~> ~IsProcessAlive
=============================================================================
