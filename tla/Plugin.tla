------------------------------- MODULE Plugin -------------------------------
(***************************************************************************)
(* A plugin as its host can observe it: which messages Module.Listen and   *)
(* processMessage send for what they receive, in any order and at any      *)
(* speed.  Loader extends this module with the host; Module is shown to    *)
(* implement it.                                                           *)
(***************************************************************************)
EXTENDS Wire

CONSTANT
  MayQuit  \* the plugin's own code may end Listen: its context, Shutdown,
           \* ForceShutdown

ASSUME QuitAssumption == MayQuit \in BOOLEAN

VARIABLES
  peer,             \* "off", "starting", "serving", "leaving" after a shutdown,
                    \* "forced" when Listen has been cancelled or has returned
  peerSeq,          \* nodeAdapter.sequence of the plugin's multiplexer
  peerSent,         \* messages the plugin has sent of its own accord
  jobs,             \* messages taken and still to be answered
  toPlugin, toHost  \* messages of each direction, in the order of the stream

pluginVars == <<peer, peerSeq, peerSent, jobs, toPlugin, toHost>>

-----------------------------------------------------------------------------

PeerSends(ms) == toHost' = toHost \o ms
NextPeerSeq == (peerSeq + 1) % IdSpace

\* What the graceful shutdown waits for.
Working == {m \in jobs : m.kind # "request_ready"}

\* listenCtx may be done: the shutdown was forced, or has waited long enough.
Cancellable == peer = "forced" \/ (peer = "leaving" /\ Working = {})

\* A write of a reply with listenCtx: cancelled, it may send nothing or an
\* aborted message.
PeerReplies(kind, m, cancellable) ==
  \/ PeerSends(<<Msg(kind, m.seq, m.body)>>)
  \/ cancellable /\ PeerSends(<<Msg("garbled", m.seq, m.body)>>)
  \/ cancellable /\ UNCHANGED toHost

\* Listen announces itself before it takes the first message, if its context
\* lets it.
PeerReady ==
  /\ peer = "starting"
  /\ peerSeq' = NextPeerSeq
  /\ \/ /\ peer' \in IF MayQuit THEN {"serving", "leaving", "forced"} ELSE {"serving"}
        /\ PeerSends(<<Msg("ready", NextPeerSeq, None)>>)
     \/ /\ MayQuit
        /\ peer' = "forced"
        /\ PeerSends(<<Msg("garbled", NextPeerSeq, None)>>) \/ UNCHANGED toHost
  /\ UNCHANGED <<jobs, toPlugin, peerSent>>

\* Listen takes a message when it is done with the one before.  After
\* "force_shutdown" it takes nothing more; told to end by the plugin's own code,
\* it may find messages before it finds that out.
PeerTakes(kinds) ==
  /\ peer \in {"serving", "leaving", "forced"}
  /\ jobs = Working
  /\ toPlugin # <<>>
  /\ peer = "forced" => MayQuit \/ Head(toPlugin).kind = "force_shutdown"
  /\ Head(toPlugin).kind \in kinds
  /\ toPlugin' = Tail(toPlugin)

\* Before "shutdown", a goroutine per message; it has nothing to answer when
\* the header is unreadable.
PeerAccepts ==
  /\ PeerTakes({"request", "message", "garbled"})
  /\ peer # "leaving"
  /\ jobs' = jobs \cup {m \in {Head(toPlugin)} : m.kind # "garbled"}
  /\ UNCHANGED <<peer, peerSeq, peerSent, toHost>>

\* After it, an Error under the number of whatever comes.
PeerRefuses ==
  /\ PeerTakes({"request", "message", "garbled"})
  /\ peer # "serving"
  /\ PeerReplies("error", Head(toPlugin), Cancellable)
  /\ UNCHANGED <<peer, jobs, peerSeq, peerSent>>

\* Listen takes one more message, finds that it is to stop and returns.
PeerDrops ==
  /\ PeerTakes(ToPluginKinds)
  /\ peer = "forced"
  /\ UNCHANGED <<peer, jobs, peerSeq, peerSent, toHost>>

\* The goroutine uses the loop's variable: the number of some other message.
PeerFinishesShared(m) ==
  /\ m.kind # "request_ready"
  /\ jobs' = jobs \ {m}
  /\ \E kind \in {"response", "error"}, n \in jobs :
       PeerReplies(kind, [m EXCEPT !.seq = n.seq], peer = "forced")
  /\ UNCHANGED <<peer, peerSeq, peerSent, toPlugin>>

\* processMessage replies to one-way messages as it does to requests.
PeerFinishes(m) ==
  /\ m.kind # "request_ready"
  /\ jobs' = jobs \ {m}
  /\ \E kind \in {"response", "error"} : PeerReplies(kind, m, peer = "forced")
  /\ UNCHANGED <<peer, peerSeq, peerSent, toPlugin>>

PeerShutdown ==
  /\ PeerTakes({"shutdown"})
  /\ peer' = IF peer = "forced" THEN "forced" ELSE "leaving"
  /\ PeerReplies("shutdown_ack", Head(toPlugin), Cancellable)
  /\ UNCHANGED <<jobs, peerSeq, peerSent>>

\* The flag is set and listenCtx cancelled before the acknowledgment is written
\* with it.
PeerForced ==
  /\ peer \in {"serving", "leaving"}
  /\ jobs = Working
  /\ toPlugin # <<>>
  /\ Head(toPlugin).kind = "force_shutdown"
  /\ peer' = "forced"
  /\ UNCHANGED <<jobs, peerSeq, peerSent, toPlugin, toHost>>

PeerForceShutdown ==
  /\ PeerTakes({"force_shutdown"})
  /\ peer = "forced"
  /\ PeerReplies("force_shutdown_ack", Head(toPlugin), TRUE)
  /\ UNCHANGED <<peer, jobs, peerSeq, peerSent>>

\* The ready signal once more; its acknowledgment is a message of its own.
PeerRequestReady ==
  /\ PeerTakes({"request_ready"})
  /\ peerSeq' = NextPeerSeq
  /\ \/ /\ PeerSends(<<Msg("ready", NextPeerSeq, None)>>)
        /\ jobs' = jobs \cup {Head(toPlugin)}
     \/ /\ Cancellable
        /\ \E kind \in {"ready", "garbled"} : PeerSends(<<Msg(kind, NextPeerSeq, None)>>)
        /\ UNCHANGED jobs
     \/ Cancellable /\ UNCHANGED <<jobs, toHost>>
  /\ UNCHANGED <<peer, peerSent>>

PeerRequestReadyAck(m) ==
  /\ m.kind = "request_ready"
  /\ jobs' = jobs \ {m}
  /\ PeerReplies("request_ready_ack", m, Cancellable)
  /\ UNCHANGED <<peer, peerSeq, peerSent, toPlugin>>

\* Module.SendMessage and Module.SendErrorMessage, by the plugin's own code.
PeerNote(n) ==
  /\ peer # "off"
  /\ n \notin peerSent
  /\ peerSent' = peerSent \cup {n}
  /\ peerSeq' = NextPeerSeq
  /\ PeerSends(<<Msg(IF n \in PeerErrors THEN "error" ELSE "notify", NextPeerSeq, n)>>)
  /\ UNCHANGED <<peer, jobs, toPlugin>>

\* Module.SendRequest: its number is the clock's, and it returns at once.
PeerRequest(r) ==
  /\ peer # "off"
  /\ r \notin peerSent
  /\ peerSent' = peerSent \cup {r}
  /\ \E number \in ClockNumbers : PeerSends(<<Msg("plugin_request", number, r)>>)
  /\ UNCHANGED <<peer, peerSeq, jobs, toPlugin>>

\* The plugin's own code ends Listen, or has it refuse what comes.
PeerQuits ==
  /\ MayQuit
  /\ \/ peer = "serving" /\ peer' \in {"leaving", "forced"}
     \/ peer = "leaving" /\ peer' = "forced"
  /\ UNCHANGED <<jobs, peerSeq, peerSent, toPlugin, toHost>>

PeerListening ==
  \/ PeerReady \/ PeerAccepts \/ PeerRefuses \/ PeerDrops
  \/ PeerShutdown \/ PeerForced \/ PeerForceShutdown \/ PeerRequestReady
  \/ \E m \in jobs : PeerRequestReadyAck(m)
PeerWorking ==
  \/ \E m \in jobs : PeerFinishes(m)
  \/ \E n \in PeerNotes \cup PeerErrors : PeerNote(n)
  \/ \E r \in PeerRequests : PeerRequest(r)
  \/ PeerQuits

-----------------------------------------------------------------------------
(* A plugin by itself: what a host may do to it, and no more.               *)

HostSends ==
  /\ \E m \in ToPluginMsgs : toPlugin' = Append(toPlugin, m)
  /\ UNCHANGED <<peer, peerSeq, peerSent, jobs, toHost>>

HostTakes ==
  /\ toHost # <<>>
  /\ toHost' = Tail(toHost)
  /\ UNCHANGED <<peer, peerSeq, peerSent, jobs, toPlugin>>

PluginInit ==
  /\ peer = "starting"
  /\ peerSeq = 0
  /\ peerSent = {}
  /\ jobs = {}
  /\ toPlugin = <<>>
  /\ toHost = <<>>

PluginNext == PeerListening \/ PeerWorking \/ HostSends \/ HostTakes

PluginSpec == PluginInit /\ [][PluginNext]_pluginVars
=============================================================================
