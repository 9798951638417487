------------------------------- MODULE Module -------------------------------
(***************************************************************************)
(* The plugin side of plugin.go: lib/plugin's Module.  Listen is one        *)
(* goroutine; a goroutine runs processMessage for each message it accepts,  *)
(* one watches for the end of its context or a forced shutdown, one ends a  *)
(* graceful shutdown; the plugin's own code sends messages and may end      *)
(* Listen.  They share the two shutdown channels, activeJobs, listenCtx and *)
(* the multiplexer's writer.                                                *)
(*                                                                         *)
(* The host is the environment: it sends what HostMessages holds, as fast   *)
(* as there is room for it, and takes what it is sent.                      *)
(***************************************************************************)
EXTENDS Wire, FiniteSets

CONSTANTS
  HostMessages,  \* what the host may send, each once, in any order
  HostMax,       \* how many of them it sends at most
  AppMay,        \* what the plugin's code may do: "Shutdown", "ForceShutdown",
                 \* "cancel" the context it gave to Listen
  AppMax,        \* how much of that and of its messages it does at most
  InCap, OutCap  \* messages that pipes and channels hold, to and from Listen

ASSUME HostAssumption == HostMessages \subseteq ToPluginMsgs
ASSUME AppAssumption == AppMay \subseteq {"Shutdown", "ForceShutdown", "cancel"}
ASSUME MaxAssumption == HostMax \in Nat /\ AppMax \in Nat
ASSUME CapAssumption == InCap \in Nat \ {0} /\ OutCap \in Nat \ {0}

VARIABLES
  listen,              \* where Listen is
  hand,                \* the message it is answering itself
  shutdown, force,     \* shutdownChan, forceShutdownChan are closed
  ends,                \* what the plugin's code has done to end Listen
  cancelled,           \* cancel() has been called on listenCtx
  graceful,            \* the goroutine "shutdown" starts: "none", "waiting", "done"
  activeJobs,          \* messages of processMessage goroutines, and where they are
  sequence,            \* nodeAdapter.sequence
  sent,                \* what the plugin's code has sent
  hostSent, input, inputClosed,  \* from the host: sent, not taken, closed
  output, hostGot      \* to the host: not received; answers it has received

flagVars == <<shutdown, force, ends, cancelled, graceful>>
hostVars == <<hostSent, inputClosed, hostGot>>
vars == <<listen, hand, flagVars, activeJobs, sequence, sent, input, output, hostVars>>

NoHand == Msg("garbled", 0, None)
Job(m, at) == [msg |-> m, at |-> at]
ctxDone == "cancel" \in ends
listenDone == ctxDone \/ cancelled
AnswerKinds == {"shutdown_ack", "force_shutdown_ack", "request_ready_ack", "response", "error"}
Regular == {"request", "message", "garbled"}

Init ==
  /\ listen = "start"
  /\ hand = NoHand
  /\ shutdown = FALSE /\ force = FALSE /\ cancelled = FALSE
  /\ ends = {}
  /\ graceful = "none"
  /\ activeJobs = {}
  /\ sequence = 0
  /\ sent = {}
  /\ hostSent = {} /\ input = <<>> /\ inputClosed = FALSE
  /\ output = <<>> /\ hostGot = {}

-----------------------------------------------------------------------------
(* Writing.  A writer waits while the way to the host is full.              *)

\* The same, on a pipe that never fills.
EmitsAlways(m) == output' = Append(output, m)

Emits(m) == Len(output) < OutCap /\ output' = Append(output, m)

\* A write whose context is done may still send the message, or a beginning of
\* it, before it fails.
Aborts(kind, seq, body) ==
  \/ Emits(Msg(kind, seq, body))
  \/ Emits(Msg("garbled", seq, body))
  \/ UNCHANGED output

\* A reply to m, with a context that may be done; errors are ignored.
Replies(kind, m, done) ==
  \/ Emits(Msg(kind, m.seq, m.body))
  \/ done /\ Aborts(kind, m.seq, m.body)

NextSequence == (sequence + 1) % IdSpace
SendReady(done, then, failed) ==
  /\ sequence' = NextSequence
  /\ \/ Emits(Msg("ready", NextSequence, None)) /\ listen' = then
     \/ done /\ Aborts("ready", NextSequence, None) /\ listen' = failed

-----------------------------------------------------------------------------
(* Listen.                                                                  *)

ListenStart ==
  /\ listen = "start"
  /\ SendReady(ctxDone, "select", "returned")
  /\ UNCHANGED <<hand, flagVars, activeJobs, input>>

Takes(kinds) ==
  /\ listen = "select"
  /\ input # <<>>
  /\ Head(input).kind \in kinds
  /\ input' = Tail(input)

\* The first look at IsForceShutdown: the message is dropped.  Returning
\* cancels listenCtx.
ListenDrops ==
  /\ Takes(ToPluginKinds)
  /\ force
  /\ listen' = "returned"
  /\ cancelled' = TRUE
  /\ UNCHANGED <<hand, shutdown, force, ends, graceful, activeJobs, sequence, output>>

\* A message Listen answers itself, and where it does so.
Holds(kinds, at) ==
  /\ Takes(kinds)
  /\ ~force
  /\ hand' = Head(input)
  /\ listen' = at
  /\ UNCHANGED <<ends, cancelled, graceful, activeJobs, sequence, output>>

ListenHolds ==
  \/ Holds({"shutdown"}, "ack") /\ shutdown' = TRUE /\ UNCHANGED force
  \/ Holds({"force_shutdown"}, "forceAck") /\ force' = TRUE /\ UNCHANGED shutdown
  \/ Holds({"request_ready"}, "ready") /\ UNCHANGED <<shutdown, force>>
  \/ Holds(Regular, "refuse") /\ shutdown /\ UNCHANGED <<shutdown, force>>

Answers(at, kind, then) ==
  /\ listen = at
  /\ Replies(kind, hand, listenDone)
  /\ listen' = then
  /\ hand' = NoHand
  /\ UNCHANGED <<shutdown, force, ends, activeJobs, sequence, input>>

\* What Listen sends itself.  After "shutdown" the waiting goroutine starts;
\* after "force_shutdown" Listen returns.
ListenAnswers ==
  \/ Answers("ack", "shutdown_ack", "select") /\ graceful' = "waiting" /\ UNCHANGED cancelled
  \/ Answers("forceAck", "force_shutdown_ack", "returned") /\ cancelled' = TRUE /\ UNCHANGED graceful
  \/ Answers("readyAck", "request_ready_ack", "select") /\ UNCHANGED <<cancelled, graceful>>
  \/ Answers("refuse", "error", "select") /\ UNCHANGED <<cancelled, graceful>>

\* The acknowledgment of "request_ready" is for a ready signal that was sent.
ListenReadyAgain ==
  /\ listen = "ready"
  /\ SendReady(listenDone, "readyAck", "select")
  /\ hand' = IF listen' = "readyAck" THEN hand ELSE NoHand
  /\ UNCHANGED <<flagVars, activeJobs, input>>

\* The same without the look at IsShutdown.
ListenAcceptsAlways ==
  /\ Takes(Regular)
  /\ ~force
  /\ activeJobs' = activeJobs \cup {Job(Head(input), "new")}
  /\ UNCHANGED <<listen, hand, flagVars, sequence, output>>

\* activeJobs.Add and a goroutine for processMessage.
ListenAccepts ==
  /\ Takes(Regular)
  /\ ~force /\ ~shutdown
  /\ activeJobs' = activeJobs \cup {Job(Head(input), "new")}
  /\ UNCHANGED <<listen, hand, flagVars, sequence, output>>

\* The same without the timeout.
ListenLeavesPatient ==
  /\ \/ listen = "select" /\ listenDone /\ listen' = "drain" /\ UNCHANGED cancelled
     \/ listen = "drain" /\ activeJobs = {} /\ listen' = "returned" /\ cancelled' = TRUE
  /\ UNCHANGED <<hand, shutdown, force, ends, graceful, activeJobs, sequence,
                 input, output>>

\* case <-listenCtx.Done(); then activeJobs, or 5 seconds.
ListenLeaves ==
  /\ \/ listen = "select" /\ listenDone /\ listen' = "drain" /\ UNCHANGED cancelled
     \/ listen = "drain" /\ listen' = "returned" /\ cancelled' = TRUE
  /\ UNCHANGED <<hand, shutdown, force, ends, graceful, activeJobs, sequence,
                 input, output>>

\* A closed recv is received from again and again: the break at the top of the
\* case leaves the select and not the loop.
ListenStep ==
  /\ \/ ListenStart \/ ListenDrops \/ ListenHolds \/ ListenAnswers
     \/ ListenReadyAgain \/ ListenAccepts \/ ListenLeaves
  /\ UNCHANGED <<sent, hostVars>>

-----------------------------------------------------------------------------
(* The goroutines Listen starts.                                            *)

\* On forceShutdownChan or the end of the context: cancel().
WatcherStep ==
  /\ listen # "start"
  /\ force \/ ctxDone
  /\ ~cancelled
  /\ cancelled' = TRUE
  /\ UNCHANGED <<listen, hand, shutdown, force, ends, graceful, activeJobs,
                 sequence, sent, input, output, hostVars>>

\* The same without activeJobs.Wait().
GracefulStepEarly ==
  /\ graceful = "waiting"
  /\ graceful' = "done"
  /\ cancelled' = TRUE
  /\ UNCHANGED <<listen, hand, shutdown, force, ends, activeJobs, sequence,
                 sent, input, output, hostVars>>

\* The same without cancel().
GracefulStepSilent ==
  /\ graceful = "waiting"
  /\ activeJobs = {} \/ force
  /\ graceful' = "done"
  /\ UNCHANGED <<listen, hand, shutdown, force, ends, cancelled, activeJobs,
                 sequence, sent, input, output, hostVars>>

\* activeJobs.Wait() or forceShutdownChan; then cancel().
GracefulStep ==
  /\ graceful = "waiting"
  /\ activeJobs = {} \/ force
  /\ graceful' = "done"
  /\ cancelled' = TRUE
  /\ UNCHANGED <<listen, hand, shutdown, force, ends, activeJobs, sequence,
                 sent, input, output, hostVars>>

\* processMessage: an unreadable header ends it; a forced shutdown, or a name
\* without a handler, makes it an Error.
JobStarts(j) ==
  /\ j.at = "new"
  /\ LET nexts == IF j.msg.kind = "garbled" THEN {}
                  ELSE IF force THEN {"error"} ELSE {"running", "error"} IN
       \/ nexts = {} /\ activeJobs' = activeJobs \ {j}
       \/ \E at \in nexts : activeJobs' = (activeJobs \ {j}) \cup {Job(j.msg, at)}
  /\ UNCHANGED output

\* The handler returns.
JobHandled(j) ==
  /\ j.at = "running"
  /\ \E at \in {"response", "error"} : activeJobs' = (activeJobs \ {j}) \cup {Job(j.msg, at)}
  /\ UNCHANGED output

\* The reply, then activeJobs.Done().
JobReplies(j) ==
  /\ j.at \in {"response", "error"}
  /\ Replies(j.at, j.msg, listenDone)
  /\ activeJobs' = activeJobs \ {j}

JobFrame == UNCHANGED <<listen, hand, flagVars, sequence, sent, input, hostVars>>
JobStep == (\E j \in activeJobs : JobStarts(j) \/ JobReplies(j)) /\ JobFrame
HandlerReturns == (\E j \in activeJobs : JobHandled(j)) /\ JobFrame

-----------------------------------------------------------------------------
(* The plugin's own code.                                                   *)

AppCan == Cardinality(ends) + Cardinality(sent) < AppMax

\* Shutdown, ForceShutdown, the end of the context.
AppEnds ==
  /\ AppCan
  /\ \E how \in AppMay \ ends :
       /\ ends' = ends \cup {how}
       /\ shutdown' = (shutdown \/ how = "Shutdown")
       /\ force' = (force \/ how = "ForceShutdown")
  /\ UNCHANGED <<listen, hand, cancelled, graceful, activeJobs, sequence, sent, input,
                 output, hostVars>>

\* SendMessage, SendErrorMessage.
AppSends(n) ==
  /\ sequence' = NextSequence
  /\ Emits(Msg(IF n \in PeerErrors THEN "error" ELSE "notify", NextSequence, n))

\* SendRequest: generateSequenceID, one write, and an error whatever happens.
AppRequests(r) ==
  /\ \E number \in ClockNumbers : Emits(Msg("plugin_request", number, r))
  /\ UNCHANGED sequence

AppStep ==
  /\ AppCan
  /\ \E b \in PeerBodies \ sent :
       /\ sent' = sent \cup {b}
       /\ IF b \in PeerRequests THEN AppRequests(b) ELSE AppSends(b)
  /\ UNCHANGED <<listen, hand, flagVars, activeJobs, input, hostVars>>

-----------------------------------------------------------------------------
(* The host.                                                                *)

HostSends ==
  /\ ~inputClosed
  /\ Cardinality(hostSent) < HostMax
  /\ Len(input) < InCap
  /\ \E m \in HostMessages \ hostSent :
       /\ hostSent' = hostSent \cup {m}
       /\ input' = Append(input, m)
  /\ UNCHANGED <<listen, hand, flagVars, activeJobs, sequence, sent, inputClosed,
                 output, hostGot>>

\* Its process ends, or closes the plugin's stdin.
HostCloses ==
  /\ ~inputClosed
  /\ inputClosed' = TRUE
  /\ UNCHANGED <<listen, hand, flagVars, activeJobs, sequence, sent, hostSent, input,
                 output, hostGot>>

\* The same, from a goroutine that has something to write itself.
HostReceivesInline ==
  /\ output # <<>>
  /\ Len(input) < InCap
  /\ output' = Tail(output)
  /\ hostGot' = hostGot \cup {m \in {Head(output)} : m.kind \in AnswerKinds}
  /\ UNCHANGED <<listen, hand, flagVars, activeJobs, sequence, sent, hostSent,
                 inputClosed, input>>

\* handleMessages takes a message; it never writes one itself.
HostReceives ==
  /\ output # <<>>
  /\ output' = Tail(output)
  /\ hostGot' = hostGot \cup {m \in {Head(output)} : m.kind \in AnswerKinds}
  /\ UNCHANGED <<listen, hand, flagVars, activeJobs, sequence, sent, hostSent,
                 inputClosed, input>>

-----------------------------------------------------------------------------
Next ==
  \/ ListenStep \/ WatcherStep \/ GracefulStep
  \/ JobStep \/ HandlerReturns
  \/ AppEnds \/ AppStep
  \/ HostSends \/ HostCloses \/ HostReceives

\* Goroutines that can run do run, timers fire, and the host keeps receiving.
\* Nothing forces a handler to return, the plugin's code to do anything or the
\* host to send or close.
Fairness ==
  /\ WF_vars(ListenStep) /\ WF_vars(WatcherStep) /\ WF_vars(GracefulStep)
  /\ WF_vars(JobStep)
  /\ WF_vars(HostReceives)

\* Every handler returns.
HandlersReturn == WF_vars(HandlerReturns)

Spec == Init /\ [][Next]_vars
FairSpec == Spec /\ Fairness
=============================================================================
