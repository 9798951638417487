----------------------------- MODULE ModuleProps -----------------------------
(* What the Module promises to its host and to the plugin's own code.        *)
EXTENDS Module

Jobs == [msg : ToPluginMsgs, at : {"new", "running", "response", "error"}]

\* Every variable of Module.tla is of its type, and a write waits for room.
TypeOK ==
  /\ listen \in {"start", "select", "ack", "forceAck", "ready", "readyAck", "refuse",
                 "drain", "returned"}
  /\ hand \in ToPluginMsgs
  /\ {shutdown, force, cancelled, inputClosed} \subseteq BOOLEAN
  /\ ends \subseteq AppMay
  /\ graceful \in {"none", "waiting", "done"}
  /\ activeJobs \subseteq Jobs
  /\ sequence \in Ids
  /\ sent \subseteq PeerBodies
  /\ hostSent \subseteq HostMessages
  /\ input \in Seq(HostMessages)
  /\ output \in Seq(ToHostMsgs) /\ Len(output) <= OutCap
  /\ hostGot \subseteq ToHostMsgs

Elements(s) == {s[i] : i \in 1 .. Len(s)}
Answering == listen \in {"ack", "forceAck", "ready", "readyAck", "refuse"}
AtWork == {j.msg : j \in activeJobs} \cup (IF Answering THEN {hand} ELSE {})

\* A whole message under the number of m and about what m is about.
Answered(m) == \E r \in Elements(output) \cup hostGot :
  /\ r.kind \in AnswerKinds
  /\ r.seq = m.seq /\ r.body = m.body

\* As long as nobody forces the end or cancels the context: every message with a
\* readable header that Listen has taken has been answered, in full, or is being
\* worked on, until the graceful shutdown cancels listenCtx; and when it does so no
\* job is left.  So a graceful shutdown loses no accepted request and cuts no reply
\* short.  (A refusal after that cancel() may be lost: it is written with listenCtx.)
Accounted == ~force /\ ~ctxDone =>
  IF cancelled THEN activeJobs = {}
  ELSE \A m \in hostSent \ (Elements(input) \cup AtWork) : m.kind # "garbled" => Answered(m)

\* Once the goroutine of a graceful shutdown may be in activeJobs.Wait(), no job
\* is added: what Wait sees at zero stays at zero, whether the 100 ms it sleeps
\* first are enough or not.
NoAddDuringWait ==
  [][graceful # "none" => {j.msg : j \in activeJobs'} \subseteq {j.msg : j \in activeJobs}]_vars

-----------------------------------------------------------------------------
(* A Module is a plugin as Plugin.tla describes it.  A message Listen is        *)
(* answering is still to be taken, a request_ready whose ready signal is sent  *)
(* is still to be acknowledged.                                              *)

\* A shutdown by the host counts from its acknowledgment on.
ModulePeer ==
  IF listen = "start" THEN "starting"
  ELSE IF force \/ ctxDone THEN "forced"
  ELSE IF "Shutdown" \in ends \/ graceful # "none" THEN "leaving"
  ELSE "serving"

Due == IF listen = "readyAck" THEN {hand} ELSE {}
ModuleJobs == {m \in {j.msg : j \in activeJobs} : m.kind # "garbled"} \cup Due

Unanswered == IF listen \in {"ack", "forceAck", "ready", "refuse"} THEN <<hand>> ELSE <<>>
ModuleInput == Unanswered \o input

P == INSTANCE Plugin WITH
  MayQuit <- TRUE,
  peer <- ModulePeer,
  peerSeq <- sequence,
  peerSent <- sent,
  jobs <- ModuleJobs,
  toPlugin <- ModuleInput,
  toHost <- output

\* Module implements the plugin Loader.tla is checked with: whatever the
\* interleaving of Listen, its goroutines and the plugin's own code, the host
\* sees the replies Plugin.tla allows, and a reply is cut short only after a
\* forced end.
PluginSpec == P!PluginSpec

-----------------------------------------------------------------------------

\* If handlers return, a shutdown that has been acknowledged ends Listen.
ShutdownEnds == HandlersReturn => ((graceful = "waiting") ~> (listen = "returned"))

\* A forced shutdown, or the end of its context, ends Listen even if handlers do
\* not return.
ForceEnds == (force \/ ctxDone) ~> (listen = "returned")

\* While host and plugin both write on full pipes, Listen gets to every message
\* (the host sends finitely many): its own writes wait for the host, which
\* receives without writing.
InputDrains == []<>(input = <<>> \/ listen = "returned")

\* If handlers return, Listen returns when the host has closed the stream ("Channel
\* closed, exit gracefully").
ListenEnds == HandlersReturn => (inputClosed ~> (listen = "returned"))
=============================================================================
