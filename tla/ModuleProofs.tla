---------------------------- MODULE ModuleProofs ----------------------------
(* Proofs about Module.tla, for every value of its constants.                *)
EXTENDS ModuleProps, SequenceTheorems, TLAPS

-----------------------------------------------------------------------------
(* Sequences as the sets of their elements.                                 *)

\* What is put at the end of a queue is in it.
LEMMA ElementsAppend ==
  ASSUME NEW S, NEW s \in Seq(S), NEW e \in S
  PROVE  Elements(Append(s, e)) = Elements(s) \cup {e}
<1>1. Len(Append(s, e)) = Len(s) + 1 /\ Len(s) \in Nat
  BY AppendProperties, LenProperties
<1>2. \A i \in 1 .. Len(s) : Append(s, e)[i] = s[i]
  BY AppendProperties
<1>3. Append(s, e)[Len(s) + 1] = e
  BY AppendProperties
<1>4. 1 .. Len(s) + 1 = (1 .. Len(s)) \cup {Len(s) + 1}
  BY <1>1
<1> QED BY <1>1, <1>2, <1>3, <1>4 DEF Elements

\* A queue is its first element and the rest.
LEMMA ElementsTail ==
  ASSUME NEW S, NEW s \in Seq(S), s # <<>>
  PROVE  /\ Elements(s) = {Head(s)} \cup Elements(Tail(s))
         /\ Head(s) \in S /\ Tail(s) \in Seq(S)
<1>1. /\ Head(s) \in S /\ Tail(s) \in Seq(S) /\ Head(s) = s[1]
      /\ Len(s) \in Nat \ {0} /\ Len(Tail(s)) = Len(s) - 1
      /\ \A i \in 1 .. Len(Tail(s)) : Tail(s)[i] = s[i + 1]
  BY HeadTailProperties, LenProperties, EmptySeq
<1>2. Elements(s) \subseteq {Head(s)} \cup Elements(Tail(s))
  <2> SUFFICES ASSUME NEW i \in 1 .. Len(s), i # 1
               PROVE  s[i] \in Elements(Tail(s))
    BY <1>1 DEF Elements
  <2>1. i - 1 \in 1 .. Len(Tail(s)) /\ (i - 1) + 1 = i
    BY <1>1
  <2> QED BY <1>1, <2>1 DEF Elements
<1>3. {Head(s)} \cup Elements(Tail(s)) \subseteq Elements(s)
  <2>1. 1 \in 1 .. Len(s)
    BY <1>1
  <2>2. \A i \in 1 .. Len(Tail(s)) : i + 1 \in 1 .. Len(s)
    BY <1>1
  <2> QED BY <1>1, <2>1, <2>2 DEF Elements
<1> QED BY <1>1, <1>2, <1>3

-----------------------------------------------------------------------------
(* Type correctness.                                                         *)

OutputOK == output \in Seq(ToHostMsgs) /\ Len(output) <= OutCap

\* A message put together from its parts is one.
LEMMA MsgTypes ==
  ASSUME NEW n \in Ids, NEW b \in Bodies \cup {None}
  PROVE  /\ \A kind \in ToHostKinds : Msg(kind, n, b) \in ToHostMsgs
         /\ \A kind \in ToPluginKinds : Msg(kind, n, b) \in ToPluginMsgs
BY DEF Msg, ToHostMsgs, ToPluginMsgs

LEMMA NoHandType == NoHand \in ToPluginMsgs
<1>1. 0 \in Ids
  BY SpaceAssumption DEF Ids
<1> QED BY <1>1, MsgTypes DEF NoHand, ToPluginKinds

\* A write (nodeAdapter and the node behind it) appends one message if there is
\* room.
LEMMA EmitsType ==
  ASSUME OutputOK, NEW m \in ToHostMsgs, Emits(m)
  PROVE  OutputOK' /\ Elements(output') = Elements(output) \cup {m}
<1>1. /\ output' = Append(output, m) /\ Len(output) < OutCap
      /\ output \in Seq(ToHostMsgs)
  BY DEF Emits, OutputOK
<1>2. output' \in Seq(ToHostMsgs) /\ Len(output') = Len(output) + 1 /\ Len(output) \in Nat
  BY <1>1, AppendProperties, LenProperties
<1>3. Len(output') <= OutCap
  BY <1>1, <1>2, CapAssumption
<1>4. Elements(output') = Elements(output) \cup {m}
  BY <1>1, ElementsAppend
<1> QED BY <1>2, <1>3, <1>4 DEF OutputOK

\* The output only grows, by messages.
Grows == OutputOK' /\ Elements(output) \subseteq Elements(output')

\* A write with a context that is done.
LEMMA AbortsType ==
  ASSUME OutputOK, NEW kind \in ToHostKinds, NEW n \in Ids, NEW b \in Bodies \cup {None},
         Aborts(kind, n, b)
  PROVE  Grows
<1>1. Msg(kind, n, b) \in ToHostMsgs /\ Msg("garbled", n, b) \in ToHostMsgs
  BY MsgTypes DEF ToHostKinds
<1>2. CASE UNCHANGED output
  BY <1>2 DEF Grows, OutputOK, Elements
<1> QED BY <1>1, <1>2, EmitsType DEF Aborts, Grows

\* A reply: with a context that is not done, the whole of it.
LEMMA RepliesType ==
  ASSUME OutputOK, NEW kind \in ToHostKinds, NEW m \in ToPluginMsgs, NEW done,
         Replies(kind, m, done)
  PROVE  /\ Grows
         /\ ~done => Msg(kind, m.seq, m.body) \in Elements(output')
<1>1. m.seq \in Ids /\ m.body \in Bodies \cup {None}
  BY DEF ToPluginMsgs
<1>2. Msg(kind, m.seq, m.body) \in ToHostMsgs
  BY <1>1, MsgTypes
<1>3. CASE Emits(Msg(kind, m.seq, m.body))
  BY <1>2, <1>3, EmitsType DEF Grows
<1>4. CASE done /\ Aborts(kind, m.seq, m.body)
  BY <1>1, <1>4, AbortsType
<1> QED BY <1>3, <1>4 DEF Replies

\* Numbers of the adapter, Module.SendReady.
LEMMA SequenceType == sequence \in Ids => NextSequence \in Ids
BY SpaceAssumption DEF NextSequence, Ids

LEMMA SendReadyType ==
  ASSUME OutputOK, sequence \in Ids, NEW done, NEW then, NEW failed,
         SendReady(done, then, failed)
  PROVE  /\ Grows /\ sequence' \in Ids
         /\ listen' = then \/ (done /\ listen' = failed)
<1>1. NextSequence \in Ids
  BY SequenceType
<1>2. Msg("ready", NextSequence, None) \in ToHostMsgs
  BY <1>1, MsgTypes DEF ToHostKinds
<1>3. CASE Emits(Msg("ready", NextSequence, None)) /\ listen' = then
  BY <1>1, <1>2, <1>3, EmitsType DEF Grows, SendReady
<1>4. CASE done /\ Aborts("ready", NextSequence, None) /\ listen' = failed
  BY <1>1, <1>4, AbortsType DEF SendReady, ToHostKinds
<1> QED BY <1>3, <1>4 DEF SendReady

-----------------------------------------------------------------------------
\* TypeOK says what OutputOK does.
LEMMA TypeOutput == TypeOK <=> (TypeOK /\ OutputOK)
BY DEF TypeOK, OutputOK

\* A message taken from the host is one the host may send.
LEMMA TakesType ==
  ASSUME TypeOK, NEW kinds, Takes(kinds)
  PROVE  /\ Head(input) \in HostMessages /\ Head(input) \in ToPluginMsgs
         /\ input' \in Seq(HostMessages)
         /\ Elements(input) = {Head(input)} \cup Elements(input')
<1>1. input \in Seq(HostMessages) /\ input # <<>> /\ input' = Tail(input)
  BY DEF TypeOK, Takes
<1> QED BY <1>1, ElementsTail, HostAssumption

\* What Listen answers itself: the whole reply unless its context is done.
LEMMA AnswersType ==
  ASSUME TypeOK, NEW at, NEW kind \in ToHostKinds, NEW then, Answers(at, kind, then)
  PROVE  /\ Grows
         /\ ~listenDone => Msg(kind, hand.seq, hand.body) \in Elements(output')
<1>1. hand \in ToPluginMsgs /\ OutputOK /\ Replies(kind, hand, listenDone)
  BY DEF TypeOK, OutputOK, Answers
<1> QED BY <1>1, RepliesType

\* Listen keeps its variables in their types.
LEMMA ListenType == TypeOK /\ ListenStep => TypeOK'
<1> SUFFICES ASSUME TypeOK, ListenStep PROVE TypeOK'
  OBVIOUS
<1>0. OutputOK /\ UNCHANGED <<sent, hostVars>>
  BY DEF TypeOK, OutputOK, ListenStep
<1>1. CASE ListenStart
  <2>1. Grows /\ sequence' \in Ids /\ listen' \in {"select", "returned"}
    BY <1>0, <1>1, SendReadyType DEF ListenStart, TypeOK
  <2> QED BY <1>0, <1>1, <2>1 DEF ListenStart, TypeOK, Grows, OutputOK, hostVars, flagVars
<1>2. CASE ListenDrops
  <2>1. input' \in Seq(HostMessages)
    BY <1>2, TakesType DEF ListenDrops
  <2> QED BY <1>0, <1>2, <2>1 DEF ListenDrops, TypeOK, hostVars
<1>3. CASE ListenHolds
  <2>1. \E kinds : Takes(kinds) /\ hand' = Head(input)
    BY <1>3 DEF ListenHolds, Holds
  <2>2. input' \in Seq(HostMessages) /\ hand' \in ToPluginMsgs
    BY <2>1, TakesType
  <2> QED BY <1>0, <1>3, <2>2 DEF ListenHolds, Holds, TypeOK, hostVars
<1>4. CASE ListenAnswers
  <2>1. Grows
    BY <1>4, AnswersType DEF ListenAnswers, ToHostKinds
  <2> QED BY <1>0, <1>4, <2>1, NoHandType
      DEF ListenAnswers, Answers, TypeOK, Grows, OutputOK, hostVars
<1>5. CASE ListenReadyAgain
  <2>1. Grows /\ sequence' \in Ids /\ listen' \in {"readyAck", "select"}
    BY <1>0, <1>5, SendReadyType DEF ListenReadyAgain, TypeOK
  <2>2. hand' \in ToPluginMsgs
    BY <1>5, NoHandType DEF ListenReadyAgain, TypeOK
  <2> QED BY <1>0, <1>5, <2>1, <2>2
      DEF ListenReadyAgain, TypeOK, Grows, OutputOK, hostVars, flagVars
<1>6. CASE ListenAccepts
  <2>1. input' \in Seq(HostMessages) /\ Job(Head(input), "new") \in Jobs
    BY <1>6, TakesType DEF ListenAccepts, Job, Jobs
  <2> QED BY <1>0, <1>6, <2>1 DEF ListenAccepts, TypeOK, hostVars, flagVars
<1>7. CASE ListenLeaves
  BY <1>0, <1>7 DEF ListenLeaves, TypeOK, hostVars
<1> QED BY <1>1, <1>2, <1>3, <1>4, <1>5, <1>6, <1>7 DEF ListenStep

\* So do the goroutines it starts.
LEMMA JobsType ==
  ASSUME TypeOK, NEW j \in activeJobs, JobStarts(j) \/ JobReplies(j) \/ JobHandled(j), JobFrame
  PROVE  TypeOK' /\ Grows
<1>0. OutputOK /\ j \in Jobs /\ j.msg \in ToPluginMsgs
      /\ \A at \in {"new", "running", "response", "error"} : Job(j.msg, at) \in Jobs
  BY DEF TypeOK, OutputOK, Jobs, Job
<1>1. Grows
  <2>1. CASE JobReplies(j)
    BY <1>0, <2>1, RepliesType DEF JobReplies, ToHostKinds
  <2>2. CASE UNCHANGED output
    BY <1>0, <2>2 DEF Grows, OutputOK, Elements
  <2> QED BY <2>1, <2>2 DEF JobStarts, JobHandled
<1>2. activeJobs' \subseteq Jobs
  BY <1>0 DEF JobStarts, JobReplies, JobHandled, TypeOK
<1> QED BY <1>1, <1>2 DEF JobFrame, TypeOK, Grows, OutputOK, hostVars, flagVars

\* What the plugin's code sends is a message, whatever its clock says.
LEMMA AppType ==
  ASSUME TypeOK, AppStep
  PROVE  TypeOK' /\ Grows
<1>1. PICK b \in PeerBodies \ sent :
        /\ sent' = sent \cup {b}
        /\ IF b \in PeerRequests THEN AppRequests(b) ELSE AppSends(b)
  BY DEF AppStep
<1>2. OutputOK /\ b \in Bodies \cup {None} /\ NextSequence \in Ids
  BY SequenceType DEF TypeOK, OutputOK, Bodies
<1>3. Grows /\ sequence' \in Ids
  <2>1. CASE AppRequests(b)
    <3>1. PICK number \in ClockNumbers : Emits(Msg("plugin_request", number, b))
      BY <2>1 DEF AppRequests
    <3>2. Msg("plugin_request", number, b) \in ToHostMsgs
      BY <1>2, MsgTypes, ClockAssumption DEF ToHostKinds
    <3> QED BY <1>2, <2>1, <3>1, <3>2, EmitsType DEF AppRequests, Grows, TypeOK
  <2>2. CASE AppSends(b)
    <3>1. \A kind \in {"error", "notify"} : Msg(kind, NextSequence, b) \in ToHostMsgs
      BY <1>2, MsgTypes DEF ToHostKinds
    <3> QED BY <1>2, <2>2, <3>1, EmitsType DEF AppSends, Grows
  <2> QED BY <1>1, <2>1, <2>2
<1> QED BY <1>1, <1>3 DEF AppStep, TypeOK, Grows, OutputOK, hostVars, flagVars

\* The host sends what it may and receives from the front.
LEMMA HostType ==
  ASSUME TypeOK, HostSends \/ HostCloses \/ HostReceives
  PROVE  TypeOK'
<1>1. CASE HostSends
  <2>1. PICK m \in HostMessages \ hostSent :
          hostSent' = hostSent \cup {m} /\ input' = Append(input, m)
    BY <1>1 DEF HostSends
  <2>2. input' \in Seq(HostMessages)
    BY <2>1, AppendProperties DEF TypeOK
  <2> QED BY <1>1, <2>1, <2>2 DEF HostSends, TypeOK, flagVars
<1>2. CASE HostCloses
  BY <1>2 DEF HostCloses, TypeOK, flagVars
<1>3. CASE HostReceives
  <2>1. output # <<>> /\ output \in Seq(ToHostMsgs) /\ output' = Tail(output)
    BY <1>3 DEF HostReceives, TypeOK
  <2>2. Head(output) \in ToHostMsgs /\ output' \in Seq(ToHostMsgs)
        /\ Len(output') = Len(output) - 1 /\ Len(output) \in Nat
    BY <2>1, HeadTailProperties, LenProperties, EmptySeq
  <2>3. Len(output') <= OutCap
    BY <2>2, CapAssumption DEF TypeOK
  <2> QED BY <1>3, <2>2, <2>3 DEF HostReceives, TypeOK, flagVars
<1> QED BY <1>1, <1>2, <1>3

LEMMA TypeInit == Init => TypeOK
<1> SUFFICES ASSUME Init PROVE TypeOK
  OBVIOUS
<1>1. 0 \in Ids
  BY SpaceAssumption DEF Ids
<1>2. input \in Seq(HostMessages) /\ output \in Seq(ToHostMsgs) /\ Len(output) = 0
  BY EmptySeq DEF Init
<1>3. Len(output) <= OutCap
  BY <1>2, CapAssumption
<1> QED BY <1>1, <1>2, <1>3, NoHandType DEF Init, TypeOK

LEMMA TypeNext == TypeOK /\ [Next]_vars => TypeOK'
<1> SUFFICES ASSUME TypeOK, [Next]_vars PROVE TypeOK'
  OBVIOUS
<1>1. CASE ListenStep
  BY <1>1, ListenType
<1>2. CASE WatcherStep
  BY <1>2 DEF WatcherStep, TypeOK, hostVars
<1>3. CASE GracefulStep
  BY <1>3 DEF GracefulStep, TypeOK, hostVars
<1>4. CASE JobStep \/ HandlerReturns
  BY <1>4, JobsType DEF JobStep, HandlerReturns
<1>5. CASE AppEnds
  BY <1>5 DEF AppEnds, TypeOK, hostVars
<1>6. CASE AppStep
  BY <1>6, AppType
<1>7. CASE HostSends \/ HostCloses \/ HostReceives
  BY <1>7, HostType
<1>8. CASE UNCHANGED vars
  BY <1>8 DEF vars, TypeOK, hostVars, flagVars
<1> QED BY <1>1, <1>2, <1>3, <1>4, <1>5, <1>6, <1>7, <1>8 DEF Next

\* TypeOK in every reachable state of the Module: every variable has its type, a
\* number of nodeAdapter's fits in 32 bits, and no write goes past the room there
\* is on the way to the host.
THEOREM TypeCorrect == Spec => []TypeOK
<1>1. Init => TypeOK
  BY TypeInit
<1>2. TypeOK /\ [Next]_vars => TypeOK'
  BY TypeNext
<1> QED BY <1>1, <1>2, PTL DEF Spec

-----------------------------------------------------------------------------
(* No message is lost without an answer.                                     *)

\* What Listen has taken and nobody works on.
Gone == hostSent \ (Elements(input) \cup AtWork)

\* A step that keeps the promises: it loses no answer, and what it is done with it
\* has answered.
Keeps == \A m : /\ Answered(m) => Answered(m)'
                /\ m \in Gone' /\ m.kind # "garbled" => m \in Gone \/ Answered(m)'

\* Answers that were written stay, as long as the host takes none.
LEMMA AnswersStay ==
  ASSUME Elements(output) \subseteq Elements(output'), UNCHANGED hostGot
  PROVE  \A m : Answered(m) => Answered(m)'
BY DEF Answered

\* A whole reply answers.
LEMMA ReplyAnswers ==
  ASSUME NEW m, NEW kind \in AnswerKinds, Msg(kind, m.seq, m.body) \in Elements(output')
  PROVE  Answered(m)'
BY DEF Answered, Msg

\* Listen, with a context that is not done.
LEMMA ListenKeeps ==
  ASSUME TypeOK, ListenStep, ~force', ~cancelled', ~listenDone
  PROVE  Keeps
<1>0. UNCHANGED hostSent /\ UNCHANGED hostGot /\ OutputOK
  BY DEF ListenStep, hostVars, TypeOK, OutputOK
<1>1. CASE ListenStart
  <2>1. Grows /\ listen' \in {"select", "returned"}
    BY <1>0, <1>1, SendReadyType DEF ListenStart, TypeOK
  <2>2. Gone' = Gone
    BY <1>0, <1>1, <2>1 DEF ListenStart, Gone, AtWork, Answering, Elements
  <2> QED BY <1>0, <2>1, <2>2, AnswersStay DEF Keeps, Grows
<1>2. CASE ListenDrops
  BY <1>2 DEF ListenDrops
<1>3. CASE ListenHolds
  <2>1. PICK kinds : Takes(kinds) /\ hand' = Head(input)
    BY <1>3 DEF ListenHolds, Holds
  <2>2. /\ UNCHANGED <<activeJobs, output>>
        /\ listen = "select" /\ listen' \in {"ack", "forceAck", "ready", "refuse"}
    BY <1>3 DEF ListenHolds, Holds, Takes
  <2>3. Gone' \subseteq Gone
    BY <1>0, <2>1, <2>2, TakesType DEF Gone, AtWork, Answering
  <2> QED BY <1>0, <2>2, <2>3, AnswersStay DEF Keeps, Elements
<1>4. CASE ListenAnswers
  <2>1. PICK at \in {"ack", "forceAck", "readyAck", "refuse"}, kind \in AnswerKinds,
             then \in {"select", "returned"} : Answers(at, kind, then)
    BY <1>4 DEF ListenAnswers, AnswerKinds
  <2>2. kind \in ToHostKinds
    BY DEF AnswerKinds, ToHostKinds
  <2>3. PICK h : h = hand
    OBVIOUS
  <2>4. Grows /\ Msg(kind, h.seq, h.body) \in Elements(output')
    BY <2>1, <2>2, <2>3, AnswersType
  <2>5. Answered(h)'
    BY <2>4, ReplyAnswers
  <2>6. Gone' \subseteq Gone \cup {h}
    BY <1>0, <2>1, <2>3 DEF Answers, Gone, AtWork, Elements
  <2> QED BY <1>0, <2>4, <2>5, <2>6, AnswersStay DEF Keeps, Grows
<1>5. CASE ListenReadyAgain
  <2>1. /\ Grows /\ listen = "ready" /\ listen' = "readyAck" /\ hand' = hand
        /\ UNCHANGED <<activeJobs, input>>
    BY <1>0, <1>5, SendReadyType DEF ListenReadyAgain, TypeOK
  <2>2. Gone' = Gone
    BY <1>0, <2>1 DEF Gone, AtWork, Answering, Elements
  <2> QED BY <1>0, <2>1, <2>2, AnswersStay DEF Keeps, Grows
<1>6. CASE ListenAccepts
  <2>1. PICK j : j = Job(Head(input), "new")
    OBVIOUS
  <2>2. /\ activeJobs' = activeJobs \cup {j} /\ j.msg = Head(input)
        /\ UNCHANGED <<listen, hand, output>> /\ Takes(Regular)
    BY <1>6, <2>1 DEF ListenAccepts, Job
  <2>3. AtWork' = AtWork \cup {j.msg}
    BY <2>2 DEF AtWork, Answering
  <2>4. Gone' \subseteq Gone
    BY <1>0, <2>2, <2>3, TakesType DEF Gone
  <2> QED BY <1>0, <2>2, <2>4, AnswersStay DEF Keeps, Elements
<1>7. CASE ListenLeaves
  <2>1. Gone' = Gone
    BY <1>0, <1>7 DEF ListenLeaves, Gone, AtWork, Answering, Elements
  <2> QED BY <1>0, <1>7, <2>1, AnswersStay DEF ListenLeaves, Keeps, Elements
<1> QED BY <1>1, <1>2, <1>3, <1>4, <1>5, <1>6, <1>7 DEF ListenStep

\* A job is done with its message only when it has replied.
LEMMA JobsKeep ==
  ASSUME TypeOK, NEW j \in activeJobs, JobStarts(j) \/ JobReplies(j) \/ JobHandled(j),
         JobFrame, ~listenDone
  PROVE  Keeps
<1>0. /\ UNCHANGED <<hostSent, hostGot, listen, hand, input>> /\ Grows /\ OutputOK
      /\ j \in Jobs /\ j.msg \in ToPluginMsgs
  BY JobsType DEF JobFrame, hostVars, TypeOK, OutputOK, Jobs
<1>1. \A m : m \in AtWork /\ m # j.msg => m \in AtWork'
  <2>1. activeJobs \ {j} \subseteq activeJobs'
    BY DEF JobStarts, JobReplies, JobHandled
  <2> QED BY <1>0, <2>1 DEF AtWork, Answering
<1>2. j.msg \in AtWork' \/ j.msg.kind = "garbled" \/ Answered(j.msg)'
  <2>1. CASE JobReplies(j)
    <3>1. Replies(j.at, j.msg, listenDone) /\ j.at \in ToHostKinds /\ j.at \in AnswerKinds
      BY <2>1 DEF JobReplies, ToHostKinds, AnswerKinds
    <3>2. Msg(j.at, j.msg.seq, j.msg.body) \in Elements(output')
      BY <1>0, <3>1, RepliesType
    <3> QED BY <3>1, <3>2, ReplyAnswers
  <2>2. CASE \E at : activeJobs' = (activeJobs \ {j}) \cup {Job(j.msg, at)}
    <3>1. PICK at, k : activeJobs' = (activeJobs \ {j}) \cup {k} /\ k = Job(j.msg, at)
      BY <2>2
    <3>2. k.msg = j.msg
      BY <3>1 DEF Job
    <3> QED BY <3>1, <3>2 DEF AtWork
  <2>3. CASE JobStarts(j) \/ JobHandled(j)
    BY <2>2, <2>3 DEF JobStarts, JobHandled
  <2> QED BY <2>1, <2>3
<1>3. Gone' \subseteq Gone \cup {j.msg} /\ (j.msg \in Gone' => j.msg \notin AtWork')
  BY <1>0, <1>1 DEF Gone, Elements
<1> QED BY <1>0, <1>2, <1>3, AnswersStay DEF Keeps, Grows

\* What the host receives it has got; what it sends is on its way.
LEMMA HostKeeps ==
  ASSUME TypeOK, HostSends \/ HostCloses \/ HostReceives
  PROVE  Keeps
<1>0. UNCHANGED <<listen, hand, activeJobs>>
  BY DEF HostSends, HostCloses, HostReceives
<1>1. CASE HostSends
  <2>1. PICK m \in HostMessages \ hostSent :
          hostSent' = hostSent \cup {m} /\ input' = Append(input, m)
    BY <1>1 DEF HostSends
  <2>2. Elements(input') = Elements(input) \cup {m}
    BY <2>1, ElementsAppend DEF TypeOK
  <2>3. Gone' \subseteq Gone
    BY <1>0, <2>1, <2>2 DEF Gone, AtWork, Answering
  <2> QED BY <1>1, <2>3, AnswersStay DEF HostSends, Keeps, Elements
<1>2. CASE HostCloses
  <2>1. Gone' = Gone
    BY <1>0, <1>2 DEF HostCloses, Gone, AtWork, Answering, Elements
  <2> QED BY <1>2, <2>1, AnswersStay DEF HostCloses, Keeps, Elements
<1>3. CASE HostReceives
  <2>1. PICK r : r = Head(output)
    OBVIOUS
  <2>2. /\ Elements(output) = {r} \cup Elements(output')
        /\ hostGot' = hostGot \cup {x \in {r} : x.kind \in AnswerKinds}
    BY <1>3, <2>1, ElementsTail DEF HostReceives, TypeOK
  <2>3. \A m : Answered(m) => Answered(m)'
    BY <2>2 DEF Answered
  <2>4. Gone' = Gone
    BY <1>0, <1>3 DEF HostReceives, Gone, AtWork, Answering, Elements
  <2> QED BY <2>3, <2>4 DEF Keeps
<1> QED BY <1>1, <1>2, <1>3

\* Where Listen and its goroutines are says which channels are closed; a context
\* that is done without a forced end was cancelled by a graceful shutdown.
Ended ==
  /\ listen = "ack" \/ graceful # "none" => shutdown
  /\ listen = "forceAck" => force
  /\ listen = "drain" => listenDone
  /\ cancelled => shutdown \/ force \/ ctxDone

\* What the plugin's code has closed or ended stays so.
LEMMA AppEndsStay ==
  ASSUME TypeOK, AppEnds
  PROVE  /\ shutdown => shutdown'
         /\ force => force'
         /\ ctxDone => ctxDone'
<1>1. shutdown \in BOOLEAN /\ force \in BOOLEAN
  BY DEF TypeOK
<1>2. PICK how \in AppMay \ ends :
        /\ ends' = ends \cup {how}
        /\ shutdown' = (shutdown \/ how = "Shutdown")
        /\ force' = (force \/ how = "ForceShutdown")
  BY DEF AppEnds
<1> QED BY <1>1, <1>2 DEF ctxDone

LEMMA EndsStay ==
  ASSUME TypeOK, [Next]_vars
  PROVE  /\ force => force'
         /\ ctxDone => ctxDone'
<1>1. CASE AppEnds
  BY <1>1, AppEndsStay
<1>2. CASE ListenStep
  BY <1>2 DEF ListenStep, ListenStart, ListenDrops, ListenHolds, Holds, ListenAnswers, Answers,
              ListenReadyAgain, ListenAccepts, ListenLeaves, flagVars, ctxDone
<1>3. CASE UNCHANGED <<force, ends>>
  BY <1>3 DEF ctxDone
<1> QED BY <1>1, <1>2, <1>3
    DEF Next, WatcherStep, GracefulStep, JobStep, HandlerReturns, JobFrame, AppStep, HostSends,
        HostCloses, HostReceives, vars, flagVars

LEMMA EndedNext == TypeOK /\ Ended /\ [Next]_vars => Ended'
<1> SUFFICES ASSUME TypeOK, Ended, [Next]_vars PROVE Ended'
  OBVIOUS
<1> USE DEF Ended, listenDone, ctxDone
<1>1. CASE ListenStart
  <2>1. listen' \in {"select", "returned"}
    BY <1>1, SendReadyType DEF ListenStart, TypeOK, OutputOK
  <2> QED BY <1>1, <2>1 DEF ListenStart, flagVars
<1>2. CASE ListenDrops \/ ListenHolds
  BY <1>2 DEF ListenDrops, ListenHolds, Holds
<1>3. CASE ListenAnswers
  BY <1>3 DEF ListenAnswers, Answers
<1>4. CASE ListenReadyAgain
  <2>1. listen' \in {"readyAck", "select"}
    BY <1>4, SendReadyType DEF ListenReadyAgain, TypeOK, OutputOK
  <2> QED BY <1>4, <2>1 DEF ListenReadyAgain, flagVars
<1>5. CASE ListenAccepts \/ ListenLeaves
  BY <1>5 DEF ListenAccepts, ListenLeaves, flagVars
<1>6. CASE WatcherStep \/ GracefulStep
  BY <1>6 DEF WatcherStep, GracefulStep
<1>7. CASE AppEnds
  <2>1. UNCHANGED <<listen, cancelled, graceful>>
    BY <1>7 DEF AppEnds
  <2> QED BY <1>7, <2>1, AppEndsStay
<1>8. CASE JobStep \/ HandlerReturns \/ AppStep \/ HostSends \/ HostCloses \/ HostReceives
          \/ UNCHANGED vars
  BY <1>8 DEF JobStep, HandlerReturns, JobFrame, AppStep, HostSends, HostCloses, HostReceives,
              vars, flagVars
<1> QED BY <1>1, <1>2, <1>3, <1>4, <1>5, <1>6, <1>7, <1>8 DEF Next, ListenStep

\* As long as the end is not forced and nothing is cancelled, every step keeps its
\* promises.
LEMMA NextKeeps ==
  ASSUME TypeOK, Ended, [Next]_vars, ~force', ~cancelled', ~listenDone
  PROVE  Keeps
<1>1. CASE ListenStep
  BY <1>1, ListenKeeps
<1>2. CASE JobStep \/ HandlerReturns
  BY <1>2, JobsKeep DEF JobStep, HandlerReturns
<1>3. CASE AppStep
  <2>1. Grows /\ UNCHANGED <<listen, hand, activeJobs, input, hostVars>>
    BY <1>3, AppType DEF AppStep
  <2>2. Gone' = Gone
    BY <2>1 DEF Gone, AtWork, Answering, Elements, hostVars
  <2> QED BY <2>1, <2>2, AnswersStay DEF Keeps, Grows, hostVars
<1>4. CASE HostSends \/ HostCloses \/ HostReceives
  BY <1>4, HostKeeps
<1>5. CASE WatcherStep \/ GracefulStep \/ AppEnds \/ UNCHANGED vars
  <2>1. UNCHANGED <<listen, hand, activeJobs, input, output, hostVars>>
    BY <1>5 DEF WatcherStep, GracefulStep, AppEnds, vars
  <2>2. Gone' = Gone
    BY <2>1 DEF Gone, AtWork, Answering, Elements, hostVars
  <2> QED BY <2>1, <2>2, AnswersStay DEF Keeps, Elements, hostVars
<1> QED BY <1>1, <1>2, <1>3, <1>4, <1>5 DEF Next

\* A context that is not forced to its end, and cancelled, has no job left.
LEMMA CancelledEmpty ==
  ASSUME TypeOK, Ended, [Next]_vars, ~force', ~ctxDone', cancelled',
         ~force /\ ~ctxDone /\ cancelled => activeJobs = {}
  PROVE  activeJobs' = {}
<1>1. ~force /\ ~ctxDone
  BY EndsStay
<1>2. CASE cancelled
  <2>1. activeJobs = {} /\ shutdown
    BY <1>1, <1>2 DEF Ended
  <2> QED BY <2>1
      DEF Next, ListenStep, ListenStart, ListenDrops, ListenHolds, Holds, ListenAnswers, Answers,
         ListenReadyAgain, ListenAccepts, ListenLeaves, WatcherStep, GracefulStep, JobStep,
         HandlerReturns, JobFrame, AppStep, AppEnds, HostSends, HostCloses, HostReceives, vars
<1>3. CASE ~cancelled
  <2>1. GracefulStep
    BY <1>1, <1>3
      DEF Next, ListenStep, ListenStart, ListenDrops, ListenHolds, Holds, ListenAnswers, Answers,
         ListenReadyAgain, ListenAccepts, ListenLeaves, WatcherStep, JobStep, HandlerReturns,
         JobFrame, AppStep, AppEnds, HostSends, HostCloses, HostReceives, vars, flagVars,
         Ended, listenDone
  <2> QED BY <1>1, <2>1 DEF GracefulStep
<1> QED BY <1>2, <1>3

\* The inductive invariant of the two theorems below.
AInv == TypeOK /\ Ended /\ Accounted

LEMMA AInvInit == Init => AInv
<1> SUFFICES ASSUME Init PROVE Ended /\ Accounted
  BY TypeInit DEF AInv
<1> QED BY DEF Init, Ended, Accounted, listenDone, ctxDone

LEMMA AInvNext == AInv /\ [Next]_vars => AInv'
<1> SUFFICES ASSUME AInv, [Next]_vars PROVE AInv'
  OBVIOUS
<1>1. TypeOK' /\ Ended'
  BY TypeNext, EndedNext DEF AInv
<1>2. ASSUME ~force', ~ctxDone'
      PROVE  ~force /\ ~ctxDone
  BY <1>2, EndsStay DEF AInv
<1>3. ASSUME ~force', ~ctxDone', cancelled'
      PROVE  activeJobs' = {}
  BY <1>3, CancelledEmpty DEF AInv, Accounted
<1>4. ASSUME ~force', ~ctxDone', ~cancelled', NEW m \in Gone', m.kind # "garbled"
      PROVE  Answered(m)'
  <2>1. ~cancelled
    BY <1>4 DEF Next, ListenStep, ListenStart, ListenDrops, ListenHolds, Holds, ListenAnswers,
     Answers, ListenReadyAgain, ListenAccepts, ListenLeaves, WatcherStep, GracefulStep, JobStep,
     HandlerReturns, JobFrame, AppStep, AppEnds, HostSends, HostCloses, HostReceives,
     vars, flagVars
  <2>2. Keeps
    BY <1>2, <1>4, <2>1, NextKeeps DEF AInv, listenDone
  <2>3. m \in Gone => Answered(m)
    BY <1>2, <1>4, <2>1 DEF AInv, Accounted, Gone
  <2> QED BY <1>4, <2>2, <2>3 DEF Keeps
<1>5. Accounted'
  BY <1>3, <1>4 DEF Accounted, Gone
<1> QED BY <1>1, <1>5 DEF AInv

\* Accounted in every reachable state of the Module: a graceful shutdown loses no
\* message it has accepted and cuts no reply short, however many messages, handlers
\* and messages of the plugin's own there are.
THEOREM AccountedHolds == Spec => []Accounted
<1>1. Init => AInv
  BY AInvInit
<1>2. AInv /\ [Next]_vars => AInv'
  BY AInvNext
<1>3. AInv => Accounted
  BY DEF AInv
<1> QED BY <1>1, <1>2, <1>3, PTL DEF Spec

\* No job is added while the goroutine of "shutdown" waits: Listen refuses every
\* message from the moment it closes shutdownChan, which is before that goroutine
\* starts.
THEOREM NoAddHolds == Spec => NoAddDuringWait
<1>1. Init => AInv
  BY AInvInit
<1>2. AInv /\ [Next]_vars => AInv'
  BY AInvNext
<1>3. AInv /\ [Next]_vars /\ graceful # "none" =>
        {j.msg : j \in activeJobs'} \subseteq {j.msg : j \in activeJobs}
  <2> SUFFICES ASSUME AInv, [Next]_vars, graceful # "none", NEW k \in activeJobs'
               PROVE  \E j \in activeJobs : k.msg = j.msg
    OBVIOUS
  <2>1. shutdown
    BY DEF AInv, Ended
  <2>2. CASE UNCHANGED activeJobs
    BY <2>2
  <2>3. CASE JobStep \/ HandlerReturns
    <3>1. PICK j \in activeJobs : JobStarts(j) \/ JobReplies(j) \/ JobHandled(j)
      BY <2>3 DEF JobStep, HandlerReturns
    <3>2. k \in activeJobs \/ \E at : k = Job(j.msg, at)
      BY <3>1 DEF JobStarts, JobReplies, JobHandled
    <3> QED BY <3>1, <3>2 DEF Job
  <2> QED BY <2>1, <2>2, <2>3
      DEF Next, ListenStep, ListenStart, ListenDrops, ListenHolds, Holds, ListenAnswers, Answers,
         ListenReadyAgain, ListenAccepts, ListenLeaves, WatcherStep, GracefulStep, AppStep,
         AppEnds, HostSends, HostCloses, HostReceives, vars
<1> QED BY <1>1, <1>2, <1>3, PTL DEF Spec, NoAddDuringWait

-----------------------------------------------------------------------------
(* Module implements Plugin, the plugin Loader.tla is checked with, step by  *)
(* step.                                                                    *)

-----------------------------------------------------------------------------
(* The invariant the refinement rests on.                                    *)

\* A message of the host is in one place: in the channel, or with one goroutine.
Placed ==
  /\ Elements(input) \subseteq hostSent
  /\ \A i, k \in 1 .. Len(input) : input[i] = input[k] => i = k
  /\ \A j \in activeJobs : j.msg \in hostSent \ Elements(input)
  /\ \A j, k \in activeJobs : j.msg = k.msg => j = k

\* Goroutines get regular messages, and an unreadable one no further than its header.
JobsFit ==
  \A j \in activeJobs : j.msg.kind \in Regular /\ (j.msg.kind = "garbled" => j.at = "new")

\* Listen is where the message in its hand has taken it.
HandFits ==
  /\ listen = "ack" => hand.kind = "shutdown"
  /\ listen = "forceAck" => hand.kind = "force_shutdown"
  /\ listen \in {"ready", "readyAck"} => hand.kind = "request_ready"
  /\ listen = "refuse" => hand.kind \in Regular /\ shutdown

\* shutdownChan is closed by the plugin's code or by Listen, which then starts the
\* goroutine that ends a graceful shutdown; listenCtx is cancelled after one of the
\* three ends.
Stages ==
  /\ "Shutdown" \in ends => shutdown
  /\ shutdown => "Shutdown" \in ends \/ graceful # "none" \/ listen = "ack"
  /\ cancelled => force \/ ctxDone \/ graceful # "none"
  /\ listen = "start" => activeJobs = {} /\ ~cancelled /\ graceful = "none"

\* What is left of a queue whose elements differ does not hold its first.
LEMMA TailDistinct ==
  ASSUME NEW S, NEW s \in Seq(S), s # <<>>,
         \A i, k \in 1 .. Len(s) : s[i] = s[k] => i = k
  PROVE  /\ Head(s) \notin Elements(Tail(s))
         /\ \A i, k \in 1 .. Len(Tail(s)) : Tail(s)[i] = Tail(s)[k] => i = k
<1>1. /\ Head(s) = s[1] /\ Len(s) \in Nat \ {0} /\ Len(Tail(s)) = Len(s) - 1
      /\ \A i \in 1 .. Len(Tail(s)) : Tail(s)[i] = s[i + 1]
  BY HeadTailProperties, LenProperties, EmptySeq
<1>2. 1 \in 1 .. Len(s) /\ \A i \in 1 .. Len(Tail(s)) : i + 1 \in 1 .. Len(s) /\ i + 1 # 1
  BY <1>1
<1>3. Head(s) \notin Elements(Tail(s))
  BY <1>1, <1>2 DEF Elements
<1>4. ASSUME NEW i \in 1 .. Len(Tail(s)), NEW k \in 1 .. Len(Tail(s)), Tail(s)[i] = Tail(s)[k]
      PROVE  i = k
  <2>1. i + 1 = k + 1
    BY <1>1, <1>2, <1>4
  <2> QED BY <2>1
<1> QED BY <1>3, <1>4

\* A new element at the end keeps them different.
LEMMA AppendDistinct ==
  ASSUME NEW S, NEW s \in Seq(S), NEW e \in S, e \notin Elements(s),
         \A i, k \in 1 .. Len(s) : s[i] = s[k] => i = k
  PROVE  \A i, k \in 1 .. Len(Append(s, e)) : Append(s, e)[i] = Append(s, e)[k] => i = k
<1>1. /\ Len(Append(s, e)) = Len(s) + 1 /\ Len(s) \in Nat
      /\ \A i \in 1 .. Len(s) : Append(s, e)[i] = s[i]
      /\ Append(s, e)[Len(s) + 1] = e
  BY AppendProperties, LenProperties
<1>2. \A i \in 1 .. Len(s) + 1 : i \in 1 .. Len(s) \/ i = Len(s) + 1
  BY <1>1
<1>3. \A i \in 1 .. Len(s) : s[i] # e
  BY DEF Elements
<1> QED BY <1>1, <1>2, <1>3

\* What Listen takes was with nobody else.
LEMMA TakesPlaced ==
  ASSUME TypeOK, Placed, NEW kinds, Takes(kinds)
  PROVE  /\ Head(input) \in hostSent \ Elements(input')
         /\ Elements(input') \subseteq hostSent
         /\ \A i, k \in 1 .. Len(input') : input'[i] = input'[k] => i = k
         /\ \A j \in activeJobs : /\ j.msg \in hostSent \ Elements(input')
                                  /\ j.msg # Head(input)
<1>1. input \in Seq(HostMessages) /\ input # <<>> /\ input' = Tail(input)
  BY DEF TypeOK, Takes
<1>2. Elements(input) = {Head(input)} \cup Elements(input')
  BY TakesType
<1>3. /\ Head(input) \notin Elements(input')
      /\ \A i, k \in 1 .. Len(input') : input'[i] = input'[k] => i = k
  BY <1>1, TailDistinct DEF Placed
<1> QED BY <1>2, <1>3 DEF Placed

\* Messages move from the channel to Listen, or to one goroutine.
LEMMA PlacedListen ==
  ASSUME TypeOK, Placed, ListenStep
  PROVE  Placed'
<1>0. UNCHANGED hostSent
  BY DEF ListenStep, hostVars
<1>1. CASE UNCHANGED <<input, activeJobs>>
  BY <1>0, <1>1 DEF Placed, Elements
<1>2. CASE ListenDrops \/ ListenHolds
  <2>1. PICK kinds : Takes(kinds)
    BY <1>2 DEF ListenDrops, ListenHolds, Holds
  <2>2. UNCHANGED activeJobs
    BY <1>2 DEF ListenDrops, ListenHolds, Holds
  <2> QED BY <1>0, <2>1, <2>2, TakesPlaced DEF Placed
<1>3. CASE ListenAccepts
  <2>1. PICK n : n = Job(Head(input), "new")
    OBVIOUS
  <2>2. Takes(Regular) /\ activeJobs' = activeJobs \cup {n} /\ n.msg = Head(input)
    BY <1>3, <2>1 DEF ListenAccepts, Job
  <2> QED BY <1>0, <2>2, TakesPlaced DEF Placed
<1> QED BY <1>1, <1>2, <1>3 DEF ListenStep, ListenStart, ListenAnswers, Answers,
                                ListenReadyAgain, ListenLeaves

\* A goroutine keeps its message until it is done with it.
LEMMA PlacedJobs ==
  ASSUME TypeOK, Placed, NEW j \in activeJobs,
         JobStarts(j) \/ JobReplies(j) \/ JobHandled(j), JobFrame
  PROVE  Placed'
<1>0. UNCHANGED <<hostSent, input>>
  BY DEF JobFrame, hostVars
<1>1. CASE activeJobs' = activeJobs \ {j}
  BY <1>0, <1>1 DEF Placed, Elements
<1>2. CASE \E at : activeJobs' = (activeJobs \ {j}) \cup {Job(j.msg, at)}
  <2>1. PICK at, n : activeJobs' = (activeJobs \ {j}) \cup {n} /\ n = Job(j.msg, at)
    BY <1>2
  <2>2. n.msg = j.msg
    BY <2>1 DEF Job
  <2> QED BY <1>0, <2>1, <2>2 DEF Placed, Elements
<1> QED BY <1>1, <1>2 DEF JobStarts, JobReplies, JobHandled

\* The host sends each of its messages once.
LEMMA PlacedHost ==
  ASSUME TypeOK, Placed, HostSends
  PROVE  Placed'
<1>1. PICK m \in HostMessages \ hostSent :
        hostSent' = hostSent \cup {m} /\ input' = Append(input, m)
  BY DEF HostSends
<1>2. input \in Seq(HostMessages) /\ UNCHANGED activeJobs
  BY DEF TypeOK, HostSends
<1>3. m \notin Elements(input) /\ Elements(input') = Elements(input) \cup {m}
  BY <1>1, <1>2, ElementsAppend DEF Placed
<1>4. \A i, k \in 1 .. Len(input') : input'[i] = input'[k] => i = k
  BY <1>1, <1>2, <1>3, AppendDistinct DEF Placed
<1> QED BY <1>1, <1>2, <1>3, <1>4 DEF Placed

LEMMA PlacedNext == TypeOK /\ Placed /\ [Next]_vars => Placed'
<1> SUFFICES ASSUME TypeOK, Placed, [Next]_vars PROVE Placed'
  OBVIOUS
<1>1. CASE ListenStep
  BY <1>1, PlacedListen
<1>2. CASE JobStep \/ HandlerReturns
  BY <1>2, PlacedJobs DEF JobStep, HandlerReturns
<1>3. CASE HostSends
  BY <1>3, PlacedHost
<1>4. CASE UNCHANGED <<hostSent, input, activeJobs>>
  BY <1>4 DEF Placed, Elements
<1> QED BY <1>1, <1>2, <1>3, <1>4 DEF Next, WatcherStep, GracefulStep, AppEnds, AppStep,
                                     HostCloses, HostReceives, hostVars, vars

\* Only Listen starts goroutines, and processMessage moves them on.
LEMMA JobsFitNext == TypeOK /\ JobsFit /\ [Next]_vars => JobsFit'
<1> SUFFICES ASSUME TypeOK, JobsFit, [Next]_vars PROVE JobsFit'
  OBVIOUS
<1>1. CASE ListenAccepts
  <2>1. PICK n : n = Job(Head(input), "new")
    OBVIOUS
  <2>2. /\ activeJobs' = activeJobs \cup {n} /\ n.msg = Head(input) /\ n.at = "new"
        /\ Head(input).kind \in Regular
    BY <1>1, <2>1 DEF ListenAccepts, Takes, Job
  <2> QED BY <2>2 DEF JobsFit
<1>2. CASE JobStep \/ HandlerReturns
  <2>1. PICK j \in activeJobs : JobStarts(j) \/ JobReplies(j) \/ JobHandled(j)
    BY <1>2 DEF JobStep, HandlerReturns
  <2>2. ASSUME NEW k \in activeJobs', k \notin activeJobs
        PROVE  k.msg = j.msg /\ j.msg.kind # "garbled"
    <3>1. PICK at : k = Job(j.msg, at) /\ j.msg.kind # "garbled"
      BY <2>1, <2>2 DEF JobStarts, JobReplies, JobHandled, JobsFit
    <3> QED BY <3>1 DEF Job
  <2> QED BY <2>2 DEF JobsFit
<1>3. CASE UNCHANGED activeJobs
  BY <1>3 DEF JobsFit
<1> QED BY <1>1, <1>2, <1>3
    DEF Next, ListenStep, ListenStart, ListenDrops, ListenHolds, Holds, ListenAnswers, Answers,
        ListenReadyAgain, ListenLeaves, WatcherStep, GracefulStep, AppEnds, AppStep,
        HostSends, HostCloses, HostReceives, vars

\* Listen's own steps.
LEMMA HandListen ==
  ASSUME TypeOK, Ended, HandFits, Stages, ListenStep
  PROVE  HandFits' /\ Stages'
<1>0. UNCHANGED <<sent, hostVars>>
  BY DEF ListenStep
<1> USE DEF HandFits, Stages, ctxDone, listenDone, Ended
<1>1. CASE ListenStart
  <2>1. listen' \in {"select", "returned"}
    BY <1>1, SendReadyType DEF ListenStart, TypeOK, OutputOK
  <2> QED BY <1>1, <2>1 DEF ListenStart, flagVars
<1>2. CASE ListenDrops
  BY <1>2 DEF ListenDrops, Takes
<1>3. CASE ListenHolds
  BY <1>3 DEF ListenHolds, Holds, Takes
<1>4. CASE ListenAnswers
  BY <1>4 DEF ListenAnswers, Answers
<1>5. CASE ListenReadyAgain
  <2>1. listen' \in {"readyAck", "select"}
    BY <1>5, SendReadyType DEF ListenReadyAgain, TypeOK, OutputOK
  <2> QED BY <1>5, <2>1 DEF ListenReadyAgain, flagVars
<1>6. CASE ListenAccepts
  BY <1>6 DEF ListenAccepts, Takes, flagVars
<1>7. CASE ListenLeaves
  BY <1>7 DEF ListenLeaves
<1> QED BY <1>1, <1>2, <1>3, <1>4, <1>5, <1>6, <1>7 DEF ListenStep

LEMMA HandNext == TypeOK /\ Ended /\ HandFits /\ Stages /\ [Next]_vars => HandFits' /\ Stages'
<1> SUFFICES ASSUME TypeOK, Ended, HandFits, Stages, [Next]_vars PROVE HandFits' /\ Stages'
  OBVIOUS
<1>1. CASE ListenStep
  BY <1>1, HandListen
<1>2. CASE WatcherStep \/ GracefulStep
  BY <1>2 DEF WatcherStep, GracefulStep, HandFits, Stages, ctxDone
<1>3. CASE JobStep \/ HandlerReturns
  BY <1>3 DEF JobStep, HandlerReturns, JobFrame, flagVars, HandFits, Stages, ctxDone
<1>4. CASE AppEnds
  <2>1. PICK how \in AppMay \ ends :
          /\ ends' = ends \cup {how}
          /\ shutdown' = (shutdown \/ how = "Shutdown")
          /\ force' = (force \/ how = "ForceShutdown")
    BY <1>4 DEF AppEnds
  <2>2. shutdown \in BOOLEAN /\ force \in BOOLEAN
    BY DEF TypeOK
  <2>3. UNCHANGED <<listen, hand, cancelled, graceful, activeJobs>>
    BY <1>4 DEF AppEnds
  <2> QED BY <2>1, <2>2, <2>3 DEF HandFits, Stages, ctxDone
<1>5. CASE UNCHANGED <<listen, hand, flagVars, activeJobs>>
  BY <1>5 DEF flagVars, HandFits, Stages, ctxDone
<1> QED BY <1>1, <1>2, <1>3, <1>4, <1>5 DEF Next, AppStep, HostSends, HostCloses, HostReceives,
                                           vars

\* With what AccountedHolds rests on: a goroutine that is not forced to end is not
\* cancelled before it has replied.
RInv == AInv /\ Placed /\ JobsFit /\ HandFits /\ Stages

LEMMA RInvInit == Init => RInv
<1> SUFFICES ASSUME Init PROVE RInv
  OBVIOUS
<1>1. AInv
  BY AInvInit
<1>2. Elements(input) = {} /\ Len(input) = 0
  BY DEF Init, Elements
<1>3. Placed
  BY <1>2 DEF Init, Placed
<1> QED BY <1>1, <1>3 DEF Init, RInv, JobsFit, HandFits, Stages, ctxDone

LEMMA RInvNext == RInv /\ [Next]_vars => RInv'
BY AInvNext, PlacedNext, JobsFitNext, HandNext DEF RInv, AInv

-----------------------------------------------------------------------------
(* What the host sees of a state and of a write.                             *)

\* Whether Listen and its context let the plugin be told to end.
LEMMA PeerSeen ==
  /\ listen # "start" =>
       ModulePeer = IF force \/ ctxDone THEN "forced"
                    ELSE IF "Shutdown" \in ends \/ graceful # "none" THEN "leaving"
                    ELSE "serving"
  /\ (UNCHANGED <<force, ends, graceful>> /\ (listen = "start" <=> listen' = "start"))
       => UNCHANGED ModulePeer
BY DEF ModulePeer, ctxDone

\* What a graceful shutdown waits for are the jobs, and not the acknowledgment
\* of a ready signal.
LEMMA JobsSeen ==
  ASSUME JobsFit, HandFits
  PROVE  /\ P!Working = {m \in {j.msg : j \in activeJobs} : m.kind # "garbled"}
         /\ ModuleJobs = P!Working \cup Due
         /\ listen # "readyAck" => ModuleJobs = P!Working
<1>1. \A j \in activeJobs : j.msg.kind # "request_ready"
  BY DEF JobsFit, Regular
<1>2. \A m \in Due : m.kind = "request_ready"
  BY DEF Due, HandFits
<1> QED BY <1>1, <1>2 DEF P!Working, ModuleJobs, Due

\* Goroutines that move on with their messages are the same to the host.
LEMMA JobsKept ==
  ASSUME UNCHANGED <<listen, hand, activeJobs>>
  PROVE  UNCHANGED ModuleJobs
BY DEF ModuleJobs, Due

LEMMA InputKept ==
  ASSUME UNCHANGED <<listen, hand, input>>
  PROVE  UNCHANGED ModuleInput
BY DEF ModuleInput, Unanswered

\* Between messages, the host's queue is the channel; with a message in Listen's
\* hand, that message comes first.
LEMMA InputSeen ==
  ASSUME TypeOK
  PROVE  /\ ModuleInput \in Seq(ToPluginMsgs)
         /\ listen \notin {"ack", "forceAck", "ready", "refuse"} => ModuleInput = input
         /\ listen \in {"ack", "forceAck", "ready", "refuse"} =>
              /\ ModuleInput # <<>> /\ Head(ModuleInput) = hand /\ Tail(ModuleInput) = input
<1>1. input \in Seq(ToPluginMsgs) /\ hand \in ToPluginMsgs
  BY HostAssumption DEF TypeOK
<1>2. <<>> \o input = input
  BY <1>1
<1>3. /\ <<hand>> \o input \in Seq(ToPluginMsgs) /\ <<hand>> \o input # <<>>
      /\ Head(<<hand>> \o input) = hand /\ Tail(<<hand>> \o input) = input
  BY <1>1
<1> QED BY <1>1, <1>2, <1>3 DEF ModuleInput, Unanswered

\* A queue is its first message before the rest of it.
LEMMA HeadThenTail ==
  ASSUME NEW S, NEW s \in Seq(S), s # <<>>
  PROVE  <<Head(s)>> \o Tail(s) = s
OBVIOUS

\* A message Listen keeps in its hand is, for the host, not taken yet.
LEMMA HoldsSeen ==
  ASSUME TypeOK, listen = "select", input # <<>>, input' = Tail(input), hand' = Head(input),
         listen' \in {"ack", "forceAck", "ready", "refuse"}
  PROVE  UNCHANGED ModuleInput
<1>1. input \in Seq(HostMessages)
  BY DEF TypeOK
<1>2. <<hand'>> \o input' = input
  BY <1>1, HeadThenTail
<1>3. ModuleInput = input
  BY InputSeen
<1> QED BY <1>2, <1>3 DEF ModuleInput, Unanswered

\* A write of the Module is a write of the plugin.
LEMMA EmitsSeen ==
  ASSUME OutputOK, NEW m \in ToHostMsgs, Emits(m)
  PROVE  P!PeerSends(<<m>>)
<1>1. output \in Seq(ToHostMsgs) /\ output' = Append(output, m)
  BY DEF OutputOK, Emits
<1>2. Append(output, m) = output \o <<m>>
  BY <1>1
<1> QED BY <1>1, <1>2 DEF P!PeerSends

\* A reply with a context that is done may be cut short or not sent.
LEMMA RepliesSeen ==
  ASSUME OutputOK, NEW kind \in ToHostKinds, NEW m \in ToPluginMsgs, NEW done,
         Replies(kind, m, done)
  PROVE  \/ P!PeerSends(<<P!Msg(kind, m.seq, m.body)>>)
         \/ done /\ P!PeerSends(<<P!Msg("garbled", m.seq, m.body)>>)
         \/ done /\ UNCHANGED output
<1>1. m.seq \in Ids /\ m.body \in Bodies \cup {None}
  BY DEF ToPluginMsgs
<1>2. \A k \in ToHostKinds : /\ Msg(k, m.seq, m.body) \in ToHostMsgs
                             /\ P!Msg(k, m.seq, m.body) = Msg(k, m.seq, m.body)
  BY <1>1, MsgTypes DEF Msg, P!Msg
<1>3. "garbled" \in ToHostKinds
  BY DEF ToHostKinds
<1> QED BY <1>2, <1>3, EmitsSeen DEF Replies, Aborts

\* A context that is done is done because the end is forced, or nothing is left to
\* wait for.
LEMMA DoneSeen ==
  ASSUME RInv, listen # "start", listenDone
  PROVE  P!Cancellable
<1>1. CASE force \/ ctxDone
  BY <1>1, PeerSeen DEF P!Cancellable
<1>2. CASE ~force /\ ~ctxDone
  <2>1. cancelled /\ activeJobs = {} /\ graceful # "none"
    BY <1>2 DEF listenDone, RInv, AInv, Accounted, Stages
  <2>2. ModulePeer = "leaving"
    BY <1>2, <2>1, PeerSeen
  <2>3. P!Working = {}
    BY <2>1, JobsSeen DEF RInv
  <2> QED BY <2>2, <2>3 DEF P!Cancellable
<1> QED BY <1>1, <1>2
-----------------------------------------------------------------------------
(* Listen's steps are the plugin's.                                          *)

\* A message put together and written is written by the plugin.
LEMMA WholeSeen ==
  ASSUME OutputOK, NEW kind \in ToHostKinds, NEW n \in Ids, NEW b \in Bodies \cup {None},
         Emits(Msg(kind, n, b))
  PROVE  P!PeerSends(<<P!Msg(kind, n, b)>>)
<1>1. Msg(kind, n, b) \in ToHostMsgs /\ P!Msg(kind, n, b) = Msg(kind, n, b)
  BY MsgTypes DEF Msg, P!Msg
<1> QED BY <1>1, EmitsSeen

\* The adapter's numbers are the plugin's.
LEMMA NumberSeen == P!NextPeerSeq = NextSequence
BY DEF P!NextPeerSeq, NextSequence

\* With no message in Listen's hand after a step, the host's queue is the channel.
LEMMA InputAfter ==
  ASSUME TypeOK', listen' \notin {"ack", "forceAck", "ready", "refuse"}
  PROVE  ModuleInput' = input'
<1>1. input' \in Seq(HostMessages)
  BY DEF TypeOK
<1>2. <<>> \o input' = input'
  BY <1>1
<1> QED BY <1>2 DEF ModuleInput, Unanswered

\* Jobs do not change while Listen has no ready signal to acknowledge.
LEMMA JobsStay ==
  ASSUME UNCHANGED activeJobs, listen # "readyAck", listen' # "readyAck"
  PROVE  UNCHANGED ModuleJobs
BY DEF ModuleJobs, Due

\* Listen is done with one message when the plugin takes the next.
LEMMA TakesSeen ==
  ASSUME RInv, listen \notin {"start", "readyAck"}, NEW kinds,
         ModuleInput # <<>>, Head(ModuleInput).kind \in kinds, ModuleInput' = Tail(ModuleInput)
  PROVE  P!PeerTakes(kinds)
<1>1. ModulePeer \in {"serving", "leaving", "forced"}
  BY PeerSeen
<1>2. ModuleJobs = P!Working
  BY JobsSeen DEF RInv
<1> QED BY <1>1, <1>2 DEF P!PeerTakes

\* The signal that opens the channel.
LEMMA StartSeen ==
  ASSUME RInv, TypeOK', ListenStep, ListenStart
  PROVE  P!PeerReady
<1>0. OutputOK /\ sequence \in Ids /\ NextSequence \in Ids /\ None \in Bodies \cup {None}
  BY SequenceType DEF RInv, AInv, TypeOK, OutputOK
<1>1. /\ listen = "start" /\ listen' \in {"select", "returned"}
      /\ sequence' = NextSequence
      /\ UNCHANGED <<flagVars, activeJobs, input, sent>>
  BY <1>0, SendReadyType DEF ListenStart, ListenStep, SendReady
<1>2. ModulePeer = "starting" /\ sequence' = P!NextPeerSeq
  BY <1>1, NumberSeen DEF ModulePeer
<1>3. UNCHANGED <<ModuleJobs, ModuleInput>>
  <2>1. ModuleInput = input /\ ModuleInput' = input'
    BY <1>1, InputSeen, InputAfter DEF RInv, AInv
  <2> QED BY <1>1, <2>1, JobsStay
<1>4. ModulePeer' \in {"serving", "leaving", "forced"}
  BY <1>1 DEF ModulePeer
<1>5. CASE Emits(Msg("ready", NextSequence, None))
  <2>1. P!PeerSends(<<P!Msg("ready", P!NextPeerSeq, None)>>)
    BY <1>0, <1>5, NumberSeen, WholeSeen DEF ToHostKinds
  <2> QED BY <1>1, <1>2, <1>3, <1>4, <2>1 DEF P!PeerReady
<1>6. CASE ctxDone /\ (Emits(Msg("garbled", NextSequence, None)) \/ UNCHANGED output)
  <2>1. ModulePeer' = "forced"
    BY <1>1, <1>6 DEF ModulePeer, ctxDone, flagVars
  <2>2. P!PeerSends(<<P!Msg("garbled", P!NextPeerSeq, None)>>) \/ UNCHANGED output
    BY <1>0, <1>6, NumberSeen, WholeSeen DEF ToHostKinds
  <2> QED BY <1>1, <1>2, <1>3, <2>1, <2>2 DEF P!PeerReady
<1> QED BY <1>5, <1>6 DEF ListenStart, SendReady, Aborts

\* A message that finds Listen told to stop.
LEMMA DropsSeen ==
  ASSUME RInv, TypeOK', ListenStep, ListenDrops
  PROVE  P!PeerDrops
<1>1. /\ listen = "select" /\ listen' = "returned" /\ force /\ input # <<>>
      /\ input' = Tail(input) /\ Head(input).kind \in ToPluginKinds
      /\ UNCHANGED <<force, ends, graceful, activeJobs, sequence, sent, output>>
  BY DEF ListenStep, ListenDrops, Takes
<1>2. ModuleInput = input /\ ModuleInput' = input'
  BY <1>1, InputSeen, InputAfter DEF RInv, AInv
<1>3. ModulePeer = "forced" /\ UNCHANGED ModulePeer
  BY <1>1, PeerSeen
<1>4. UNCHANGED ModuleJobs
  BY <1>1, JobsStay
<1>5. P!ToPluginKinds = ToPluginKinds
  BY DEF P!ToPluginKinds, ToPluginKinds
<1>6. P!PeerTakes(P!ToPluginKinds)
  BY <1>1, <1>2, <1>5, TakesSeen
<1> QED BY <1>1, <1>3, <1>4, <1>6 DEF P!PeerDrops

\* A message Listen takes in its hand is still there for the host; only that the
\* end is forced counts at once.
LEMMA HoldsStep ==
  ASSUME RInv, TypeOK', ListenStep, ListenHolds
  PROVE  P!PeerForced \/ UNCHANGED P!pluginVars
<1>1. PICK kinds, at :
        /\ at \in {"ack", "forceAck", "ready", "refuse"} /\ Holds(kinds, at)
        /\ \/ UNCHANGED force
           \/ kinds = {"force_shutdown"} /\ force'
  BY DEF ListenHolds
<1>2. /\ listen = "select" /\ listen' = at /\ input # <<>> /\ input' = Tail(input)
      /\ hand' = Head(input) /\ Head(input).kind \in kinds
      /\ UNCHANGED <<ends, graceful, activeJobs, sequence, sent, output>>
  BY <1>1 DEF ListenStep, Holds, Takes
<1>3. UNCHANGED ModuleInput /\ ModuleInput = input
  BY <1>1, <1>2, HoldsSeen, InputSeen DEF RInv, AInv
<1>4. UNCHANGED ModuleJobs /\ ModuleJobs = P!Working
  BY <1>1, <1>2, JobsStay, JobsSeen DEF RInv
<1>5. CASE UNCHANGED force
  <2>1. UNCHANGED ModulePeer
    BY <1>1, <1>2, <1>5, PeerSeen
  <2> QED BY <1>2, <1>3, <1>4, <2>1 DEF P!pluginVars
<1>6. CASE kinds = {"force_shutdown"} /\ force'
  <2>1. ModulePeer' = "forced" /\ ModulePeer \in {"serving", "leaving", "forced"}
    BY <1>1, <1>2, <1>6 DEF ModulePeer
  <2>2. CASE ModulePeer = "forced"
    BY <1>2, <1>3, <1>4, <2>1, <2>2 DEF P!pluginVars
  <2>3. CASE ModulePeer # "forced"
    BY <1>2, <1>3, <1>4, <1>6, <2>1, <2>3 DEF P!PeerForced
  <2> QED BY <2>2, <2>3
<1> QED BY <1>1, <1>5, <1>6
\* An answer of Listen's own is about the message in its hand.
LEMMA AnswersSeen ==
  ASSUME RInv, TypeOK', NEW at, NEW kind \in ToHostKinds, NEW then \in {"select", "returned"},
         at \in {"ack", "forceAck", "readyAck", "refuse"}, Answers(at, kind, then)
  PROVE  /\ listen = at /\ listen' = then
         /\ P!PeerReplies(kind, hand, P!Cancellable)
         /\ UNCHANGED <<sequence, activeJobs>>
         /\ at # "readyAck" => /\ ModuleInput # <<>> /\ Head(ModuleInput) = hand
                               /\ ModuleInput' = Tail(ModuleInput)
                               /\ UNCHANGED ModuleJobs
<1>1. /\ listen = at /\ listen' = then /\ Replies(kind, hand, listenDone)
      /\ UNCHANGED <<activeJobs, sequence, input>>
  BY DEF Answers
<1>2. hand \in ToPluginMsgs /\ OutputOK
  BY DEF RInv, AInv, TypeOK, OutputOK
<1>3. listenDone => P!Cancellable
  BY <1>1, DoneSeen
<1>4. P!PeerReplies(kind, hand, P!Cancellable)
  BY <1>1, <1>2, <1>3, RepliesSeen DEF P!PeerReplies
<1>5. at # "readyAck" => /\ ModuleInput # <<>> /\ Head(ModuleInput) = hand
                         /\ ModuleInput' = Tail(ModuleInput) /\ UNCHANGED ModuleJobs
  BY <1>1, InputSeen, InputAfter, JobsStay DEF RInv, AInv
<1> QED BY <1>1, <1>4, <1>5

\* The four answers Listen gives itself.
LEMMA AnswersStep ==
  ASSUME RInv, TypeOK', ListenStep, ListenAnswers
  PROVE  \/ P!PeerShutdown \/ P!PeerForceShutdown \/ P!PeerRefuses
         \/ \E m \in ModuleJobs : P!PeerRequestReadyAck(m)
<1>0. /\ UNCHANGED <<sent, force, ends>>
      /\ {"shutdown_ack", "force_shutdown_ack", "request_ready_ack", "error"}
           \subseteq ToHostKinds
      /\ HandFits /\ JobsFit /\ Stages /\ Ended
  BY DEF ListenStep, ListenAnswers, Answers, ToHostKinds, RInv, AInv
<1>1. CASE Answers("ack", "shutdown_ack", "select") /\ graceful' = "waiting"
  <2>1. /\ listen = "ack" /\ listen' = "select" /\ hand.kind = "shutdown"
        /\ P!PeerReplies("shutdown_ack", Head(ModuleInput), P!Cancellable)
        /\ UNCHANGED <<sequence, ModuleJobs>>
        /\ ModuleInput # <<>> /\ Head(ModuleInput) = hand /\ ModuleInput' = Tail(ModuleInput)
    BY <1>0, <1>1, AnswersSeen DEF HandFits
  <2>2. P!PeerTakes({"shutdown"})
    BY <2>1, TakesSeen
  <2>3. ModulePeer' = IF ModulePeer = "forced" THEN "forced" ELSE "leaving"
    BY <1>0, <1>1, <2>1 DEF ModulePeer, ctxDone
  <2> QED BY <1>0, <2>1, <2>2, <2>3 DEF P!PeerShutdown
<1>2. CASE Answers("forceAck", "force_shutdown_ack", "returned")
  <2>1. /\ listen = "forceAck" /\ listen' = "returned" /\ hand.kind = "force_shutdown"
        /\ P!PeerReplies("force_shutdown_ack", Head(ModuleInput), P!Cancellable)
        /\ UNCHANGED <<sequence, ModuleJobs>>
        /\ ModuleInput # <<>> /\ Head(ModuleInput) = hand /\ ModuleInput' = Tail(ModuleInput)
    BY <1>0, <1>2, AnswersSeen DEF HandFits
  <2>2. P!PeerTakes({"force_shutdown"})
    BY <2>1, TakesSeen
  <2>3. ModulePeer = "forced" /\ ModulePeer' = "forced"
    BY <1>0, <2>1 DEF ModulePeer, Ended
  <2>4. P!PeerReplies("force_shutdown_ack", Head(ModuleInput), TRUE)
    BY <2>1 DEF P!PeerReplies
  <2> QED BY <1>0, <2>1, <2>2, <2>3, <2>4 DEF P!PeerForceShutdown
<1>3. CASE Answers("readyAck", "request_ready_ack", "select") /\ UNCHANGED graceful
  <2>1. /\ listen = "readyAck" /\ listen' = "select" /\ hand.kind = "request_ready"
        /\ P!PeerReplies("request_ready_ack", hand, P!Cancellable)
        /\ UNCHANGED <<sequence, activeJobs, input>>
    BY <1>0, <1>3, AnswersSeen DEF HandFits, Answers
  <2>2. ModulePeer' = ModulePeer
    BY <1>0, <1>3, <2>1, PeerSeen
  <2>3. ModuleInput = input /\ ModuleInput' = input'
    BY <2>1, InputSeen, InputAfter DEF RInv, AInv
  <2>4. hand \notin {j.msg : j \in activeJobs}
    BY <1>0, <2>1 DEF JobsFit, Regular
  <2>5. hand \in ModuleJobs /\ ModuleJobs' = ModuleJobs \ {hand}
    BY <2>1, <2>4 DEF ModuleJobs, Due
  <2> QED BY <1>0, <2>1, <2>2, <2>3, <2>5 DEF P!PeerRequestReadyAck
<1>4. CASE Answers("refuse", "error", "select") /\ UNCHANGED graceful
  <2>1. /\ listen = "refuse" /\ listen' = "select" /\ hand.kind \in Regular /\ shutdown
        /\ P!PeerReplies("error", Head(ModuleInput), P!Cancellable)
        /\ UNCHANGED <<sequence, ModuleJobs>>
        /\ ModuleInput # <<>> /\ Head(ModuleInput) = hand /\ ModuleInput' = Tail(ModuleInput)
    BY <1>0, <1>4, AnswersSeen DEF HandFits
  <2>2. P!PeerTakes({"request", "message", "garbled"})
    BY <2>1, TakesSeen DEF Regular
  <2>3. ModulePeer # "serving" /\ ModulePeer' = ModulePeer
    BY <1>0, <1>4, <2>1, PeerSeen DEF Stages
  <2> QED BY <1>0, <2>1, <2>2, <2>3 DEF P!PeerRefuses
<1> QED BY <1>1, <1>2, <1>3, <1>4 DEF ListenAnswers

\* The ready signal once more.
LEMMA ReadySeen ==
  ASSUME RInv, TypeOK', ListenStep, ListenReadyAgain
  PROVE  P!PeerRequestReady
<1>0. /\ OutputOK /\ sequence \in Ids /\ NextSequence \in Ids /\ None \in Bodies \cup {None}
      /\ HandFits /\ JobsFit
  BY SequenceType DEF RInv, AInv, TypeOK, OutputOK
<1>1. /\ listen = "ready" /\ listen' \in {"readyAck", "select"} /\ hand.kind = "request_ready"
      /\ sequence' = NextSequence
      /\ UNCHANGED <<flagVars, activeJobs, input, sent>>
  BY <1>0, SendReadyType DEF ListenReadyAgain, ListenStep, SendReady, HandFits
<1>2. UNCHANGED ModulePeer /\ sequence' = P!NextPeerSeq
  BY <1>1, PeerSeen, NumberSeen DEF flagVars
<1>3. ModuleInput # <<>> /\ Head(ModuleInput) = hand /\ ModuleInput' = Tail(ModuleInput)
  BY <1>1, InputSeen, InputAfter DEF RInv, AInv
<1>4. P!PeerTakes({"request_ready"})
  BY <1>1, <1>3, TakesSeen
<1>5. CASE Emits(Msg("ready", NextSequence, None)) /\ listen' = "readyAck"
  <2>1. P!PeerSends(<<P!Msg("ready", P!NextPeerSeq, None)>>)
    BY <1>0, <1>5, NumberSeen, WholeSeen DEF ToHostKinds
  <2>2. ModuleJobs' = ModuleJobs \cup {hand}
    BY <1>1, <1>5 DEF ListenReadyAgain, ModuleJobs, Due
  <2> QED BY <1>1, <1>2, <1>3, <1>4, <2>1, <2>2 DEF P!PeerRequestReady
<1>6. CASE /\ listenDone /\ Aborts("ready", NextSequence, None)
           /\ listen' = "select"
  <2>1. P!Cancellable
    BY <1>1, <1>6, DoneSeen
  <2>2. UNCHANGED ModuleJobs
    BY <1>1, <1>6, JobsStay
  <2>3. \/ \E kind \in {"ready", "garbled"} : P!PeerSends(<<P!Msg(kind, P!NextPeerSeq, None)>>)
        \/ UNCHANGED output
    BY <1>0, <1>6, NumberSeen, WholeSeen DEF Aborts, ToHostKinds
  <2> QED BY <1>1, <1>2, <1>4, <2>1, <2>2, <2>3 DEF P!PeerRequestReady
<1> QED BY <1>5, <1>6 DEF ListenReadyAgain, SendReady

\* A goroutine for a message is a job, if there is something to answer.
LEMMA AcceptsSeen ==
  ASSUME RInv, TypeOK', ListenStep, ListenAccepts
  PROVE  P!PeerAccepts
<1>0. Stages /\ Ended
  BY DEF RInv, AInv
<1>1. PICK n : n = Job(Head(input), "new")
  OBVIOUS
<1>2. /\ listen = "select" /\ input # <<>> /\ input' = Tail(input) /\ ~shutdown
      /\ Head(input).kind \in Regular
      /\ activeJobs' = activeJobs \cup {n} /\ n.msg = Head(input)
      /\ UNCHANGED <<listen, hand, flagVars, sequence, sent, output>>
  BY <1>1 DEF ListenStep, ListenAccepts, Takes, Job
<1>3. ModuleInput = input /\ ModuleInput' = input'
  BY <1>2, InputSeen, InputAfter DEF RInv, AInv
<1>4. P!PeerTakes({"request", "message", "garbled"})
  BY <1>2, <1>3, TakesSeen DEF Regular
<1>5. ModulePeer # "leaving" /\ UNCHANGED ModulePeer
  BY <1>0, <1>2, PeerSeen DEF Stages, Ended, flagVars
<1>6. ModuleJobs' = ModuleJobs \cup {m \in {Head(ModuleInput)} : m.kind # "garbled"}
  BY <1>2, <1>3 DEF ModuleJobs, Due
<1> QED BY <1>2, <1>4, <1>5, <1>6 DEF P!PeerAccepts

\* The host cannot see that Listen leaves its loop.
LEMMA LeavesSeen ==
  ASSUME RInv, TypeOK', ListenStep, ListenLeaves
  PROVE  UNCHANGED P!pluginVars
<1>1. /\ listen \in {"select", "drain"} /\ listen' \in {"drain", "returned"}
      /\ UNCHANGED <<force, ends, graceful, activeJobs, sequence, sent, input, output>>
  BY DEF ListenStep, ListenLeaves
<1>2. UNCHANGED ModulePeer
  BY <1>1, PeerSeen
<1>3. UNCHANGED <<ModuleJobs, ModuleInput>>
  BY <1>1, JobsStay, InputSeen, InputAfter DEF RInv, AInv
<1> QED BY <1>1, <1>2, <1>3 DEF P!pluginVars

\* Each of Listen's steps.
LEMMA ListenSeen ==
  ASSUME RInv, TypeOK', ListenStep
  PROVE  P!PeerListening \/ UNCHANGED P!pluginVars
BY AnswersStep, StartSeen, DropsSeen, HoldsStep, ReadySeen, AcceptsSeen, LeavesSeen
DEF ListenStep, P!PeerListening
-----------------------------------------------------------------------------
(* The steps of the goroutines, of the plugin's code and of the host.        *)

\* The plugin has a job until its goroutine writes the reply; processMessage on the
\* way there, or without one, is nothing to the host.
LEMMA JobsStep ==
  ASSUME RInv, NEW j \in activeJobs, JobStarts(j) \/ JobReplies(j) \/ JobHandled(j), JobFrame
  PROVE  (\E m \in ModuleJobs : P!PeerFinishes(m)) \/ UNCHANGED P!pluginVars
<1>0. /\ TypeOK /\ Accounted /\ Placed /\ JobsFit /\ HandFits /\ Stages
      /\ listen # "start" /\ OutputOK /\ j.msg \in ToPluginMsgs
      /\ UNCHANGED <<listen, hand, force, ends, graceful, sequence, sent, input>>
  BY DEF RInv, AInv, JobFrame, flagVars, Stages, TypeOK, OutputOK, Jobs
<1>1. UNCHANGED <<ModulePeer, ModuleInput>>
  BY <1>0, PeerSeen, InputKept
<1>2. CASE JobStarts(j) \/ JobHandled(j)
  <2>1. UNCHANGED output
    BY <1>2 DEF JobStarts, JobHandled
  <2>2. CASE activeJobs' = activeJobs \ {j} /\ j.msg.kind = "garbled"
    BY <1>0, <1>1, <2>1, <2>2 DEF P!pluginVars, ModuleJobs, Due
  <2>3. CASE \E at : activeJobs' = (activeJobs \ {j}) \cup {Job(j.msg, at)}
    <3>1. PICK at, n : activeJobs' = (activeJobs \ {j}) \cup {n} /\ n = Job(j.msg, at)
      BY <2>3
    <3>2. n.msg = j.msg
      BY <3>1 DEF Job
    <3>3. {k.msg : k \in activeJobs'} = {k.msg : k \in activeJobs}
      BY <3>1, <3>2
    <3> QED BY <1>0, <1>1, <2>1, <3>3 DEF P!pluginVars, ModuleJobs, Due
  <2> QED BY <1>2, <2>2, <2>3 DEF JobStarts, JobHandled
<1>3. CASE JobReplies(j)
  <2>1. /\ j.at \in {"response", "error"} /\ j.at \in ToHostKinds
        /\ Replies(j.at, j.msg, listenDone) /\ activeJobs' = activeJobs \ {j}
    BY <1>3 DEF JobReplies, ToHostKinds
  <2>2. j.msg.kind \in Regular \ {"garbled"}
    BY <1>0, <2>1 DEF JobsFit
  <2>3. listenDone => ModulePeer = "forced"
    BY <1>0, PeerSeen DEF Accounted, listenDone
  <2>4. P!PeerReplies(j.at, j.msg, ModulePeer = "forced")
    BY <1>0, <2>1, <2>3, RepliesSeen DEF P!PeerReplies
  <2>5. j.msg \in ModuleJobs /\ j.msg.kind # "request_ready"
    BY <2>2 DEF ModuleJobs, Regular
  <2>6. {k.msg : k \in activeJobs'} = {k.msg : k \in activeJobs} \ {j.msg}
    BY <1>0, <2>1 DEF Placed
  <2>7. j.msg \notin Due /\ Due' = Due
    BY <1>0, <2>5 DEF Due, HandFits
  <2>8. ModuleJobs' = ModuleJobs \ {j.msg}
    BY <2>6, <2>7 DEF ModuleJobs
  <2> QED BY <1>0, <1>1, <2>1, <2>4, <2>5, <2>8 DEF P!PeerFinishes
<1> QED BY <1>2, <1>3

\* Shutdown, ForceShutdown and the end of the context.
LEMMA AppEndsSeen ==
  ASSUME RInv, AppEnds
  PROVE  P!PeerQuits \/ UNCHANGED P!pluginVars
<1>1. PICK how \in AppMay \ ends :
        ends' = ends \cup {how} /\ force' = (force \/ how = "ForceShutdown")
  BY DEF AppEnds
<1>2. /\ UNCHANGED <<listen, hand, graceful, activeJobs, sequence, sent, input, output>>
      /\ force \in BOOLEAN
  BY DEF AppEnds, RInv, AInv, TypeOK
<1>3. UNCHANGED <<ModuleJobs, ModuleInput>>
  BY <1>2, JobsKept, InputKept
<1>4. \/ UNCHANGED ModulePeer
      \/ ModulePeer = "serving" /\ ModulePeer' \in {"leaving", "forced"}
      \/ ModulePeer = "leaving" /\ ModulePeer' = "forced"
  BY <1>1, <1>2 DEF ModulePeer, ctxDone
<1> QED BY <1>2, <1>3, <1>4 DEF P!PeerQuits, P!pluginVars

\* SendMessage, SendErrorMessage and SendRequest.
LEMMA AppSeen ==
  ASSUME RInv, AppStep
  PROVE  \/ \E n \in PeerNotes \cup PeerErrors : P!PeerNote(n)
         \/ \E r \in PeerRequests : P!PeerRequest(r)
<1>1. PICK b \in PeerBodies \ sent :
        /\ sent' = sent \cup {b}
        /\ IF b \in PeerRequests THEN AppRequests(b) ELSE AppSends(b)
  BY DEF AppStep
<1>2. /\ OutputOK /\ b \in Bodies \cup {None} /\ NextSequence \in Ids
      /\ UNCHANGED <<listen, hand, flagVars, activeJobs, input>>
  BY SequenceType DEF RInv, AInv, TypeOK, OutputOK, AppStep, Bodies
<1>3. UNCHANGED <<ModulePeer, ModuleJobs, ModuleInput>>
  BY <1>2, JobsKept, InputKept, PeerSeen DEF flagVars
<1>4. ModulePeer # "off"
  BY DEF ModulePeer
<1>5. CASE b \in PeerRequests
  <2>1. PICK number \in ClockNumbers : Emits(Msg("plugin_request", number, b))
    BY <1>1, <1>5 DEF AppRequests
  <2>2. P!PeerSends(<<P!Msg("plugin_request", number, b)>>)
    BY <1>2, <2>1, WholeSeen, ClockAssumption DEF ToHostKinds
  <2> QED BY <1>1, <1>3, <1>4, <1>5, <2>2 DEF P!PeerRequest, AppRequests
<1>6. CASE b \notin PeerRequests
  <2>1. PICK kind \in {"error", "notify"} :
          /\ kind = IF b \in PeerErrors THEN "error" ELSE "notify"
          /\ Emits(Msg(kind, NextSequence, b)) /\ sequence' = NextSequence
    BY <1>1, <1>6 DEF AppSends
  <2>2. P!PeerSends(<<P!Msg(kind, P!NextPeerSeq, b)>>)
    BY <1>2, <2>1, WholeSeen, NumberSeen DEF ToHostKinds
  <2>3. b \in PeerNotes \cup PeerErrors
    BY <1>6 DEF PeerBodies
  <2> QED BY <1>1, <1>3, <1>4, <2>1, <2>2, <2>3, NumberSeen DEF P!PeerNote
<1> QED BY <1>5, <1>6

\* What the host sends comes last, also behind the message in Listen's hand.
LEMMA HostSendsSeen ==
  ASSUME RInv, HostSends
  PROVE  P!HostSends
<1>1. PICK m \in HostMessages \ hostSent : input' = Append(input, m)
  BY DEF HostSends
<1>2. /\ UNCHANGED <<listen, hand, flagVars, activeJobs, sequence, sent, output>>
      /\ m \in ToPluginMsgs /\ input \in Seq(ToPluginMsgs) /\ Unanswered \in Seq(ToPluginMsgs)
  BY HostAssumption DEF HostSends, RInv, AInv, TypeOK, Unanswered
<1>3. Unanswered \o Append(input, m) = Append(Unanswered \o input, m)
  BY <1>2
<1>4. ModuleInput' = Append(ModuleInput, m)
  BY <1>1, <1>2, <1>3 DEF ModuleInput, Unanswered
<1>5. UNCHANGED <<ModulePeer, ModuleJobs>>
  BY <1>2, JobsKept, PeerSeen DEF flagVars
<1>6. m \in P!ToPluginMsgs
  BY <1>2 DEF P!ToPluginMsgs, ToPluginMsgs, P!ToPluginKinds, ToPluginKinds, P!Ids, Ids,
              P!Bodies, Bodies, P!PeerBodies, PeerBodies
<1> QED BY <1>2, <1>4, <1>5, <1>6 DEF P!HostSends

\* Every step of the Module is one of the plugin, or none.
LEMMA NextSeen == RInv /\ RInv' /\ [Next]_vars => [P!PluginNext]_(P!pluginVars)
<1> SUFFICES ASSUME RInv, RInv', [Next]_vars
             PROVE  P!PluginNext \/ UNCHANGED P!pluginVars
  OBVIOUS
<1> USE DEF P!PluginNext
<1>1. CASE ListenStep
  <2>1. TypeOK'
    BY DEF RInv, AInv
  <2> QED BY <1>1, <2>1, ListenSeen
<1>2. CASE JobStep \/ HandlerReturns
  BY <1>2, JobsStep DEF JobStep, HandlerReturns, P!PeerWorking
<1>3. CASE AppEnds
  BY <1>3, AppEndsSeen DEF P!PeerWorking
<1>4. CASE AppStep
  BY <1>4, AppSeen DEF P!PeerWorking
<1>5. CASE HostSends
  BY <1>5, HostSendsSeen
<1>6. CASE HostReceives
  <2>1. /\ output # <<>> /\ output' = Tail(output)
        /\ UNCHANGED <<listen, hand, flagVars, activeJobs, sequence, sent, input>>
    BY <1>6 DEF HostReceives
  <2>2. UNCHANGED <<ModulePeer, ModuleJobs, ModuleInput>>
    BY <2>1, JobsKept, InputKept, PeerSeen DEF flagVars
  <2> QED BY <2>1, <2>2 DEF P!HostTakes
<1>7. CASE WatcherStep \/ GracefulStep \/ HostCloses \/ UNCHANGED vars
  <2>1. /\ UNCHANGED <<listen, hand, force, ends, activeJobs, sequence, sent, input, output>>
        /\ graceful # "none" <=> graceful' # "none"
    BY <1>7 DEF WatcherStep, GracefulStep, HostCloses, vars, flagVars
  <2>2. UNCHANGED ModulePeer
    BY <2>1 DEF ModulePeer, ctxDone
  <2> QED BY <2>1, <2>2, JobsKept, InputKept DEF P!pluginVars
<1> QED BY <1>1, <1>2, <1>3, <1>4, <1>5, <1>6, <1>7 DEF Next

\* A Module starts as a plugin that has not announced itself.
LEMMA InitSeen == Init => P!PluginInit
<1> SUFFICES ASSUME Init PROVE P!PluginInit
  OBVIOUS
<1>1. <<>> \o <<>> = <<>>
  OBVIOUS
<1>2. ModuleInput = <<>> /\ ModuleJobs = {} /\ ModulePeer = "starting"
  BY <1>1 DEF Init, ModuleInput, Unanswered, ModuleJobs, Due, ModulePeer
<1> QED BY <1>2 DEF Init, P!PluginInit

\* PluginSpec: whatever the interleaving of Listen, its goroutines, the plugin's own
\* code and the host, and for any messages and any room in the pipes, what the host
\* sees of a Module it may see of the plugin Loader.tla is checked with.
THEOREM ImplementsPlugin == Spec => PluginSpec
<1>1. Init => P!PluginInit /\ RInv
  BY InitSeen, RInvInit
<1>2. RInv /\ [Next]_vars => RInv'
  BY RInvNext
<1>3. RInv /\ RInv' /\ [Next]_vars => [P!PluginNext]_(P!pluginVars)
  BY NextSeen
<1> QED BY <1>1, <1>2, <1>3, PTL DEF Spec, PluginSpec, P!PluginSpec
=============================================================================
