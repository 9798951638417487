---------------------------- MODULE LoaderReplies ----------------------------
(* What stands behind the reply a call returns: its own request, or a       *)
(* message that went out under the same number.  And what is left of a call *)
(* in pendingRequests once it has returned.                                 *)
EXTENDS LoaderCorrelation

-----------------------------------------------------------------------------
(* pendingRequests keeps nothing of a call that has returned, even when     *)
(* numbers wrap around and calls share them.                                *)

\* Call and its deferred delete: a call changes its number only before it is
\* registered, and its last step takes away the entry under its number.
LEMMA CallEntries ==
  ASSUME TypeOK, NoStaleEntry, NEW c \in Calls,
         CallStart(c) \/ CallStep(c) \/ CallExpires(c)
  PROVE  NoStaleEntry'
<1>1. /\ pc \in [Calls -> CallPcs] /\ id \in [Calls -> Ids]
      /\ pendingRequests \in [Ids -> Calls \cup {None}]
  BY DEF TypeOK, CallTypeOK
<1>2. ASSUME UNCHANGED <<id, pendingRequests>>, NEW to \in CallPcs,
             pc' = [pc EXCEPT ![c] = to],
             InFlight(c) => to \in {"write", "blocked", "wait", "deferred"}
      PROVE  NoStaleEntry'
  BY <1>1, <1>2 DEF NoStaleEntry, InFlight
<1>3. CASE CallStart(c)
  <2>1. PICK to \in {"done", "gen"} : pc' = [pc EXCEPT ![c] = to]
    BY <1>3 DEF CallStart, CallBegin, Returns, Goes
  <2>2. pc[c] = "idle" /\ UNCHANGED <<id, pendingRequests>>
    BY <1>3 DEF CallStart, CallBegin
  <2> QED BY <1>2, <2>1, <2>2 DEF InFlight, CallPcs
<1>4. CASE CallExpires(c)
  BY <1>2, <1>4 DEF CallExpires, CallGivesUp, Returns, Goes, CallPcs
<1>5. CASE CallStep(c)
  <2>1. CASE GenerateAdd(c)
    <3>1. pc[c] = "gen" /\ UNCHANGED pendingRequests /\ \A d \in Calls \ {c} : id'[d] = id[d]
      BY <1>1, <2>1 DEF GenerateAdd
    <3>2. \A d \in Calls \ {c} : pc'[d] = pc[d]
      BY <1>1, <2>1 DEF GenerateAdd, Goes
    <3> QED BY <1>1, <3>1, <3>2 DEF NoStaleEntry, InFlight
  <2>2. CASE GenerateCheck(c)
    <3>1. PICK to \in {"register", "gen", "fallback"} : pc' = [pc EXCEPT ![c] = to]
      BY <2>2 DEF GenerateCheck, Goes
    <3> QED BY <1>2, <2>2, <3>1 DEF GenerateCheck, InFlight, CallPcs
  <2>3. CASE GenerateFallback(c)
    <3>1. pc[c] = "fallback" /\ UNCHANGED pendingRequests
          /\ \A d \in Calls \ {c} : id'[d] = id[d] /\ pc'[d] = pc[d]
      BY <1>1, <2>3 DEF GenerateFallback, Goes
    <3> QED BY <1>1, <3>1 DEF NoStaleEntry, InFlight
  <2>4. CASE Register(c)
    <3>1. CASE closed
      BY <1>2, <2>4, <3>1 DEF Register, Returns, Goes, InFlight, CallPcs
    <3>2. CASE ~closed
      <4>1. /\ pendingRequests' = [pendingRequests EXCEPT ![id[c]] = c]
            /\ pc' = [pc EXCEPT ![c] = "write"] /\ id' = id
        BY <2>4, <3>2 DEF Register, Goes
      <4>2. id[c] \in Ids
        BY <1>1
      <4> QED BY <1>1, <4>1, <4>2 DEF NoStaleEntry, InFlight
    <3> QED BY <3>1, <3>2
  <2>5. CASE CallDeferred(c)
    <3>1. /\ pendingRequests' = [pendingRequests EXCEPT ![id[c]] = None]
          /\ pc' = [pc EXCEPT ![c] = "done"] /\ id' = id
      BY <2>5 DEF CallDeferred, Goes
    <3>2. \A i \in Ids : pendingRequests'[i] # None =>
            pendingRequests'[i] = pendingRequests[i] /\ pendingRequests[i] # c
      BY <1>1, <3>1 DEF NoStaleEntry
    <3> QED BY <1>1, <3>1, <3>2 DEF NoStaleEntry, InFlight
  <2>6. CASE CallWrite(c) \/ CallReceive(c)
    <3>1. PICK to \in {"wait", "blocked", "deferred"} : pc' = [pc EXCEPT ![c] = to]
      BY <2>6 DEF CallWrite, CallReceive, Returns, Goes
    <3>2. UNCHANGED <<id, pendingRequests>>
      BY <2>6 DEF CallWrite, CallReceive
    <3> QED BY <1>2, <3>1, <3>2 DEF CallPcs
  <2> QED BY <1>5, <2>1, <2>2, <2>3, <2>4, <2>5, <2>6 DEF CallStep
<1> QED BY <1>3, <1>4, <1>5

\* Only calls and handleMessages write pendingRequests, and its cleanup leaves
\* nothing.
LEMMA NextEntries == TypeOK /\ NoStaleEntry /\ [Next]_vars => NoStaleEntry'
<1> SUFFICES ASSUME TypeOK, NoStaleEntry, [Next]_vars PROVE NoStaleEntry'
  OBVIOUS
<1>1. CASE \E c \in Calls : CallStart(c) \/ CallStep(c) \/ CallExpires(c)
  BY <1>1, CallEntries
<1>2. ASSUME UNCHANGED <<id, pendingRequests, pc>> PROVE NoStaleEntry'
  BY <1>2 DEF NoStaleEntry, InFlight
<1>3. CASE HandlerStep
  <2>1. CASE HandlerCleanup
    BY <2>1 DEF HandlerCleanup, NoStaleEntry
  <2>2. CASE ~HandlerCleanup
    BY <1>2, <1>3, <2>2 DEF HandlerStep, HandlerSend
  <2> QED BY <2>1, <2>2
<1>4. CASE (\E n \in HostNotes : NoteStep(n)) \/ (\E r \in PeerRequests : ServeStep(r))
  BY <1>2, <1>4 DEF NoteStep, ServeStep, callVars
<1>5. CASE LoadStep \/ LoadCtxExpires \/ MonitorStep
  BY <1>2, <1>5 DEF LoadStep, LoadCtxExpires, MonitorStep, callVars
<1>6. CASE \E k \in Closers : CloseStart(k) \/ CloseStep(k)
  BY <1>2, <1>6 DEF CloseStart, CloseStep, CloseFrame, callVars
<1>7. CASE PeerListens \/ PeerWorks \/ PeerDies
  BY <1>2, <1>7 DEF PeerListens, PeerWorks, PeerDies, PeerFrame, callVars
<1>8. CASE UNCHANGED vars
  BY <1>2, <1>8 DEF vars, callVars
<1> QED BY <1>1, <1>3, <1>4, <1>5, <1>6, <1>7, <1>8 DEF Next

\* Every path out of Call takes its entry along: none in pendingRequests
\* outlives its call or stands under another number, wrapped around or not.
THEOREM NoEntryLeft == Spec => []NoStaleEntry
<1>1. Init => NoStaleEntry
  BY DEF Init, NoStaleEntry
<1>2. TypeOK /\ NoStaleEntry /\ [Next]_vars => NoStaleEntry'
  BY NextEntries
<1> QED BY <1>1, <1>2, TypeCorrect, PTL DEF Spec

-----------------------------------------------------------------------------
(* What a message that asks for an answer, and an answer, can be about.     *)

\* The invocations, with the numbers, that a message may be about when it is about
\* no call.
Accounts == {a \in (Bodies \cup {None}) \X Ids : Explained(a[1], a[2])}

Accounted(m, accounts) == m.body \in Calls \/ <<m.body, m.seq>> \in accounts

\* A message the plugin may answer or refuse: anything but a control message.
SaidToPlugin(accounts) ==
  {m \in ToPluginMsgs : m.kind \in {"request", "message", "garbled"} => Accounted(m, accounts)}

\* What it still has to answer: processMessage, and the acknowledgment of the
\* ready signal.
Undertaken(accounts) ==
  {m \in ToPluginMsgs : m.kind # "request_ready" => Accounted(m, accounts)}

\* What handleMessages looks up under its number.
SaidToHost(accounts) ==
  {m \in ToHostMsgs : m.kind \in {"response", "error"} => Accounted(m, accounts)}

StreamsSay ==
  /\ toPlugin \in Seq(SaidToPlugin(Accounts))
  /\ jobs \subseteq Undertaken(Accounts)
  /\ toHost \in Seq(SaidToHost(Accounts))

HandSays == handler = "send" => Accounted(sending.msg, Accounts)

\* Each request of the plugin is sent once, and gets its goroutine once.
Fresh == {r \in PeerRequests \cap peerSent : servePc[r] = "none"}
Announce(ms, fresh) ==
  \A i \in 1 .. Len(ms) : ms[i].kind = "plugin_request" =>
    /\ ms[i].body \in fresh
    /\ \A j \in 1 .. Len(ms) :
         ms[j].kind = "plugin_request" /\ ms[j].body = ms[i].body => j = i
RequestsOnce ==
  /\ Announce(toHost, Fresh)
  /\ \A r \in PeerRequests : servePc[r] # "none" => r \in peerSent

\* What a call has been given, or has returned, came under its number.
CallsSay ==
  \A c \in Calls :
    /\ respChan[c].state = "full" =>
         id[c] # 0 /\ Accounted(Msg("response", id[c], respChan[c].from), Accounts)
    /\ result[c].kind = "reply" =>
         id[c] # 0 /\ Accounted(Msg("response", id[c], result[c].from), Accounts)

RepliesInv == StreamsSay /\ HandSays /\ RequestsOnce /\ CallsSay

\* Read back: an account is an explanation.
LEMMA AccountsExplain ==
  ASSUME NEW b \in Bodies \cup {None}, NEW n \in Ids
  PROVE  <<b, n>> \in Accounts <=> Explained(b, n)
  BY DEF Accounts

\* The invariant says what RepliesExplained promises.
LEMMA InvExplains ==
  ASSUME TypeOK, Correlated, RepliesInv
  PROVE  RepliesExplained
<1> SUFFICES ASSUME NEW c \in Calls, result[c].kind = "reply", result[c].from # c
             PROVE  Explained(result[c].from, id[c])
  BY DEF RepliesExplained
<1>1. result[c].from \in Bodies \cup {None} /\ id[c] \in Ids
  BY DEF TypeOK, CallTypeOK, Results
<1>2. result[c].from \notin Calls
  BY DEF Correlated, CallsNeverCross
<1>3. <<result[c].from, id[c]>> \in Accounts
  BY <1>2 DEF RepliesInv, CallsSay, Accounted, Msg
<1> QED BY <1>1, <1>3, AccountsExplain

\* More explanations explain the same messages.
LEMMA MoreAccounts ==
  ASSUME NEW A, NEW B, A \subseteq B
  PROVE  /\ \A ms : ms \in Seq(SaidToPlugin(A)) => ms \in Seq(SaidToPlugin(B))
         /\ \A ms : ms \in Seq(SaidToHost(A)) => ms \in Seq(SaidToHost(B))
         /\ Undertaken(A) \subseteq Undertaken(B)
         /\ \A m : Accounted(m, A) => Accounted(m, B)
<1>1. \A m : Accounted(m, A) => Accounted(m, B)
  BY DEF Accounted
<1>2. /\ SaidToPlugin(A) \subseteq SaidToPlugin(B) /\ SaidToHost(A) \subseteq SaidToHost(B)
      /\ Undertaken(A) \subseteq Undertaken(B)
  BY <1>1 DEF SaidToPlugin, SaidToHost, Undertaken
<1> QED BY <1>1, <1>2

\* NewLoader starts with nothing to explain.
LEMMA InitReplies == Init => RepliesInv
  BY DEF Init, RepliesInv, StreamsSay, HandSays, RequestsOnce, CallsSay, Announce,
         EmptyChan, NoResult

-----------------------------------------------------------------------------
(* What the steps do to the explanations, and to what rests on them.        *)

\* An explanation that stays an explanation stays an account.
LEMMA AccountsGrow ==
  ASSUME \A b \in Bodies \cup {None} : \A n \in Ids : Explained(b, n) => Explained(b, n)'
  PROVE  Accounts \subseteq Accounts'
  BY DEF Accounts

\* Where no one-way message, announcement or request of the plugin moves, the
\* explanations stay as they are.
LEMMA AccountsStay ==
  ASSUME UNCHANGED <<notePc, noteSeq, servePc, serveSeq, loadPc, closePc>>
  PROVE  Accounts' = Accounts
  BY DEF Accounts, Explained, AnnouncementCut

\* A step that is not of a call or of the handler has the streams to answer for.
LEMMA ElsewhereReplies ==
  ASSUME RepliesInv, Accounts \subseteq Accounts', UNCHANGED <<id, respChan, result, sending>>,
         handler' = "send" => handler = "send",
         StreamsSay', RequestsOnce'
  PROVE  RepliesInv'
<1>1. \A m : Accounted(m, Accounts) => Accounted(m, Accounts')
  BY MoreAccounts
<1>2. HandSays'
  BY <1>1 DEF RepliesInv, HandSays
<1>3. CallsSay'
  BY <1>1 DEF RepliesInv, CallsSay
<1> QED BY <1>2, <1>3 DEF RepliesInv

\* Nothing joins the streams.
LEMMA StreamsKept ==
  ASSUME StreamsSay, Accounts \subseteq Accounts',
         toPlugin' = toPlugin \/ toPlugin' = <<>>,
         jobs' \subseteq jobs, toHost' = toHost
  PROVE  StreamsSay'
<1>1. <<>> \in Seq(SaidToPlugin(Accounts'))
  OBVIOUS
<1> QED BY <1>1, MoreAccounts DEF StreamsSay

\* A write that can be explained whole and cut short keeps the stream explained.
LEMMA WriteSays ==
  ASSUME NEW A, toPlugin \in Seq(SaidToPlugin(A)), NEW m \in SaidToPlugin(A),
         [m EXCEPT !.kind = "garbled"] \in SaidToPlugin(A),
         Written(m) \/ WriteFails \/ Aborted(m) \/ WriteBlocks
  PROVE  toPlugin' \in Seq(SaidToPlugin(A))
  BY DEF Written, WriteFails, Aborted, WriteBlocks

\* A message that is accounted for, cut short, still is.
LEMMA CutSays ==
  ASSUME NEW A, NEW m \in ToPluginMsgs, Accounted(m, A)
  PROVE  m \in SaidToPlugin(A) /\ [m EXCEPT !.kind = "garbled"] \in SaidToPlugin(A)
  BY DEF SaidToPlugin, Accounted, ToPluginMsgs, ToPluginKinds

\* A request of a call is about the call.
LEMMA RequestSays ==
  ASSUME NEW A, NEW c \in Calls, NEW number \in Ids
  PROVE  /\ Msg("request", number, c) \in SaidToPlugin(A)
         /\ [Msg("request", number, c) EXCEPT !.kind = "garbled"] \in SaidToPlugin(A)
<1>1. Msg("request", number, c) \in ToPluginMsgs
  BY MsgTypes DEF ToPluginKinds, Bodies
<1>2. Accounted(Msg("request", number, c), A)
  BY DEF Accounted, Msg
<1> QED BY <1>1, <1>2, CutSays

\* An announcement of the Loader asks for no answer, unless it was cut short.
LEMMA AnnouncementSays ==
  ASSUME NEW A, toPlugin \in Seq(SaidToPlugin(A)), NEW n \in Ids,
         NEW kind \in {"request_ready", "shutdown", "force_shutdown"},
         \/ Written(Msg(kind, n, None)) \/ WriteFails \/ WriteBlocks
         \/ Aborted(Msg(kind, n, None)) /\ <<None, n>> \in A
         \/ UNCHANGED <<toPlugin, stdinCopy>>
  PROVE  toPlugin' \in Seq(SaidToPlugin(A))
<1>1. Msg(kind, n, None) \in ToPluginMsgs
  BY MsgTypes DEF ToPluginKinds
<1>2. Msg(kind, n, None) \in SaidToPlugin(A)
  BY <1>1 DEF SaidToPlugin, Msg
<1>3. <<None, n>> \in A => Accounted(Msg(kind, n, None), A)
  BY DEF Accounted, Msg
<1>4. CASE Aborted(Msg(kind, n, None)) /\ <<None, n>> \in A
  BY <1>1, <1>3, <1>4, CutSays, WriteSays
<1>5. CASE Written(Msg(kind, n, None)) \/ WriteFails \/ WriteBlocks
           \/ UNCHANGED <<toPlugin, stdinCopy>>
  BY <1>2, <1>5 DEF Written, WriteFails, WriteBlocks
<1> QED BY <1>4, <1>5

-----------------------------------------------------------------------------
(* The inductive step, group by group.                                     *)

\* SendMessage and SendErrorMessage: the message goes out under the number taken
\* for it.
LEMMA NoteReplies ==
  ASSUME TypeOK, RepliesInv, NEW n \in HostNotes, NoteStep(n)
  PROVE  RepliesInv'
<1>1. /\ notePc \in [HostNotes -> {"idle", "write", "blocked", "done"}]
      /\ noteSeq \in [HostNotes -> Ids]
  BY DEF TypeOK, NoteTypeOK
<1>2. UNCHANGED <<id, respChan, result, sending, handler, servePc, serveSeq, loadPc, closePc,
                  jobs, toHost, peerSent>>
  BY DEF NoteStep, callVars, handlerVars, serveVars, lifeVars, peerVars, peerState
<1>3. Accounts \subseteq Accounts'
  <2>1. notePc[n] # "idle" => noteSeq' = noteSeq /\ notePc'[n] # "idle"
    BY <1>1 DEF NoteStep, NoteBegin, NoteWrite, NoteUnblocked
  <2>2. \A k \in HostNotes \ {n} : notePc'[k] = notePc[k] /\ noteSeq'[k] = noteSeq[k]
    BY <1>1 DEF NoteStep, NoteBegin, NoteWrite, NoteUnblocked
  <2> QED BY <1>1, <1>2, <2>1, <2>2, AccountsGrow DEF Explained, AnnouncementCut
<1>4. toPlugin' \in Seq(SaidToPlugin(Accounts'))
  <2>1. toPlugin \in Seq(SaidToPlugin(Accounts'))
    BY <1>3, MoreAccounts DEF RepliesInv, StreamsSay
  <2>2. CASE NoteWrite(n)
    <3> DEFINE m == Msg("message", noteSeq[n], n)
    <3>1. m \in ToPluginMsgs /\ n \in Bodies
      BY <1>1, MsgTypes DEF ToPluginKinds, Bodies
    <3>2. <<n, noteSeq[n]>> \in Accounts
      BY <1>1, <2>2, <3>1, AccountsExplain DEF NoteWrite, Explained
    <3>3. Accounted(m, Accounts')
      BY <1>3, <3>2 DEF Accounted, Msg
    <3>4. Written(m) \/ WriteFails \/ Aborted(m) \/ WriteBlocks
      BY <2>2 DEF NoteWrite
    <3> HIDE DEF m
    <3> QED BY <2>1, <3>1, <3>3, <3>4, CutSays, WriteSays
  <2>3. CASE UNCHANGED toPlugin
    BY <2>1, <2>3
  <2> QED BY <2>2, <2>3 DEF NoteStep, NoteBegin, NoteUnblocked, WriteFails
<1>5. StreamsSay'
  BY <1>2, <1>3, <1>4, MoreAccounts DEF RepliesInv, StreamsSay
<1>6. RequestsOnce'
  BY <1>2 DEF RepliesInv, RequestsOnce, Fresh
<1> QED BY <1>2, <1>3, <1>5, <1>6, ElsewhereReplies

\* The host's answer to a request of the plugin carries that request's number.
LEMMA ServeReplies ==
  ASSUME TypeOK, RepliesInv, NEW r \in PeerRequests, ServeStep(r)
  PROVE  RepliesInv'
<1>1. /\ servePc \in [PeerRequests -> {"none", "handle", "write", "blocked", "done"}]
      /\ serveSeq \in [PeerRequests -> Ids]
  BY DEF TypeOK, ServeTypeOK
<1>2. UNCHANGED <<id, respChan, result, sending, handler, notePc, noteSeq, serveSeq, loadPc,
                  closePc, jobs, toHost, peerSent>>
  BY DEF ServeStep, callVars, handlerVars, noteVars, lifeVars, peerVars, peerState
<1>3. servePc[r] # "none" /\ \E to \in {"done", "write", "blocked"} :
        servePc' = [servePc EXCEPT ![r] = to]
  BY DEF ServeStep, ServeHandled, ServeWrite, ServeGoes
<1>4. \A k \in PeerRequests : servePc'[k] = "none" <=> servePc[k] = "none"
  BY <1>1, <1>3
<1>5. Accounts \subseteq Accounts'
  BY <1>2, <1>4, AccountsGrow DEF Explained, AnnouncementCut
<1>6. toPlugin' \in Seq(SaidToPlugin(Accounts'))
  <2>1. toPlugin \in Seq(SaidToPlugin(Accounts'))
    BY <1>5, MoreAccounts DEF RepliesInv, StreamsSay
  <2>2. CASE ServeWrite(r)
    <3> DEFINE m == Msg("message", serveSeq[r], r)
    <3>1. m \in ToPluginMsgs /\ r \in Bodies
      BY <1>1, MsgTypes DEF ToPluginKinds, Bodies, PeerBodies
    <3>2. <<r, serveSeq[r]>> \in Accounts
      BY <1>1, <1>3, <3>1, AccountsExplain DEF Explained
    <3>3. Accounted(m, Accounts')
      BY <1>5, <3>2 DEF Accounted, Msg
    <3>4. Written(m) \/ WriteFails \/ Aborted(m) \/ WriteBlocks
      BY <2>2 DEF ServeWrite
    <3> HIDE DEF m
    <3> QED BY <2>1, <3>1, <3>3, <3>4, CutSays, WriteSays
  <2>3. CASE ServeHandled(r)
    BY <2>1, <2>3 DEF ServeHandled
  <2> QED BY <2>2, <2>3 DEF ServeStep
<1>7. StreamsSay'
  BY <1>2, <1>5, <1>6, MoreAccounts DEF RepliesInv, StreamsSay
<1>8. RequestsOnce'
  <2>1. Fresh' = Fresh
    BY <1>2, <1>4 DEF Fresh
  <2> QED BY <1>2, <1>4, <2>1 DEF RepliesInv, RequestsOnce
<1> QED BY <1>2, <1>5, <1>7, <1>8, ElsewhereReplies

\* Load: a "request_ready" that was cut short ends in the cleanup of Load.
LEMMA LoadReplies ==
  ASSUME TypeOK, RepliesInv, LoadStep
  PROVE  RepliesInv'
<1>1. NextSequence \in Ids
  BY NextSequenceType DEF TypeOK, NoteTypeOK
<1>2. UNCHANGED <<id, respChan, result, sending, notePc, noteSeq, servePc, serveSeq,
                  closePc, toHost, peerSent>>
  BY DEF LoadStep, callVars, serveVars
<1>3. handler' = "send" => handler = "send"
  BY DEF LoadStep, LoadMoves, LoadFork, LoadReady, RequestReady, LoadCleanup
<1>4. Accounts \subseteq Accounts'
  <2>1. loadPc \in {"close", "cancel", "failed"} => loadPc' \in {"close", "cancel", "failed"}
    BY DEF LoadStep, LoadMoves, LoadFork, LoadReady, RequestReady, LoadCleanup
  <2> QED BY <1>2, <2>1, AccountsGrow DEF Explained, AnnouncementCut
<1>5. StreamsSay'
  <2>1. CASE LoadMoves \/ LoadFork \/ LoadReady \/ LoadCleanup
    <3>1. (toPlugin' = toPlugin \/ toPlugin' = <<>>) /\ jobs' \subseteq jobs
      BY <2>1 DEF LoadMoves, LoadFork, LoadReady, LoadCleanup, ProcessClose, peerState
    <3> QED BY <1>2, <1>4, <3>1, StreamsKept DEF RepliesInv
  <2>2. CASE RequestReady
    <3> DEFINE m == Msg("request_ready", NextSequence, None)
    <3>1. \/ Written(m) \/ WriteFails \/ WriteBlocks \/ UNCHANGED <<toPlugin, stdinCopy>>
          \/ Aborted(m) /\ loadPc' = "close"
      BY <2>2 DEF RequestReady
    <3>2. loadPc' = "close" => <<None, NextSequence>> \in Accounts'
      BY <1>1 DEF Accounts, Explained, AnnouncementCut
    <3>3. PICK n \in Ids : n = NextSequence
      BY <1>1
    <3>4. PICK B : B = Accounts'
      OBVIOUS
    <3>5. toPlugin \in Seq(SaidToPlugin(B))
      BY <1>4, <3>4, MoreAccounts DEF RepliesInv, StreamsSay
    <3>6. toPlugin' \in Seq(SaidToPlugin(B))
      BY <3>1, <3>2, <3>3, <3>4, <3>5, AnnouncementSays
    <3>7. UNCHANGED jobs
      BY <2>2 DEF RequestReady, peerState
    <3> QED BY <1>2, <1>4, <3>4, <3>6, <3>7, MoreAccounts DEF RepliesInv, StreamsSay
  <2> QED BY <2>1, <2>2 DEF LoadStep
<1>6. RequestsOnce'
  BY <1>2 DEF RepliesInv, RequestsOnce, Fresh
<1> QED BY <1>2, <1>3, <1>4, <1>5, <1>6, ElsewhereReplies

\* Close and ForceClose: an announcement that was cut short is not waited for.
LEMMA CloseReplies ==
  ASSUME TypeOK, RepliesInv, NEW k \in Closers, CloseStart(k) \/ CloseStep(k)
  PROVE  RepliesInv'
<1> DEFINE Gave == {"cancel", "process", "join", "joined", "timedOut"}
<1>1. NextSequence \in Ids /\ closePc \in [Closers -> {"idle", "refused", "write", "blocked",
                          "ack", "cancel", "process", "join", "joined", "timedOut"}]
  BY NextSequenceType DEF TypeOK, NoteTypeOK, LifeTypeOK
<1>2. UNCHANGED <<id, respChan, result, sending, handler, notePc, noteSeq, servePc, serveSeq,
                  loadPc, toHost, peerSent>>
  BY DEF CloseStart, CloseStep, CloseFrame, callVars, serveVars
<1>3. \A j \in Closers : closePc[j] \in Gave => closePc'[j] \in Gave
  BY <1>1 DEF CloseStart, CloseStep, CloseBegin, CloseWrite, CloseAcked, CloseCancel,
              CloseProcess, CloseJoin, CloseGoes
<1>4. Accounts \subseteq Accounts'
  BY <1>2, <1>3, AccountsGrow DEF Explained, AnnouncementCut
<1>5. StreamsSay'
  <2>1. CASE CloseBegin(k) \/ CloseAcked(k) \/ CloseCancel(k) \/ CloseProcess(k) \/ CloseJoin(k)
    <3>1. (toPlugin' = toPlugin \/ toPlugin' = <<>>) /\ jobs' \subseteq jobs
      BY <2>1 DEF CloseBegin, CloseAcked, CloseCancel, CloseProcess, CloseJoin, ProcessClose,
                  peerState
    <3> QED BY <1>2, <1>4, <3>1, StreamsKept DEF RepliesInv
  <2>2. CASE CloseWrite(k)
    <3>1. PICK kind \in {"shutdown", "force_shutdown"} :
            LET m == Msg(kind, NextSequence, None) IN
              \/ Written(m) \/ WriteFails \/ WriteBlocks \/ UNCHANGED <<toPlugin, stdinCopy>>
              \/ Aborted(m) /\ closePc' = [closePc EXCEPT ![k] = "cancel"]
      BY <2>2 DEF CloseWrite, CloseGoes
    <3>2. closePc' = [closePc EXCEPT ![k] = "cancel"] => <<None, NextSequence>> \in Accounts'
      BY <1>1 DEF Accounts, Explained, AnnouncementCut
    <3>3. PICK n \in Ids : n = NextSequence
      BY <1>1
    <3>4. PICK B : B = Accounts'
      OBVIOUS
    <3>5. toPlugin \in Seq(SaidToPlugin(B))
      BY <1>4, <3>4, MoreAccounts DEF RepliesInv, StreamsSay
    <3>6. toPlugin' \in Seq(SaidToPlugin(B))
      BY <3>1, <3>2, <3>3, <3>4, <3>5, AnnouncementSays
    <3>7. UNCHANGED jobs
      BY <2>2 DEF CloseWrite, peerState
    <3> QED BY <1>2, <1>4, <3>4, <3>6, <3>7, MoreAccounts DEF RepliesInv, StreamsSay
  <2> QED BY <2>1, <2>2 DEF CloseStart, CloseStep
<1>6. RequestsOnce'
  BY <1>2 DEF RepliesInv, RequestsOnce, Fresh
<1> QED BY <1>2, <1>4, <1>5, <1>6, ElsewhereReplies

\* An expiring context, monitorProcess and a step that does nothing.
LEMMA QuietReplies ==
  ASSUME RepliesInv, LoadCtxExpires \/ MonitorStep \/ UNCHANGED vars
  PROVE  RepliesInv'
<1>1. UNCHANGED <<id, respChan, result, sending, handler, notePc, noteSeq, servePc, serveSeq,
                  loadPc, closePc, jobs, toPlugin, toHost, peerSent>>
  BY DEF LoadCtxExpires, MonitorStep, vars, callVars, handlerVars, noteVars, serveVars,
         lifeVars, peerVars, peerState, wireVars
<1>2. Accounts \subseteq Accounts'
  BY <1>1, AccountsStay
<1>3. StreamsSay'
  BY <1>1, <1>2, StreamsKept DEF RepliesInv
<1>4. RequestsOnce'
  BY <1>1 DEF RepliesInv, RequestsOnce, Fresh
<1> QED BY <1>1, <1>2, <1>3, <1>4, ElsewhereReplies

\* A call sends nothing but its own request, and keeps its number once it may be
\* answered.
LEMMA CallReplies ==
  ASSUME TypeOK, Correlated, RepliesInv, NEW c \in Calls,
         CallStart(c) \/ CallStep(c) \/ CallExpires(c)
  PROVE  RepliesInv'
<1>1. /\ id \in [Calls -> Ids] /\ respChan \in [Calls -> Chans]
      /\ result \in [Calls -> Results]
      /\ \A d \in Calls : pc[d] = "gen" => id[d] = 0
      /\ \A d \in Calls : pc[d] # "fallback"
  BY DEF TypeOK, CallTypeOK, Correlated, NumbersFresh
<1>2. CallFrame
  BY DEF CallStart, CallStep, CallExpires
<1>3. UNCHANGED <<handler, sending, notePc, noteSeq, servePc, serveSeq, loadPc, closePc,
                  jobs, toHost, peerSent>>
  BY <1>2 DEF CallFrame, handlerVars, noteVars, serveVars, lifeVars, peerVars, peerState
<1>4. Accounts' = Accounts
  BY <1>3, AccountsStay
<1>5. PICK A : A = Accounts
  OBVIOUS
<1>6. toPlugin' \in Seq(SaidToPlugin(A))
  <2>1. toPlugin \in Seq(SaidToPlugin(A)) /\ id[c] \in Ids
    BY <1>1, <1>5 DEF RepliesInv, StreamsSay
  <2>2. \/ UNCHANGED toPlugin
        \/ LET m == Msg("request", id[c], c) IN
             Written(m) \/ WriteFails \/ Aborted(m) \/ WriteBlocks
    BY DEF CallStart, CallStep, CallExpires, CallWrite, CallReceive, CallGivesUp
  <2> QED BY <2>1, <2>2, RequestSays, WriteSays
<1>7. StreamsSay'
  BY <1>3, <1>4, <1>5, <1>6 DEF RepliesInv, StreamsSay
<1>8. HandSays' /\ RequestsOnce'
  BY <1>3, <1>4 DEF RepliesInv, HandSays, RequestsOnce, Fresh
<1>9. CallsSay'
  <2>1. \A d \in Calls : id'[d] = id[d] \/ id[d] = 0
    BY <1>1 DEF CallStart, CallStep, CallExpires, CallBegin, GenerateAdd, GenerateCheck,
                GenerateFallback, Register, CallDeferred, CallWrite, CallReceive, CallGivesUp
  <2>2. CASE CallReceive(c)
    <3>1. UNCHANGED id
      BY <2>2 DEF CallReceive
    <3>2. respChan' = respChan \/ respChan' = [respChan EXCEPT ![c] = EmptyChan]
      BY <2>2 DEF CallReceive
    <3>3. \/ /\ respChan[c].state = "full"
             /\ result' = [result EXCEPT ![c] = [kind |-> "reply", from |-> respChan[c].from]]
          \/ \E kind \in ResultKinds \ {"reply"} :
               result' = [result EXCEPT ![c] = Outcome(kind)]
      BY <2>2 DEF CallReceive, Returns, ResultKinds
    <3>4. \A d \in Calls : respChan'[d].state = "full" => respChan'[d] = respChan[d]
      BY <1>1, <3>2 DEF EmptyChan
    <3>5. \A d \in Calls : result'[d].kind = "reply" =>
            \/ result'[d] = result[d]
            \/ respChan[d].state = "full" /\ result'[d].from = respChan[d].from
      BY <1>1, <3>3 DEF Outcome
    <3> QED BY <1>4, <3>1, <3>4, <3>5 DEF RepliesInv, CallsSay
  <2>3. CASE ~CallReceive(c)
    <3>1. UNCHANGED respChan
      BY <2>3 DEF CallStart, CallStep, CallExpires, CallWrite, CallGivesUp
    <3>2. \/ UNCHANGED result
          \/ \E kind \in ResultKinds \ {"reply"} :
               result' = [result EXCEPT ![c] = Outcome(kind)]
      BY <2>3 DEF CallStart, CallStep, CallExpires, CallBegin, GenerateAdd, GenerateCheck,
                  GenerateFallback, Register, CallDeferred, CallWrite, CallGivesUp, Returns,
                  ResultKinds
    <3>3. \A d \in Calls : result'[d].kind = "reply" => result'[d] = result[d]
      BY <1>1, <3>2 DEF Outcome
    <3> QED BY <1>4, <2>1, <3>1, <3>3 DEF RepliesInv, CallsSay
  <2> QED BY <2>2, <2>3
<1> QED BY <1>7, <1>8, <1>9 DEF RepliesInv

\* A stream whose first message is taken announces the rest once.
LEMMA TailAnnounces ==
  ASSUME NEW ms \in Seq(ToHostMsgs), ms # <<>>, NEW fresh, Announce(ms, fresh)
  PROVE  /\ Announce(Tail(ms), fresh)
         /\ Head(ms).kind = "plugin_request" =>
              Head(ms).body \in fresh /\ Announce(Tail(ms), fresh \ {Head(ms).body})
<1>1. /\ Len(Tail(ms)) = Len(ms) - 1 /\ Len(ms) \in Nat \ {0}
      /\ \A i \in 1 .. Len(Tail(ms)) : Tail(ms)[i] = ms[i + 1]
  BY HeadTailProperties, EmptySeq
<1>2. Head(ms) = ms[1]
  OBVIOUS
<1>3. \A i \in 1 .. Len(Tail(ms)) : i + 1 \in 1 .. Len(ms) /\ i + 1 # 1
  BY <1>1
<1>4. Announce(Tail(ms), fresh)
  <2> SUFFICES ASSUME NEW i \in 1 .. Len(Tail(ms)), Tail(ms)[i].kind = "plugin_request"
               PROVE  /\ Tail(ms)[i].body \in fresh
                      /\ \A j \in 1 .. Len(Tail(ms)) :
                           Tail(ms)[j].kind = "plugin_request" /\ Tail(ms)[j].body = Tail(ms)[i].body
                             => j = i
    BY DEF Announce
  <2>1. ms[i + 1].kind = "plugin_request" /\ i + 1 \in 1 .. Len(ms)
    BY <1>1, <1>3
  <2>2. \A j \in 1 .. Len(Tail(ms)) :
          ms[j + 1].kind = "plugin_request" /\ ms[j + 1].body = ms[i + 1].body => j + 1 = i + 1
    BY <1>3, <2>1 DEF Announce
  <2>3. \A j \in 1 .. Len(Tail(ms)) : j + 1 = i + 1 => j = i
    OBVIOUS
  <2> QED BY <1>1, <2>1, <2>2, <2>3 DEF Announce
<1>5. ASSUME Head(ms).kind = "plugin_request"
      PROVE  Head(ms).body \in fresh /\ Announce(Tail(ms), fresh \ {Head(ms).body})
  <2>1. 1 \in 1 .. Len(ms)
    BY <1>1
  <2>2. Head(ms).body \in fresh
    BY <1>2, <1>5, <2>1 DEF Announce
  <2>3. \A i \in 1 .. Len(Tail(ms)) :
          Tail(ms)[i].kind = "plugin_request" => Tail(ms)[i].body # Head(ms).body
    BY <1>1, <1>2, <1>3, <1>5, <2>1 DEF Announce
  <2> QED BY <1>4, <2>2, <2>3 DEF Announce
<1> QED BY <1>4, <1>5

\* handleMessages looks a reply up under the number it carries, and starts the one
\* goroutine of a request with the number of that request.
LEMMA HandlerReplies ==
  ASSUME TypeOK, Correlated, RepliesInv, HandlerStep
  PROVE  RepliesInv'
<1>1. /\ toHost \in Seq(ToHostMsgs) /\ respChan \in [Calls -> Chans] /\ HandlerTypeOK
      /\ servePc \in [PeerRequests -> {"none", "handle", "write", "blocked", "done"}]
      /\ serveSeq \in [PeerRequests -> Ids]
      /\ handler = "send" => /\ sending.msg.seq # 0 /\ sending.msg.seq = id[sending.to]
                             /\ sending.to \in Calls
  BY DEF TypeOK, WireTypeOK, CallTypeOK, ServeTypeOK, HandlerTypeOK, Correlated, MessagesMatch
<1>2. UNCHANGED <<id, result, notePc, noteSeq, loadPc, closePc, toPlugin, jobs, peerSent>>
  BY DEF HandlerStep, lifeVars, noteVars, peerVars, peerState
<1>3. toHost' = toHost \/ (toHost # <<>> /\ toHost' = Tail(toHost))
  BY DEF HandlerStep, HandlerSend, HandlerCleanup, HandleReady, HandleShutdownAck,
         HandleForceShutdownAck, HandleReply, HandleRequest, HandleIgnored, HandlerLoadDone,
         HandlerTakes
<1>4. /\ toHost \in Seq(SaidToHost(Accounts)) /\ Announce(toHost, Fresh)
      /\ \A r \in PeerRequests : servePc[r] # "none" => r \in peerSent
  BY DEF RepliesInv, StreamsSay, RequestsOnce
<1>5. /\ Accounts \subseteq Accounts'
      /\ RequestsOnce'
  <2>1. CASE HandleRequest
    <3> DEFINE m == Head(toHost)
    <3>1. toHost # <<>> /\ toHost' = Tail(toHost) /\ m.kind = "plugin_request"
      BY <2>1 DEF HandleRequest, HandlerTakes
    <3>2. m.body \in Fresh /\ Announce(toHost', Fresh \ {m.body})
      BY <1>1, <1>4, <3>1, TailAnnounces
    <3>3. /\ servePc' = [servePc EXCEPT ![m.body] = "handle"]
          /\ serveSeq' = [serveSeq EXCEPT ![m.body] = m.seq]
          /\ servePc[m.body] = "none" /\ m.body \in PeerRequests \cap peerSent
      BY <2>1, <3>2 DEF HandleRequest, Fresh
    <3> HIDE DEF m
    <3>4. \A r \in PeerRequests : servePc[r] # "none" =>
            r # m.body /\ servePc'[r] = servePc[r] /\ serveSeq'[r] = serveSeq[r]
      BY <1>1, <3>3
    <3>5. Fresh' = Fresh \ {m.body}
      BY <1>1, <1>2, <3>3 DEF Fresh
    <3>6. Accounts \subseteq Accounts'
      BY <1>2, <3>4, AccountsGrow DEF Explained, AnnouncementCut
    <3>7. \A r \in PeerRequests : servePc'[r] # "none" => r \in peerSent'
      BY <1>1, <1>2, <1>4, <3>3
    <3> QED BY <3>2, <3>5, <3>6, <3>7 DEF RequestsOnce
  <2>2. CASE ~HandleRequest
    <3>1. UNCHANGED <<servePc, serveSeq>>
      BY <2>2 DEF HandlerStep, serveVars
    <3>2. Fresh' = Fresh /\ Accounts' = Accounts
      BY <1>2, <3>1, AccountsStay DEF Fresh
    <3>3. Announce(toHost', Fresh)
      BY <1>1, <1>3, <1>4, TailAnnounces
    <3> QED BY <1>2, <1>4, <3>1, <3>2, <3>3 DEF RequestsOnce
  <2> QED BY <2>1, <2>2
<1>6. StreamsSay'
  <2>1. toHost' \in Seq(SaidToHost(Accounts))
    BY <1>3, <1>4
  <2> QED BY <1>2, <1>5, <2>1, MoreAccounts DEF RepliesInv, StreamsSay
<1>7. HandSays'
  <2>1. CASE HandleReply
    <3>1. Head(toHost) \in SaidToHost(Accounts) /\ sending'.msg = Head(toHost)
      BY <1>4, <2>1 DEF HandleReply, HandlerTakes
    <3>2. Head(toHost).kind \in {"response", "error"}
      BY <2>1 DEF HandleReply, HandlerTakes
    <3>3. Accounted(sending'.msg, Accounts')
      BY <1>5, <3>1, <3>2, MoreAccounts DEF SaidToHost
    <3> QED BY <3>3 DEF HandSays
  <2>2. CASE ~HandleReply
    <3>1. handler' # "send"
      BY <2>2 DEF HandlerStep, HandlerSend, HandlerCleanup, HandleReady, HandleShutdownAck,
            HandleForceShutdownAck, HandleRequest, HandleIgnored, HandlerLoadDone, HandlerTakes,
            handlerVars
    <3> QED BY <3>1 DEF HandSays
  <2> QED BY <2>1, <2>2
<1>8. CallsSay'
  <2>1. ASSUME \A d \in Calls : respChan'[d].state = "full" =>
                 \/ respChan'[d] = respChan[d]
                 \/ id[d] # 0 /\ Accounted(Msg("response", id[d], respChan'[d].from), Accounts)
        PROVE  CallsSay'
    BY <1>2, <1>5, <2>1, MoreAccounts DEF RepliesInv, CallsSay
  <2>2. CASE HandlerSend
    <3>1. Accounted(Msg("response", id[sending.to], sending.msg.body), Accounts)
      BY <1>1, <2>2 DEF HandlerSend, RepliesInv, HandSays, Accounted, Msg
    <3>2. \/ respChan' = respChan
          \/ respChan' = [respChan EXCEPT ![sending.to] = FullChan(sending.msg.body)]
      BY <2>2 DEF HandlerSend
    <3> QED BY <1>1, <2>1, <2>2, <3>1, <3>2 DEF HandlerSend, FullChan
  <2>3. CASE HandlerCleanup
    <3>1. \A d \in Calls : respChan'[d].state = "full" => respChan'[d] = respChan[d]
      BY <2>3 DEF HandlerCleanup, EmptyChan, ClosedChan
    <3> QED BY <2>1, <3>1
  <2>4. CASE UNCHANGED respChan
    BY <2>1, <2>4
  <2> QED BY <2>2, <2>3, <2>4 DEF HandlerStep
<1> QED BY <1>5, <1>6, <1>7, <1>8 DEF RepliesInv

\* A message of the plugin that announces nothing, or a request it has not sent
\* before, joins the stream.
LEMMA SendAnnounces ==
  ASSUME NEW ms \in Seq(ToHostMsgs), NEW m \in ToHostMsgs, NEW fresh, Announce(ms, fresh),
         NEW more, fresh \subseteq more,
         m.kind = "plugin_request" => m.body \in more /\ m.body \notin fresh
  PROVE  Announce(ms \o <<m>>, more)
<1>1. PICK n \in Nat : n = Len(ms)
  OBVIOUS
<1>2. PICK ns : ns = ms \o <<m>>
  OBVIOUS
<1>3. /\ Len(ns) = n + 1 /\ ns[n + 1] = m
      /\ \A i \in 1 .. n : ns[i] = ms[i]
  BY <1>1, <1>2
<1>4. \A i \in 1 .. n + 1 : i \in 1 .. n \/ i = n + 1
  BY <1>1
<1>5. \A i \in 1 .. n : ns[i].kind = "plugin_request" => ns[i].body \in fresh
  BY <1>1, <1>3 DEF Announce
<1>6. \A i, j \in 1 .. n :
        /\ ns[i].kind = "plugin_request" /\ ns[j].kind = "plugin_request"
        /\ ns[j].body = ns[i].body
        => j = i
  <2> SUFFICES ASSUME NEW i \in 1 .. n, NEW j \in 1 .. n, ns[i].kind = "plugin_request",
                      ns[j].kind = "plugin_request", ns[j].body = ns[i].body
               PROVE  j = i
    OBVIOUS
  <2>1. ns[i] = ms[i] /\ ns[j] = ms[j] /\ i \in 1 .. Len(ms) /\ j \in 1 .. Len(ms)
    BY <1>1, <1>3
  <2> QED BY <2>1 DEF Announce
<1>7. ASSUME NEW i \in 1 .. n + 1, ns[i].kind = "plugin_request"
      PROVE  /\ ns[i].body \in more
             /\ \A j \in 1 .. n + 1 :
                  ns[j].kind = "plugin_request" /\ ns[j].body = ns[i].body => j = i
  <2>1. CASE i \in 1 .. n
    BY <1>3, <1>4, <1>5, <1>6, <1>7, <2>1
  <2>2. CASE i = n + 1
    BY <1>3, <1>4, <1>5, <1>7, <2>2
  <2> QED BY <1>4, <2>1, <2>2
<1> QED BY <1>2, <1>3, <1>7 DEF Announce

\* What the plugin sends when it does not make a request of its own.
PeerSays(accounts) ==
  \/ UNCHANGED toHost
  \/ \E m \in SaidToHost(accounts) : m.kind # "plugin_request" /\ PeerSends(<<m>>)

\* A reply copies the number and the subject of what it replies to; other messages
\* of the plugin are no replies.
LEMMA ReplySays ==
  ASSUME NEW A, NEW m \in ToPluginMsgs,
         NEW kind \in ToHostKinds \ {"plugin_request"}, NEW cancellable,
         kind \in {"response", "error"} => Accounted(m, A),
         PeerReplies(kind, m, cancellable)
  PROVE  PeerSays(A)
<1>1. m.seq \in Ids /\ m.body \in Bodies \cup {None}
  BY DEF ToPluginMsgs
<1>2. Msg(kind, m.seq, m.body) \in ToHostMsgs /\ Msg("garbled", m.seq, m.body) \in ToHostMsgs
  BY <1>1, MsgTypes DEF ToHostKinds
<1>3. /\ Msg(kind, m.seq, m.body) \in SaidToHost(A)
      /\ Msg("garbled", m.seq, m.body) \in SaidToHost(A)
  BY <1>2 DEF SaidToHost, Accounted, Msg
<1>4. Msg(kind, m.seq, m.body).kind = kind /\ Msg("garbled", m.seq, m.body).kind = "garbled"
  BY DEF Msg
<1> QED BY <1>3, <1>4 DEF PeerReplies, PeerSays

\* Listen replies to what it took from the stream, or announces itself.
LEMMA ListenSays ==
  ASSUME TypeOK, NEW A, PeerListening,
         toPlugin \in Seq(SaidToPlugin(A)), jobs \subseteq Undertaken(A)
  PROVE  /\ PeerSays(A) /\ UNCHANGED peerSent
         /\ toPlugin' \in Seq(SaidToPlugin(A)) /\ jobs' \subseteq Undertaken(A)
<1>1. NextPeerSeq \in Ids /\ jobs \subseteq ToPluginMsgs
  BY NextPeerSeqType DEF TypeOK, PeerTypeOK
<1>2. \A kind \in {"ready", "garbled"} : /\ Msg(kind, NextPeerSeq, None) \in SaidToHost(A)
                                         /\ Msg(kind, NextPeerSeq, None).kind = kind
  <2>1. \A kind \in {"ready", "garbled"} : Msg(kind, NextPeerSeq, None) \in ToHostMsgs
    BY <1>1, MsgTypes DEF ToHostKinds
  <2> QED BY <2>1 DEF SaidToHost, Msg
<1>3. \A kinds : PeerTakes(kinds) =>
        /\ toPlugin' \in Seq(SaidToPlugin(A))
        /\ Head(toPlugin) \in SaidToPlugin(A)
        /\ Head(toPlugin) \in ToPluginMsgs
        /\ Head(toPlugin).kind \in kinds
  BY DEF PeerTakes, SaidToPlugin
<1>4. CASE PeerReady
  BY <1>2, <1>4 DEF PeerReady, PeerSays
<1>5. CASE PeerAccepts
  <2>1. Head(toPlugin) \in Undertaken(A)
    BY <1>3, <1>5 DEF PeerAccepts, SaidToPlugin, Undertaken
  <2> QED BY <1>3, <1>5, <2>1 DEF PeerAccepts, PeerSays
<1>6. CASE PeerRefuses
  <2>1. Accounted(Head(toPlugin), A)
    BY <1>3, <1>6 DEF PeerRefuses, SaidToPlugin
  <2>2. PeerSays(A)
    BY <1>3, <1>6, <2>1, ReplySays DEF PeerRefuses, ToHostKinds
  <2> QED BY <1>3, <1>6, <2>2 DEF PeerRefuses
<1>7. CASE PeerDrops \/ PeerForced
  BY <1>3, <1>7 DEF PeerDrops, PeerForced, PeerSays
<1>8. CASE PeerShutdown
  <2>1. PeerSays(A)
    BY <1>3, <1>8, ReplySays DEF PeerShutdown, ToHostKinds
  <2> QED BY <1>3, <1>8, <2>1 DEF PeerShutdown
<1>9. CASE PeerForceShutdown
  <2>1. PeerSays(A)
    BY <1>3, <1>9, ReplySays DEF PeerForceShutdown, ToHostKinds
  <2> QED BY <1>3, <1>9, <2>1 DEF PeerForceShutdown
<1>10. CASE PeerRequestReady
  <2>1. Head(toPlugin) \in Undertaken(A)
    BY <1>3, <1>10 DEF PeerRequestReady, Undertaken
  <2>2. PeerSays(A)
    BY <1>2, <1>10 DEF PeerRequestReady, PeerSays
  <2> QED BY <1>3, <1>10, <2>1, <2>2 DEF PeerRequestReady
<1>11. ASSUME NEW m \in jobs, PeerRequestReadyAck(m)
       PROVE  /\ PeerSays(A) /\ UNCHANGED <<peerSent, toPlugin>> /\ jobs' \subseteq jobs
  BY <1>1, <1>11, ReplySays DEF PeerRequestReadyAck, ToHostKinds
<1> QED BY <1>4, <1>5, <1>6, <1>7, <1>8, <1>9, <1>10, <1>11 DEF PeerListening

\* processMessage replies to what it undertook, and an Error the plugin sends of its
\* own accord is explained as one.
LEMMA WorkSays ==
  ASSUME TypeOK, PeerWorking, jobs \subseteq Undertaken(Accounts)
  PROVE  /\ UNCHANGED toPlugin /\ jobs' \subseteq jobs
         /\ \/ PeerSays(Accounts) /\ peerSent \subseteq peerSent'
            \/ \E r \in PeerRequests : PeerRequest(r)
<1>1. NextPeerSeq \in Ids /\ jobs \subseteq ToPluginMsgs
  BY NextPeerSeqType DEF TypeOK, PeerTypeOK
<1>2. PICK A : A = Accounts
  OBVIOUS
<1>3. ASSUME NEW m \in jobs, PeerFinishes(m)
      PROVE  PeerSays(A) /\ UNCHANGED <<toPlugin, peerSent>> /\ jobs' \subseteq jobs
  <2>1. Accounted(m, A)
    BY <1>2, <1>3 DEF PeerFinishes, Undertaken
  <2>2. PeerSays(A)
    BY <1>1, <1>3, <2>1, ReplySays DEF PeerFinishes, ToHostKinds
  <2> QED BY <1>3, <2>2 DEF PeerFinishes
<1>4. ASSUME NEW n \in PeerNotes \cup PeerErrors, PeerNote(n)
      PROVE  PeerSays(A) /\ UNCHANGED <<toPlugin, jobs>> /\ peerSent \subseteq peerSent'
  <2>1. PICK kind \in {"error", "notify"} :
          PeerSends(<<Msg(kind, NextPeerSeq, n)>>) /\ (kind = "error" => n \in PeerErrors)
    BY <1>4 DEF PeerNote
  <2>2. n \in Bodies /\ Msg(kind, NextPeerSeq, n) \in ToHostMsgs
    BY <1>1, MsgTypes DEF ToHostKinds, Bodies, PeerBodies
  <2>3. kind = "error" => <<n, NextPeerSeq>> \in A
    BY <1>1, <1>2, <2>1, <2>2, AccountsExplain DEF Explained
  <2>4. Msg(kind, NextPeerSeq, n) \in SaidToHost(A)
    BY <2>2, <2>3 DEF SaidToHost, Accounted, Msg
  <2>5. Msg(kind, NextPeerSeq, n).kind # "plugin_request"
    BY DEF Msg
  <2> QED BY <1>4, <2>1, <2>4, <2>5 DEF PeerNote, PeerSays
<1>5. CASE PeerQuits
  BY <1>2, <1>5 DEF PeerQuits, PeerSays
<1>6. ASSUME NEW r \in PeerRequests, PeerRequest(r)
      PROVE  UNCHANGED <<toPlugin, jobs>>
  BY <1>6 DEF PeerRequest
<1> QED BY <1>2, <1>3, <1>4, <1>5, <1>6 DEF PeerWorking

\* The plugin sends a request of its own, once.
LEMMA RequestAnnounces ==
  ASSUME TypeOK, RepliesInv, NEW r \in PeerRequests, PeerRequest(r),
         UNCHANGED <<notePc, noteSeq, servePc, serveSeq, loadPc, closePc>>
  PROVE  StreamsSay' /\ RequestsOnce'
<1>1. Accounts' = Accounts
  BY AccountsStay
<1>2. /\ toHost \in Seq(ToHostMsgs) /\ toHost \in Seq(SaidToHost(Accounts))
      /\ Announce(toHost, Fresh)
      /\ \A q \in PeerRequests : servePc[q] # "none" => q \in peerSent
  BY DEF TypeOK, WireTypeOK, RepliesInv, StreamsSay, RequestsOnce
<1>3. PICK number \in Ids : PeerSends(<<Msg("plugin_request", number, r)>>)
  BY ClockAssumption DEF PeerRequest
<1>4. PICK m : m = Msg("plugin_request", number, r)
  OBVIOUS
<1>5. m \in ToHostMsgs /\ m.kind = "plugin_request" /\ m.body = r
  <2>1. r \in Bodies
    BY DEF Bodies, PeerBodies
  <2> QED BY <1>4, <2>1, MsgTypes DEF Msg, ToHostKinds
<1>6. m \in SaidToHost(Accounts)
  BY <1>5 DEF SaidToHost
<1>7. toHost' = toHost \o <<m>> /\ toHost' \in Seq(SaidToHost(Accounts))
  BY <1>2, <1>3, <1>4, <1>6 DEF PeerSends
<1>8. r \notin peerSent /\ peerSent' = peerSent \cup {r} /\ UNCHANGED <<jobs, toPlugin>>
  BY DEF PeerRequest
<1>9. Fresh \subseteq Fresh' /\ r \in Fresh' /\ r \notin Fresh
  BY <1>2, <1>8 DEF Fresh
<1>10. PICK fresh, more : fresh = Fresh /\ more = Fresh'
  OBVIOUS
<1>11. Announce(toHost', more)
  BY <1>2, <1>5, <1>7, <1>9, <1>10, SendAnnounces
<1>12. RequestsOnce'
  BY <1>2, <1>8, <1>10, <1>11 DEF RequestsOnce
<1> QED BY <1>1, <1>7, <1>8, <1>12 DEF RepliesInv, StreamsSay

\* The plugin's steps: everything it sends is a reply, or its own.
LEMMA PluginReplies ==
  ASSUME TypeOK, RepliesInv, PeerListens \/ PeerWorks \/ PeerDies
  PROVE  RepliesInv'
<1>1. UNCHANGED <<id, respChan, result, sending, handler, notePc, noteSeq, servePc, serveSeq,
                  loadPc, closePc>>
  BY DEF PeerListens, PeerWorks, PeerDies, PeerFrame, callVars, handlerVars, noteVars,
         serveVars, lifeVars
<1>2. Accounts' = Accounts
  BY <1>1, AccountsStay
<1>3. PICK A : A = Accounts
  OBVIOUS
<1>4. /\ toPlugin \in Seq(SaidToPlugin(A)) /\ jobs \subseteq Undertaken(A)
      /\ toHost \in Seq(SaidToHost(A)) /\ toHost \in Seq(ToHostMsgs)
      /\ Announce(toHost, Fresh)
      /\ \A q \in PeerRequests : servePc[q] # "none" => q \in peerSent
  BY <1>3 DEF TypeOK, WireTypeOK, RepliesInv, StreamsSay, RequestsOnce
<1>5. ASSUME PeerSays(A), peerSent \subseteq peerSent',
             toPlugin' \in Seq(SaidToPlugin(A)), jobs' \subseteq Undertaken(A)
      PROVE  StreamsSay' /\ RequestsOnce'
  <2>1. PICK fresh, more : fresh = Fresh /\ more = Fresh'
    OBVIOUS
  <2>2. fresh \subseteq more
    BY <1>1, <1>5, <2>1 DEF Fresh
  <2>3. toHost' \in Seq(SaidToHost(A)) /\ Announce(toHost', more)
    <3>1. CASE UNCHANGED toHost
      BY <1>4, <2>1, <2>2, <3>1 DEF Announce
    <3>2. ASSUME NEW m \in SaidToHost(A), m.kind # "plugin_request", PeerSends(<<m>>)
          PROVE  toHost' \in Seq(SaidToHost(A)) /\ Announce(toHost', more)
      <4>1. m \in ToHostMsgs /\ toHost' = toHost \o <<m>>
        BY <3>2 DEF SaidToHost, PeerSends
      <4>2. Announce(toHost', more)
        BY <1>4, <2>1, <2>2, <3>2, <4>1, SendAnnounces
      <4> QED BY <1>4, <4>1, <4>2
    <3> QED BY <1>5, <3>1, <3>2 DEF PeerSays
  <2>4. StreamsSay'
    BY <1>2, <1>3, <1>5, <2>3 DEF StreamsSay
  <2>5. RequestsOnce'
    BY <1>1, <1>4, <1>5, <2>1, <2>3 DEF RequestsOnce
  <2> QED BY <2>4, <2>5
<1>6. StreamsSay' /\ RequestsOnce'
  <2>1. CASE PeerListens
    BY <1>4, <1>5, <2>1, ListenSays DEF PeerListens
  <2>2. CASE PeerWorks
    <3>1. ASSUME NEW r \in PeerRequests, PeerRequest(r)
          PROVE  StreamsSay' /\ RequestsOnce'
      BY <1>1, <3>1, RequestAnnounces
    <3> QED BY <1>3, <1>4, <1>5, <2>2, <3>1, WorkSays DEF PeerWorks
  <2>3. CASE PeerDies
    <3>1. toPlugin' = <<>> /\ jobs' = {} /\ UNCHANGED <<toHost, peerSent>>
      BY <2>3 DEF PeerDies
    <3> QED BY <1>5, <3>1 DEF PeerSays
  <2> QED BY <2>1, <2>2, <2>3
<1> QED BY <1>1, <1>2, <1>6, ElsewhereReplies

\* Every step of host and plugin keeps every reply explained.
LEMMA NextReplies ==
  TypeOK /\ Correlated /\ RepliesInv /\ [Next]_vars => RepliesInv'
<1> SUFFICES ASSUME TypeOK, Correlated, RepliesInv, [Next]_vars PROVE RepliesInv'
  OBVIOUS
<1>1. CASE \E c \in Calls : CallStart(c) \/ CallStep(c) \/ CallExpires(c)
  BY <1>1, CallReplies
<1>2. CASE \E n \in HostNotes : NoteStep(n)
  BY <1>2, NoteReplies
<1>3. CASE HandlerStep
  BY <1>3, HandlerReplies
<1>4. CASE \E r \in PeerRequests : ServeStep(r)
  BY <1>4, ServeReplies
<1>5. CASE LoadStep
  BY <1>5, LoadReplies
<1>6. CASE \E k \in Closers : CloseStart(k) \/ CloseStep(k)
  BY <1>6, CloseReplies
<1>7. CASE LoadCtxExpires \/ MonitorStep \/ UNCHANGED vars
  BY <1>7, QuietReplies
<1>8. CASE PeerListens \/ PeerWorks \/ PeerDies
  BY <1>8, PluginReplies
<1> QED BY <1>1, <1>2, <1>3, <1>4, <1>5, <1>6, <1>7, <1>8 DEF Next

\* Whatever a call returns as its reply is the reply to its own request, to a
\* one-way message that went out under its number, or the refusal of an
\* announcement that was cut short.
THEOREM RepliesHold ==
  ASSUME NoWrap
  PROVE  Spec => []RepliesExplained
<1>1. Init => RepliesInv
  BY InitReplies
<1>2. TypeOK /\ Correlated /\ RepliesInv /\ [Next]_vars => RepliesInv'
  BY NextReplies
<1>3. TypeOK /\ Correlated /\ RepliesInv => RepliesExplained
  BY InvExplains
<1> QED BY <1>1, <1>2, <1>3, TypeCorrect, CorrelationHolds, PTL DEF Spec
\* Call correlates exactly when calls are all there is: with no one-way message, error
\* message or request of the plugin beside them, every call returns the reply to its own
\* request, as long as no announcement of the Loader may have been cut short.
THEOREM CallsAlone ==
  ASSUME NoWrap, HostNotes = {}, PeerErrors = {}, PeerRequests = {}
  PROVE  Spec => [](~AnnouncementCut => ResponseIntegrity)
<1>1. RepliesExplained => (~AnnouncementCut => ResponseIntegrity)
  BY DEF RepliesExplained, Explained, ResponseIntegrity
<1> QED BY <1>1, RepliesHold, PTL
=============================================================================
