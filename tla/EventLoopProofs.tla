-------------------------- MODULE EventLoopProofs --------------------------
(***************************************************************************)
(* Proofs about EventLoop, for every value of its constants.               *)
(***************************************************************************)
EXTENDS EventLoop, SequenceTheorems, TLAPS

----------------------------------------------------------------------------
(* The inductive invariant.                                                *)

ClosingPoints == {"rate_closing", "investigation_closing", "profiling_closing",
                  "leave_investigation", "leave_profiling", "leave_counters"}

\* Sessions that have not been opened have left no trace, and only opened
\* sessions are held or being stopped.
FreshUntouched ==
  /\ \A s \in Sid : s > opened =>
       server[s] = "unopened" /\ ~silenced[s] /\ reader[s] = "unborn"
  /\ \A k \in Kinds : handles[k] = NoSession \/ handles[k] \in Opened
  /\ stopping = NoSession \/ stopping \in Opened

\* A held session has not been told to stop, and is held for what it was
\* opened for, so no session is held twice.
HeldIsLive ==
  \A k \in Kinds : handles[k] # NoSession =>
    ~silenced[handles[k]] /\ kind[handles[k]] = k

\* A session that is not held has been told to stop, and unless its request
\* was lost or is still in flight it is no longer open.  A process that is gone
\* has none open.
LetGoIsClosed ==
  /\ \A s \in Opened : silenced[s] \/ \E k \in Kinds : handles[k] = s
  /\ \A s \in Opened : silenced[s] /\ s # stopping /\ ~refused[s] => ~Writing(s)
  /\ ~alive => \A s \in Sid : ~Writing(s)

\* A stop is in flight only where the event loop waits for one, and cleaning up
\* lets go of one kind after the other.
MainProgress ==
  /\ stopping # NoSession => silenced[stopping] /\ main \in ClosingPoints
  /\ main = "rate_closing" => handles["counters"] = NoSession
  /\ main = "reopen" => handles["counters"] = NoSession
  /\ main \in {"leave_profiling", "leave_counters", "left"}
       => handles["investigation"] = NoSession
  /\ main \in {"leave_counters", "left"} => handles["profiling"] = NoSession
  /\ main = "left" => handles["counters"] = NoSession
  /\ main = "leave_investigation" /\ stopping # NoSession
       => handles["investigation"] = NoSession
  /\ main = "leave_profiling" /\ stopping # NoSession => handles["profiling"] = NoSession
  /\ main = "leave_counters" /\ stopping # NoSession => handles["counters"] = NoSession

\* What the reconciliation of one turn has established, at each later point
\* of the turn.
Reconciled ==
  /\ handles["counters"] # NoSession => rate[handles["counters"]] = app.interval
  /\ ProfileCollecting(app) => IsProfiling(app)
  /\ main = "investigation_closing" =>
       handles["investigation"] = NoSession /\ ~IsInvestigating(app)
  /\ main \in {"profiling", "profiling_closing", "check", "draw"} =>
       /\ handles["investigation"] # NoSession => IsInvestigating(app)
       /\ IsInvestigating(app) => handles["investigation"] # NoSession \/ app.runtimeError
  /\ main = "profiling_closing" =>
       handles["profiling"] = NoSession /\ ~ProfileCollecting(app)
  /\ main \in {"check", "draw"} =>
       /\ handles["profiling"] # NoSession => IsProfiling(app)
       /\ ProfileCollecting(app) => handles["profiling"] # NoSession

\* TypeOK in two halves: what sessions are made of, and the rest of the loop.
SessionTypeOK ==
  /\ ServerTypeOK
  /\ handles \in [Kinds -> Sid \cup {NoSession}]
  /\ stopping \in Sid \cup {NoSession}
  /\ kind \in [Sid -> Kinds]
  /\ rate \in [Sid -> Nat]
  /\ silenced \in [Sid -> BOOLEAN]
  /\ refused \in [Sid -> BOOLEAN]
  /\ reader \in [Sid -> ReaderPoints]
  /\ outcome \in [Sid -> {"ok", "error"}]

LoopTypeOK ==
  /\ app \in App
  /\ channel \in Seq(Message)
  /\ Len(channel) <= ChannelCapacity
  /\ main \in Points
  /\ reopenAt \in Nat
  /\ interrupted \in BOOLEAN
  /\ keysLeft \in 0 .. MaxKeys

SessionInv == SessionTypeOK /\ FreshUntouched /\ HeldIsLive /\ LetGoIsClosed

IInv == SessionInv /\ LoopTypeOK /\ MainProgress /\ Reconciled

----------------------------------------------------------------------------
(* What the operators on the application's state preserve.                 *)

\* Collecting only ever shows on the profile screen.
CollectingIsShown(a) == ProfileCollecting(a) => IsProfiling(a)

\* b is a sound successor of a as far as messages and keys go: it is an App,
\* it keeps the link between phase and view, and the interval is left alone.
Follows(a, b) ==
  /\ b \in App
  /\ CollectingIsShown(a) => CollectingIsShown(b)
  /\ b.interval = a.interval

\* A rate key changes the wanted rate only.
LEMMA StepIntervalFollows ==
  ASSUME NEW a \in App, NEW faster \in BOOLEAN
  PROVE  Follows(a, StepInterval(a, faster))
<1>. DEFINE from == WantedInterval(a)
            next == Clamp(IF faster THEN from - 1 ELSE from + 1)
<1>1. next \in Nat
  <2>1. from \in Nat
    BY DEF WantedInterval, App
  <2>. QED  BY <2>1, AppAssumption DEF Clamp
<1>2. StepInterval(a, faster) \in {a, [a EXCEPT !.pending = next, !.settled = FALSE]}
  BY DEF StepInterval
<1>. HIDE DEF next
<1>3. [a EXCEPT !.pending = next, !.settled = FALSE] \in App
  BY <1>1 DEF App
<1>. QED  BY <1>2, <1>3 DEF Follows, App, CollectingIsShown, ProfileCollecting, IsProfiling

\* So do the keys that change the screen, in what they may change.
LEMMA ScreensFollow ==
  ASSUME NEW a \in App
  PROVE  /\ Follows(a, a)
         /\ Follows(a, StartProfile(a))
         /\ Follows(a, CancelProfile(a))
         /\ Follows(a, ToggleProfileWaiting(a))
         /\ ~IsProfiling(a) => Follows(a, ToggleInvestigate(a))
         /\ \A how \in Exits : Follows(a, Leave(a, how))
         /\ \A up \in BOOLEAN : Follows(a, [a EXCEPT !.help = up])
         /\ Follows(a, [a EXCEPT !.paused = ~@])
<1>. USE DEF Follows, App, Views, Phases, CollectingIsShown, ProfileCollecting, IsProfiling
<1>1. Follows(a, a)
  OBVIOUS
<1>2. Follows(a, StartProfile(a))
  BY DEF StartProfile, NoResult
<1>3. Follows(a, CancelProfile(a))
  BY DEF CancelProfile
<1>4. Follows(a, ToggleProfileWaiting(a))
  BY DEF ToggleProfileWaiting
<1>5. ~IsProfiling(a) => Follows(a, ToggleInvestigate(a))
  BY DEF ToggleInvestigate
<1>6. \A how \in Exits : Follows(a, Leave(a, how))
  BY DEF Leave, Exits
<1>7. \A up \in BOOLEAN : Follows(a, [a EXCEPT !.help = up])
  OBVIOUS
<1>8. Follows(a, [a EXCEPT !.paused = ~@])
  OBVIOUS
<1>. QED  BY <1>1, <1>2, <1>3, <1>4, <1>5, <1>6, <1>7, <1>8

\* A key of any kind.
LEMMA HandleKeyFollows ==
  ASSUME NEW a \in App, NEW k
  PROVE  Follows(a, HandleKey(a, k))
<1>1. Follows(a, Leave(a, "Quit")) /\ Follows(a, Leave(a, "Detach"))
  BY ScreensFollow DEF Exits
<1>2. Follows(a, ProfileKey(a, k))
  BY <1>1, ScreensFollow DEF ProfileKey
<1>3. ~IsProfiling(a) => Follows(a, InvestigateKey(a, k))
  BY <1>1, ScreensFollow DEF InvestigateKey
<1>4. ~IsProfiling(a) => Follows(a, DashboardKey(a, k))
  BY <1>1, ScreensFollow, StepIntervalFollows DEF DashboardKey
<1>5. Follows(a, [a EXCEPT !.help = FALSE])
  BY ScreensFollow
<1>6. a.help \in BOOLEAN
  BY DEF App
<1>. QED  BY <1>2, <1>3, <1>4, <1>5, <1>6 DEF HandleKey, IsProfiling, IsInvestigating

\* A message of any kind.
LEMMA HandleEventFollows ==
  ASSUME NEW a \in App, NEW m \in Message
  PROVE  Follows(a, HandleEvent(a, m))
<1>. USE DEF Follows, App, Statuses, Phases, CollectingIsShown, ProfileCollecting, IsProfiling
<1>1. \A st \in Statuses : Follows(a, [a EXCEPT !.status = st])
  OBVIOUS
<1>2. Follows(a, [a EXCEPT !.runtimeError = TRUE])
  OBVIOUS
<1>3. Follows(a, [a EXCEPT !.progress = m.from])
  BY DEF Message
<1>4. Follows(a, FinishProfile(a, m.from))
  BY DEF FinishProfile, Message
<1>5. Follows(a, [a EXCEPT !.phase = "Failed"])
  OBVIOUS
<1>6. /\ Follows(a, [a EXCEPT !.status = "Live"])
      /\ Follows(a, [a EXCEPT !.status = "Ended"])
      /\ Follows(a, [a EXCEPT !.status = "Failed"])
  BY <1>1
<1>7. Follows(a, a)
  OBVIOUS
<1>. HIDE DEF Follows, App, Statuses, Phases
<1>. QED  BY <1>2, <1>3, <1>4, <1>5, <1>6, <1>7, HandleKeyFollows DEF HandleEvent

----------------------------------------------------------------------------
(* What opening, closing and the process itself do to the sessions.        *)

\* What the runtime may be left with to write is within bounds.
LEMMA TrafficBounded ==
  ASSUME NEW k \in Kinds, NEW n \in 0 .. Traffic[k]
  PROVE  n \in 0 .. MaxBacklog
<1>1. Traffic[k] \in 0 .. MaxBacklog
  BY EventLoopAssumption
<1>. QED  BY <1>1, ServerAssumption

\* The sessions opened are sessions.
LEMMA OpenedAreSids ==
  ASSUME SessionTypeOK
  PROVE  Opened \subseteq Sid
BY ServerAssumption DEF SessionTypeOK, ServerTypeOK, Opened, Sid

\* A session started is held, at the rate asked for, and no other changes.
LEMMA StartKeepsSessions ==
  ASSUME SessionInv, NEW k \in Kinds, NEW r \in Nat, handles[k] = NoSession,
         StartSucceeds(k, r), stopping' = stopping
  PROVE  /\ SessionInv'
         /\ handles'[k] \in Sid /\ rate'[handles'[k]] = r
         /\ handles' = [handles EXCEPT ![k] = handles'[k]]
         /\ \A s \in Opened : rate'[s] = rate[s]
<1>. USE DEF SessionInv, SessionTypeOK, StartSucceeds, Open, Sid, Opened, FreshSession,
             NoSession
<1>1. /\ FreshSession \in Sid /\ FreshSession \notin Opened
      /\ Opened' = Opened \cup {FreshSession}
      /\ Opened \subseteq Sid
  <2>1. opened \in Nat /\ MaxSessions \in Nat /\ opened < MaxSessions /\ opened' = opened + 1
    BY ServerAssumption DEF ServerTypeOK
  <2>2. /\ opened + 1 \in 1 .. MaxSessions /\ opened + 1 \notin 1 .. opened
        /\ 1 .. opened + 1 = (1 .. opened) \cup {opened + 1}
        /\ 1 .. opened \subseteq 1 .. MaxSessions
    <3>. HIDE DEF SessionInv, StartSucceeds
    <3>. QED  BY <2>1
  <2>. QED  BY <2>1, <2>2, Zenon
<1>2. SessionTypeOK'
  <2>1. ServerTypeOK'
    <3>1. PICK n \in 0 .. Traffic[k] : backlog' = [backlog EXCEPT ![FreshSession] = n]
      OBVIOUS
    <3>2. n \in 0 .. MaxBacklog
      BY <3>1, TrafficBounded
    <3>3. backlog' \in [Sid -> 0 .. MaxBacklog]
      BY <3>1, <3>2 DEF ServerTypeOK
    <3>4. server' \in [Sid -> {"unopened", "open", "stopping", "closed"}]
      BY DEF ServerTypeOK
    <3>5. opened' \in 0 .. MaxSessions
      BY ServerAssumption DEF ServerTypeOK
    <3>. QED  BY <3>3, <3>4, <3>5 DEF ServerTypeOK
  <2>. QED  BY <1>1, <2>1 DEF ReaderPoints
<1>. USE DEF ServerTypeOK
<1>3. FreshUntouched'
  BY <1>1 DEF FreshUntouched
<1>4. HeldIsLive'
  BY <1>1 DEF FreshUntouched, HeldIsLive
<1>5. LetGoIsClosed'
  BY <1>1 DEF FreshUntouched, LetGoIsClosed, Writing
<1>. QED  BY <1>1, <1>2, <1>3, <1>4, <1>5

\* A stop called lets go of the handle and silences the reader.
LEMMA StopKeepsSessions ==
  ASSUME SessionInv, NEW k \in Kinds, handles[k] # NoSession, stopping = NoSession,
         NEW next, CallStop(k, next)
  PROVE  /\ SessionInv'
         /\ stopping' # NoSession /\ silenced'[stopping']
         /\ handles' = [handles EXCEPT ![k] = NoSession]
         /\ rate' = rate /\ main' = next
<1>. USE DEF SessionInv, SessionTypeOK, CallStop, sessionVars, threadVars
<1>1. handles[k] \in Sid /\ handles[k] \in Opened /\ NoSession \notin Sid
  BY DEF FreshUntouched, NoSession, Sid
<1>2. /\ alive' = alive /\ opened' = opened /\ Opened' = Opened
      /\ \A s \in Sid : s # handles[k] => server'[s] = server[s]
      /\ \A s \in Sid : Writing(s)' => Writing(s)
      /\ server'[handles[k]] # "unopened" <=> server[handles[k]] # "unopened"
      /\ ServerTypeOK'
  BY <1>1 DEF RequestStop, serverVars, Opened, Writing, ServerTypeOK
<1>3. SessionTypeOK'
  BY <1>1, <1>2
<1>4. FreshUntouched'
  BY <1>1, <1>2 DEF FreshUntouched, Opened, Sid, ServerTypeOK
<1>5. HeldIsLive'
  BY <1>1 DEF HeldIsLive, NoSession, Sid
<1>6. LetGoIsClosed'
  <2>1. \A s \in Sid : s # handles[k] => silenced'[s] = silenced[s] /\ refused'[s] = refused[s]
    BY <1>1
  <2>2. Opened \subseteq Sid
    BY OpenedAreSids
  <2>3. ASSUME NEW s \in Opened PROVE silenced'[s] \/ \E j \in Kinds : handles'[j] = s
    BY <1>1, <2>1, <2>2 DEF LetGoIsClosed
  <2>4. ASSUME NEW s \in Opened, silenced'[s], s # stopping', ~refused'[s]
        PROVE  ~(Writing(s)')
    <3>1. silenced[s] /\ ~refused[s]
      BY <2>1, <2>2, <2>4
    <3>2. s # stopping
      BY <1>1, <2>2
    <3>. QED  BY <1>2, <2>2, <3>1, <3>2 DEF LetGoIsClosed
  <2>. QED  BY <1>2, <2>3, <2>4 DEF LetGoIsClosed
<1>. QED  BY <1>1, <1>3, <1>4, <1>5, <1>6 DEF NoSession, Sid

\* A stop that returns changes no handle.
LEMMA ReturnKeepsSessions ==
  ASSUME SessionInv, StopReturns, stopping' = NoSession, NoSessionCall
  PROVE  SessionInv' /\ handles' = handles /\ rate' = rate
<1>. USE DEF SessionInv, SessionTypeOK, NoSessionCall, serverVars, sessionVars, threadVars
<1>1. SessionTypeOK'
  BY DEF ServerTypeOK
<1>2. FreshUntouched'
  BY DEF FreshUntouched, Opened
<1>3. HeldIsLive'
  BY DEF HeldIsLive
<1>4. LetGoIsClosed'
  <2>1. stopping # NoSession /\ (~Writing(stopping) \/ refused[stopping])
    BY DEF StopReturns, StopSucceeds, StopFails, StopComplete, Writing, LetGoIsClosed
  <2>. QED  BY <2>1 DEF LetGoIsClosed, Opened, Writing
<1>. QED  BY <1>1, <1>2, <1>3, <1>4

\* Steps that call nothing change no handle.
LEMMA QuietKeepsSessions ==
  ASSUME SessionInv, NoSessionCall, stopping' = stopping
  PROVE  SessionInv' /\ handles' = handles /\ rate' = rate /\ silenced' = silenced
BY DEF SessionInv, SessionTypeOK, ServerTypeOK, FreshUntouched, HeldIsLive, LetGoIsClosed,
       NoSessionCall, serverVars, sessionVars, threadVars, Opened, Writing

\* A failing start touches no session.
LEMMA StartFailsIsQuiet ==
  ASSUME StartFails
  PROVE  NoSessionCall
BY DEF StartFails, NoSessionCall

----------------------------------------------------------------------------
(* Every step of the threads and of the process keeps the invariant.       *)

\* MainProgress and Reconciled are about the event loop's own variables.
LEMMA OthersKeepProgress ==
  ASSUME IInv, UNCHANGED <<loopVars, sessionVars>>
  PROVE  MainProgress' /\ Reconciled'
BY DEF IInv, MainProgress, Reconciled, loopVars, sessionVars

\* A send puts one message more in the channel, within its capacity.
LEMMA SentIsMessages ==
  ASSUME LoopTypeOK, NEW m \in Message, Send(m)
  PROVE  channel' \in Seq(Message) /\ Len(channel') <= ChannelCapacity
BY EventLoopAssumption DEF LoopTypeOK, Send, HasRoom

\* The readers.
LEMMA ReaderKeeps ==
  ASSUME IInv, NEW s \in Sid, ReaderStep(s)
  PROVE  IInv'
<1>. USE DEF IInv, SessionInv, SessionTypeOK
<1>1. /\ NotReader
      /\ UNCHANGED <<alive, opened, server, backlog>>
      /\ reader[s] # "unborn"
      /\ \E to \in ReaderPoints : reader' = [reader EXCEPT ![s] = to]
      /\ \E how \in {"ok", "error"} : outcome' = [outcome EXCEPT ![s] = how]
      /\ socket' \in [Sid -> 0 .. SocketCapacity]
  <2>. USE DEF ReaderGoes, serverVars, ReaderPoints, ServerTypeOK
  <2>1. outcome = [outcome EXCEPT ![s] = outcome[s]] /\ outcome[s] \in {"ok", "error"}
    OBVIOUS
  <2>2. CASE ReaderTakes(s)
    <3>1. socket[s] - 1 \in 0 .. SocketCapacity
      BY <2>2, ServerAssumption DEF ReaderTakes
    <3>2. socket' \in [Sid -> 0 .. SocketCapacity]
      BY <2>2, <3>1 DEF ReaderTakes
    <3>. QED  BY <2>1, <2>2, <3>2 DEF ReaderTakes
  <2>3. CASE ReaderChecks(s)
    BY <2>1, <2>3 DEF ReaderChecks
  <2>4. CASE ReaderSends(s)
    BY <2>1, <2>4 DEF ReaderSends
  <2>5. CASE \E how \in {"ok", "error"} : ReaderEnds(s, how)
    BY <2>5 DEF ReaderEnds
  <2>6. CASE ReaderConcludes(s)
    BY <2>1, <2>6 DEF ReaderConcludes
  <2>7. CASE ReaderReports(s)
    BY <2>1, <2>7 DEF ReaderReports
  <2>. QED  BY <2>2, <2>3, <2>4, <2>5, <2>6, <2>7 DEF ReaderStep
<1>2. SessionTypeOK'
  <2>1. ServerTypeOK'
    BY <1>1 DEF ServerTypeOK
  <2>2. UNCHANGED <<handles, stopping, kind, rate, silenced, refused>>
    BY <1>1 DEF NotReader, loopVars, sessionVars
  <2>3. reader' \in [Sid -> ReaderPoints]
    <3>1. reader \in [Sid -> ReaderPoints] /\ \E to \in ReaderPoints : reader' = [reader EXCEPT ![s] = to]
      BY <1>1
    <3>. QED  BY <3>1
  <2>4. outcome' \in [Sid -> {"ok", "error"}]
    <3>1. /\ outcome \in [Sid -> {"ok", "error"}]
          /\ \E how \in {"ok", "error"} : outcome' = [outcome EXCEPT ![s] = how]
      BY <1>1
    <3>. QED  BY <3>1
  <2>. QED  BY <2>1, <2>2, <2>3, <2>4
<1>3. FreshUntouched' /\ HeldIsLive' /\ LetGoIsClosed'
  BY <1>1 DEF FreshUntouched, HeldIsLive, LetGoIsClosed, NotReader, loopVars, sessionVars,
              Opened, Writing
<1>4. channel' \in Seq(Message) /\ Len(channel') <= ChannelCapacity
  <2>1. FromReader(ItemMessage[kind[s]], s) \in Message
    BY DEF FromReader, ItemMessage, Message, MessageTypes, Kinds, Sid
  <2>2. FromReader(FinalMessage(s), s) \in Message
    BY DEF FromReader, FinalMessage, Message, MessageTypes, Kinds, Sid
  <2>3. channel' = channel \/ \E m \in Message : Send(m)
    BY <2>1, <2>2 DEF ReaderStep, ReaderTakes, ReaderChecks, ReaderSends, ReaderEnds,
                      ReaderConcludes, ReaderReports
  <2>. QED  BY <2>3, SentIsMessages DEF LoopTypeOK
<1>5. LoopTypeOK'
  BY <1>1, <1>4 DEF LoopTypeOK, NotReader, loopVars
<1>. QED  BY <1>1, <1>2, <1>3, <1>5, OthersKeepProgress DEF NotReader

\* The process by itself opens nothing, and closes everything when it exits.
ProcessOnlyCloses ==
  /\ NotServer
  /\ opened' = opened
  /\ ServerTypeOK'
  /\ \A s \in Sid : Writing(s)' => Writing(s)
  /\ \A s \in Sid : server[s] = "unopened" => server'[s] = "unopened"
  /\ ~alive' => ~alive \/ \A s \in Sid : ~(Writing(s)')

\* The traced process.
LEMMA ProcessKeeps ==
  ASSUME IInv,
         ServerExits \/ \E s \in Sid : ServerEmits(s) \/ ServerFinishes(s) \/ ServerAbandons(s)
  PROVE  IInv'
<1>. USE DEF IInv, SessionInv, SessionTypeOK
<1>1. ProcessOnlyCloses
  <2>. USE DEF ServerTypeOK, Writing, ProcessOnlyCloses
  <2>1. CASE ServerExits
    <3>1. server' \in [Sid -> {"unopened", "open", "stopping", "closed"}]
      BY <2>1 DEF ServerExits, ProcessExits
    <3>2. backlog' \in [Sid -> 0 .. MaxBacklog]
      BY <2>1, ServerAssumption DEF ServerExits, ProcessExits
    <3>3. \A s \in Sid : ~(Writing(s)')
      BY <2>1 DEF ServerExits, ProcessExits
    <3>4. \A s \in Sid : server[s] = "unopened" => server'[s] = "unopened"
      BY <2>1 DEF ServerExits, ProcessExits
    <3>. QED  BY <2>1, <3>1, <3>2, <3>3, <3>4 DEF ServerExits, ProcessExits
  <2>2. ASSUME NEW s \in Sid, ServerEmits(s) \/ ServerFinishes(s) \/ ServerAbandons(s)
        PROVE  ProcessOnlyCloses
    BY <2>2, ServerAssumption DEF ServerEmits, ServerFinishes, ServerAbandons,
         Emit, FinishStop, AbandonSession
  <2>. QED  BY <2>1, <2>2
<1>2. SessionTypeOK'
  BY <1>1 DEF ProcessOnlyCloses, NotServer, loopVars, sessionVars, threadVars
<1>3. FreshUntouched' /\ HeldIsLive' /\ LetGoIsClosed'
  BY <1>1, OpenedAreSids DEF ProcessOnlyCloses, FreshUntouched, HeldIsLive, LetGoIsClosed, NotServer, loopVars,
     sessionVars, threadVars, Opened
<1>4. LoopTypeOK'
  BY <1>1 DEF ProcessOnlyCloses, LoopTypeOK, NotServer, loopVars
<1>. QED  BY <1>1, <1>2, <1>3, <1>4, OthersKeepProgress DEF ProcessOnlyCloses, NotServer

\* Keys, clocks and signals.
LEMMA OutsideKeeps ==
  ASSUME IInv,
         (\E k \in Keys : PressKey(k)) \/ RateSettles \/ WindowPasses \/ Signal \/ UNCHANGED vars
  PROVE  IInv'
<1>. USE DEF IInv
<1>1. SessionInv' /\ MainProgress'
  <2>1. NoSessionCall /\ UNCHANGED <<main, stopping>>
    BY DEF PressKey, RateSettles, WindowPasses, Signal, vars, NoSessionCall, serverVars,
           loopVars, sessionVars, threadVars
  <2>. QED  BY <2>1, QuietKeepsSessions DEF MainProgress
<1>2. LoopTypeOK'
  <2>1. ASSUME NEW k \in Keys, PressKey(k) PROVE LoopTypeOK'
    <3>1. Input(k) \in Message
      BY DEF Input, Message, MessageTypes
    <3>2. keysLeft' \in 0 .. MaxKeys
      BY <2>1, EventLoopAssumption DEF PressKey, LoopTypeOK
    <3>. QED  BY <2>1, <3>1, <3>2, SentIsMessages DEF PressKey, LoopTypeOK, loopVars
  <2>2. CASE RateSettles \/ WindowPasses
    <3>1. app' \in App
      BY <2>2 DEF RateSettles, WindowPasses, LoopTypeOK, App
    <3>. QED  BY <2>2, <3>1 DEF RateSettles, WindowPasses, LoopTypeOK, Elsewhere
  <2>3. CASE Signal \/ UNCHANGED vars
    BY <2>3 DEF Signal, vars, LoopTypeOK
  <2>. QED  BY <2>1, <2>2, <2>3
<1>3. Reconciled'
  <2>1. UNCHANGED <<main, handles, rate>>
    BY DEF PressKey, RateSettles, WindowPasses, Signal, vars, NoSessionCall, loopVars, sessionVars
  <2>2. /\ app' \in App /\ app'.interval = app.interval /\ app'.view = app.view
        /\ app'.phase = app.phase /\ app'.runtimeError = app.runtimeError
    BY <1>2 DEF PressKey, RateSettles, WindowPasses, Signal, vars, LoopTypeOK, App, loopVars
  <2>. QED  BY <2>1, <2>2 DEF Reconciled, ProfileCollecting, IsProfiling, IsInvestigating
<1>. QED  BY <1>1, <1>2, <1>3

----------------------------------------------------------------------------
(* Every step of the event loop keeps it.                                  *)

\* Receiving a message.
LEMMA ReceiveKeeps ==
  ASSUME IInv, ReceiveFirst \/ ReceiveMore
  PROVE  IInv'
<1>. USE DEF IInv
<1>1. SessionInv' /\ UNCHANGED <<handles, rate, stopping, silenced>>
  BY QuietKeepsSessions DEF ReceiveFirst, ReceiveMore
<1>2. /\ Follows(app, app')
      /\ channel' \in Seq(Message) /\ Len(channel') <= ChannelCapacity
  <2>1. CASE UNCHANGED <<app, channel>>
    BY <2>1, ScreensFollow DEF LoopTypeOK
  <2>2. CASE /\ channel # <<>>
             /\ app' = HandleEvent(app, Head(channel)) /\ channel' = Tail(channel)
    <3>1. Head(channel) \in Message
      BY <2>2 DEF LoopTypeOK
    <3>2. channel' \in Seq(Message) /\ Len(channel') = Len(channel) - 1
      BY <2>2 DEF LoopTypeOK
    <3>. QED  BY <2>2, <3>1, <3>2, HandleEventFollows, EventLoopAssumption DEF LoopTypeOK
  <2>. QED  BY <2>1, <2>2 DEF ReceiveFirst, ReceiveMore
<1>3. main' = "drain" /\ main \in {"draw", "drain"}
  BY DEF ReceiveFirst, ReceiveMore
<1>4. LoopTypeOK'
  BY <1>2, <1>3 DEF LoopTypeOK, ReceiveFirst, ReceiveMore, Follows, Points
<1>5. MainProgress'
  BY <1>1, <1>3 DEF MainProgress, ClosingPoints
<1>6. Reconciled'
  BY <1>1, <1>2, <1>3 DEF Reconciled, Follows, CollectingIsShown
<1>. QED  BY <1>1, <1>4, <1>5, <1>6

\* Steps of the loop that touch neither sessions nor, bar the exit, the App.
LEMMA TurnKeeps ==
  ASSUME IInv, DrawFails \/ Drained \/ KeepRate \/ CheckExit
  PROVE  IInv'
<1>. USE DEF IInv
<1>1. SessionInv' /\ UNCHANGED <<handles, rate, stopping, silenced>>
  BY QuietKeepsSessions DEF DrawFails, Drained, KeepRate, CheckExit
<1>2. /\ app' \in App /\ app'.interval = app.interval /\ app'.view = app.view
      /\ app'.phase = app.phase /\ app'.runtimeError = app.runtimeError
  BY DEF DrawFails, Drained, KeepRate, CheckExit, LoopTypeOK, App, Exits
<1>3. LoopTypeOK'
  BY <1>2 DEF LoopTypeOK, DrawFails, Drained, KeepRate, CheckExit, Elsewhere, Points
<1>4. MainProgress'
  BY <1>1 DEF MainProgress, ClosingPoints, DrawFails, Drained, KeepRate, CheckExit
<1>5. Reconciled'
  BY <1>1, <1>2 DEF Reconciled, ProfileCollecting, IsProfiling, IsInvestigating,
                    DrawFails, Drained, KeepRate, CheckExit
<1>. QED  BY <1>1, <1>3, <1>4, <1>5

\* Changing the rate.
LEMMA ChangeRateKeeps ==
  ASSUME IInv, ChangeRate
  PROVE  IInv'
<1>. USE DEF IInv
<1>1. stopping = NoSession
  BY DEF ChangeRate, MainProgress, ClosingPoints
<1>2. /\ app' \in App /\ app'.interval = app.interval /\ app'.view = app.view
      /\ app'.phase = app.phase /\ app'.runtimeError = app.runtimeError
      /\ reopenAt' \in Nat
  BY DEF ChangeRate, LoopTypeOK, App, NoRate
<1>3. CASE handles["counters"] # NoSession /\ CallStop("counters", "rate_closing")
  <2>1. /\ SessionInv' /\ silenced'[stopping']
        /\ handles' = [handles EXCEPT !["counters"] = NoSession]
        /\ rate' = rate /\ main' = "rate_closing"
    BY <1>1, <1>3, StopKeepsSessions DEF Kinds
  <2>2. handles'["counters"] = NoSession
    BY <2>1 DEF SessionInv, SessionTypeOK, Kinds
  <2>3. LoopTypeOK'
    BY <1>2, <2>1 DEF ChangeRate, LoopTypeOK, Elsewhere, Points
  <2>4. MainProgress' /\ Reconciled'
    BY <1>2, <2>1, <2>2 DEF MainProgress, Reconciled, ClosingPoints, ProfileCollecting, IsProfiling
  <2>. QED  BY <2>1, <2>3, <2>4
<1>4. CASE handles["counters"] = NoSession /\ main' = "reopen" /\ NoSessionCall /\ UNCHANGED stopping
  <2>1. SessionInv' /\ UNCHANGED <<handles, rate, silenced>>
    BY <1>4, QuietKeepsSessions
  <2>2. LoopTypeOK'
    BY <1>2, <1>4 DEF ChangeRate, LoopTypeOK, Elsewhere, Points
  <2>3. MainProgress' /\ Reconciled'
    BY <1>1, <1>2, <1>4, <2>1 DEF MainProgress, Reconciled, ClosingPoints, ProfileCollecting, IsProfiling
  <2>. QED  BY <2>1, <2>2, <2>3
<1>. QED  BY <1>3, <1>4 DEF ChangeRate

\* Opening the counters again after a rate has settled.
LEMMA ReopenCountersKeeps ==
  ASSUME IInv, ReopenCounters
  PROVE  IInv'
<1>. USE DEF IInv
<1>1. /\ stopping = NoSession /\ stopping' = stopping /\ main = "reopen" /\ main' = "investigation"
      /\ handles["counters"] = NoSession /\ reopenAt \in Nat
  BY DEF ReopenCounters, MainProgress, ClosingPoints, LoopTypeOK
<1>2. /\ app' \in App /\ app'.view = app.view /\ app'.phase = app.phase
      /\ \/ StartSucceeds("counters", reopenAt) /\ app'.interval = reopenAt
         \/ StartFails /\ app'.interval = app.interval
  BY DEF ReopenCounters, LoopTypeOK, App, Statuses
<1>3. LoopTypeOK'
  BY <1>1, <1>2 DEF ReopenCounters, LoopTypeOK, Elsewhere, Points
<1>4. CASE StartSucceeds("counters", reopenAt) /\ app'.interval = reopenAt
  <2>1. SessionInv' /\ rate'[handles'["counters"]] = reopenAt
    BY <1>1, <1>4, StartKeepsSessions DEF Kinds
  <2>2. MainProgress' /\ Reconciled'
    BY <1>1, <1>2, <1>4, <2>1 DEF MainProgress, Reconciled, ProfileCollecting, IsProfiling
  <2>. QED  BY <1>3, <2>1, <2>2
<1>5. CASE StartFails /\ app'.interval = app.interval
  <2>1. SessionInv' /\ UNCHANGED <<handles, rate, silenced>>
    BY <1>1, <1>5, StartFailsIsQuiet, QuietKeepsSessions
  <2>2. MainProgress' /\ Reconciled'
    BY <1>1, <1>2, <1>5, <2>1 DEF MainProgress, Reconciled, ProfileCollecting, IsProfiling
  <2>. QED  BY <1>3, <2>1, <2>2
<1>. QED  BY <1>2, <1>4, <1>5

\* A stop call returning.
LEMMA ClosedKeeps ==
  ASSUME IInv, CountersClosed \/ InvestigationClosed \/ ProfilingClosed
  PROVE  IInv'
<1>. USE DEF IInv
<1>1. SessionInv' /\ UNCHANGED <<handles, rate>> /\ stopping' = NoSession
  BY ReturnKeepsSessions DEF CountersClosed, InvestigationClosed, ProfilingClosed
<1>2. /\ app' \in App /\ app'.interval = app.interval /\ app'.view = app.view
      /\ app'.phase = app.phase /\ app'.runtimeError = app.runtimeError
  BY DEF CountersClosed, InvestigationClosed, ProfilingClosed, LoopTypeOK, App, Statuses
<1>3. LoopTypeOK'
  BY <1>2 DEF LoopTypeOK, CountersClosed, InvestigationClosed, ProfilingClosed, Elsewhere, Points
<1>4. MainProgress' /\ Reconciled'
  BY <1>1, <1>2 DEF MainProgress, Reconciled, ProfileCollecting, IsProfiling, IsInvestigating,
                    CountersClosed, InvestigationClosed, ProfilingClosed
<1>. QED  BY <1>1, <1>3, <1>4

\* Reconciling the investigation and the profile.
LEMMA ReconcileInvestigationKeeps ==
  ASSUME IInv, ReconcileInvestigation
  PROVE  IInv'
<1>. USE DEF IInv
<1>1. stopping = NoSession /\ main = "investigation"
  BY DEF ReconcileInvestigation, MainProgress, ClosingPoints
<1>2. /\ app' \in App /\ app'.interval = app.interval /\ app'.view = app.view
      /\ app'.phase = app.phase /\ main' \in Points
  BY DEF ReconcileInvestigation, CallStop, LoopTypeOK, App, Points
<1>3. LoopTypeOK'
  BY <1>2 DEF ReconcileInvestigation, LoopTypeOK, Elsewhere
<1>. DEFINE Quiet == SessionInv' /\ handles' = handles /\ rate' = rate /\ silenced' = silenced
<1>4. CASE IsInvestigating(app) /\ handles["investigation"] = NoSession
           /\ main' = "profiling" /\ stopping' = stopping
           /\ StartSucceeds("investigation", 0)
  <2>1. /\ SessionInv' /\ handles'["investigation"] \in Sid
        /\ handles' = [handles EXCEPT !["investigation"] = handles'["investigation"]]
        /\ \A s \in Opened : rate'[s] = rate[s]
    BY <1>4, StartKeepsSessions DEF Kinds
  <2>2. /\ handles'["counters"] = handles["counters"]
        /\ handles["counters"] # NoSession => handles["counters"] \in Opened
    BY <2>1 DEF SessionInv, SessionTypeOK, FreshUntouched, Kinds
  <2>3. handles'["investigation"] # NoSession
    BY <2>1 DEF Sid, NoSession
  <2>4. MainProgress' /\ Reconciled'
    BY <1>1, <1>2, <1>4, <2>1, <2>2, <2>3 DEF MainProgress, Reconciled, ProfileCollecting,
       IsProfiling, IsInvestigating
  <2>. QED  BY <1>3, <2>1, <2>4
<1>5. CASE IsInvestigating(app) /\ handles["investigation"] = NoSession
           /\ main' = "profiling" /\ stopping' = stopping
           /\ StartFails /\ app'.runtimeError
  <2>1. Quiet
    BY <1>5, StartFailsIsQuiet, QuietKeepsSessions
  <2>2. MainProgress' /\ Reconciled'
    BY <1>1, <1>2, <1>5, <2>1 DEF MainProgress, Reconciled, ProfileCollecting,
       IsProfiling, IsInvestigating
  <2>. QED  BY <1>3, <2>1, <2>2
<1>6. CASE ~IsInvestigating(app) /\ handles["investigation"] # NoSession
           /\ CallStop("investigation", "investigation_closing")
  <2>1. /\ SessionInv' /\ silenced'[stopping'] /\ rate' = rate
        /\ main' = "investigation_closing"
        /\ handles' = [handles EXCEPT !["investigation"] = NoSession]
    BY <1>1, <1>6, StopKeepsSessions DEF Kinds
  <2>2. handles'["investigation"] = NoSession /\ handles'["counters"] = handles["counters"]
    BY <2>1 DEF SessionInv, SessionTypeOK, Kinds
  <2>3. MainProgress' /\ Reconciled'
    BY <1>1, <1>2, <1>6, <2>1, <2>2 DEF MainProgress, Reconciled, ClosingPoints,
       ProfileCollecting, IsProfiling, IsInvestigating
  <2>. QED  BY <1>3, <2>1, <2>3
<1>7. CASE IsInvestigating(app) = (handles["investigation"] # NoSession)
           /\ main' = "profiling" /\ NoSessionCall /\ UNCHANGED <<app, stopping>>
  <2>1. Quiet
    BY <1>7, QuietKeepsSessions
  <2>2. MainProgress' /\ Reconciled'
    BY <1>1, <1>2, <1>7, <2>1 DEF MainProgress, Reconciled, ProfileCollecting,
       IsProfiling, IsInvestigating
  <2>. QED  BY <1>3, <2>1, <2>2
<1>8. StartFails /\ app' = [app EXCEPT !.runtimeError = TRUE] => app'.runtimeError
  BY DEF LoopTypeOK, App
<1>. QED  BY <1>4, <1>5, <1>6, <1>7, <1>8 DEF ReconcileInvestigation

\* Reconciling the profile with its screen.
LEMMA ReconcileProfileKeeps ==
  ASSUME IInv, ReconcileProfile
  PROVE  IInv'
<1>. USE DEF IInv
<1>1. stopping = NoSession /\ main = "profiling"
  BY DEF ReconcileProfile, MainProgress, ClosingPoints
<1>2. /\ app' \in App /\ app'.interval = app.interval /\ app'.view = app.view
      /\ app'.runtimeError = app.runtimeError /\ main' \in Points
      /\ app'.phase \in {app.phase, "Failed", "Resolving"}
  BY DEF ReconcileProfile, CallStop, LoopTypeOK, App, Points, Phases
<1>3. LoopTypeOK'
  BY <1>2 DEF ReconcileProfile, LoopTypeOK, Elsewhere
<1>. DEFINE Quiet == SessionInv' /\ handles' = handles /\ rate' = rate /\ silenced' = silenced
<1>4. CASE ProfileCollecting(app) /\ handles["profiling"] = NoSession
           /\ main' = "check" /\ stopping' = stopping /\ app' = app
           /\ StartSucceeds("profiling", 0)
  <2>1. /\ SessionInv' /\ handles'["profiling"] \in Sid
        /\ handles' = [handles EXCEPT !["profiling"] = handles'["profiling"]]
        /\ \A s \in Opened : rate'[s] = rate[s]
    BY <1>4, StartKeepsSessions DEF Kinds
  <2>2. /\ handles'["counters"] = handles["counters"]
        /\ handles'["investigation"] = handles["investigation"]
        /\ handles["counters"] # NoSession => handles["counters"] \in Opened
    BY <2>1 DEF SessionInv, SessionTypeOK, FreshUntouched, Kinds
  <2>3. handles'["profiling"] # NoSession
    BY <2>1 DEF Sid, NoSession
  <2>4. MainProgress' /\ Reconciled'
    BY <1>1, <1>2, <1>4, <2>1, <2>2, <2>3 DEF MainProgress, Reconciled, ProfileCollecting,
       IsProfiling, IsInvestigating
  <2>. QED  BY <1>3, <2>1, <2>4
<1>5. CASE handles["profiling"] = NoSession /\ main' = "check" /\ stopping' = stopping
           /\ StartFails /\ app'.phase = "Failed"
  <2>1. Quiet
    BY <1>5, StartFailsIsQuiet, QuietKeepsSessions
  <2>2. MainProgress' /\ Reconciled'
    BY <1>1, <1>2, <1>5, <2>1 DEF MainProgress, Reconciled, ProfileCollecting,
       IsProfiling, IsInvestigating
  <2>. QED  BY <1>3, <2>1, <2>2
<1>6. CASE handles["profiling"] # NoSession /\ CallStop("profiling", "profiling_closing")
           /\ app'.phase # "Collecting"
  <2>1. /\ SessionInv' /\ silenced'[stopping'] /\ rate' = rate
        /\ main' = "profiling_closing"
        /\ handles' = [handles EXCEPT !["profiling"] = NoSession]
    BY <1>1, <1>6, StopKeepsSessions DEF Kinds
  <2>2. /\ handles'["profiling"] = NoSession /\ handles'["counters"] = handles["counters"]
        /\ handles'["investigation"] = handles["investigation"]
    BY <2>1 DEF SessionInv, SessionTypeOK, Kinds
  <2>3. MainProgress' /\ Reconciled'
    BY <1>1, <1>2, <1>6, <2>1, <2>2 DEF MainProgress, Reconciled, ClosingPoints,
       ProfileCollecting, IsProfiling, IsInvestigating
  <2>. QED  BY <1>3, <2>1, <2>3
<1>7. CASE /\ ProfileCollecting(app) => handles["profiling"] # NoSession
           /\ ~(~ProfileCollecting(app) /\ handles["profiling"] # NoSession /\ ~IsProfiling(app))
           /\ main' = "check" /\ NoSessionCall /\ UNCHANGED <<app, stopping>>
  <2>1. Quiet
    BY <1>7, QuietKeepsSessions
  <2>2. MainProgress' /\ Reconciled'
    BY <1>1, <1>2, <1>7, <2>1 DEF MainProgress, Reconciled, ProfileCollecting,
       IsProfiling, IsInvestigating
  <2>. QED  BY <1>3, <2>1, <2>2
<1>8. /\ StartFails /\ app' = [app EXCEPT !.phase = "Failed"] => app'.phase = "Failed"
      /\ app' = [app EXCEPT !.phase = "Resolving"] => app'.phase # "Collecting"
  BY DEF LoopTypeOK, App
<1>9. app' = app /\ ~ProfileCollecting(app) => app'.phase # "Collecting"
  BY DEF ProfileCollecting
<1>. QED  BY <1>4, <1>5, <1>6, <1>7, <1>8, <1>9 DEF ReconcileProfile

\* Leaving.
LEMMA LeavingKeeps ==
  ASSUME IInv, LeaveInvestigation \/ LeaveProfiling \/ LeaveCounters
  PROVE  IInv'
<1>. USE DEF IInv
<1>1. LoopTypeOK'
  BY DEF LeaveInvestigation, LeaveProfiling, LeaveCounters, Leaving, CallStop,
         LoopTypeOK, Elsewhere, Points
<1>. DEFINE Chain == {<<"investigation", "leave_investigation", "leave_profiling">>,
                      <<"profiling", "leave_profiling", "leave_counters">>,
                      <<"counters", "leave_counters", "left">>}
<1>2. PICK k \in Kinds, here \in Points, next \in Points :
        <<k, here, next>> \in Chain /\ Leaving(k, here, next)
  BY DEF LeaveInvestigation, LeaveProfiling, LeaveCounters, Kinds, Points
<1>3. CASE stopping = NoSession /\ handles[k] # NoSession /\ CallStop(k, here)
  <2>1. /\ SessionInv' /\ silenced'[stopping'] /\ rate' = rate /\ main' = here
        /\ handles' = [handles EXCEPT ![k] = NoSession]
    BY <1>3, StopKeepsSessions
  <2>2. /\ handles'[k] = NoSession
        /\ \A j \in Kinds : j # k => handles'[j] = handles[j]
    BY <2>1 DEF SessionInv, SessionTypeOK
  <2>3. MainProgress' /\ Reconciled'
    BY <1>2, <1>3, <2>1, <2>2 DEF Leaving, MainProgress, Reconciled, ClosingPoints, Kinds
  <2>. QED  BY <1>1, <2>1, <2>3
<1>4. CASE /\ stopping' = NoSession /\ main' = next /\ NoSessionCall
           /\ \/ stopping # NoSession /\ StopReturns
              \/ stopping = NoSession /\ handles[k] = NoSession
  <2>1. SessionInv' /\ handles' = handles /\ rate' = rate
    BY <1>4, ReturnKeepsSessions, QuietKeepsSessions
  <2>2. MainProgress' /\ Reconciled'
    BY <1>2, <1>4, <2>1 DEF Leaving, MainProgress, Reconciled, ClosingPoints, Kinds
  <2>. QED  BY <1>1, <2>1, <2>2
<1>. QED  BY <1>2, <1>3, <1>4 DEF Leaving

----------------------------------------------------------------------------
(* The theorems.                                                           *)

\* As the dashboard starts.
LEMMA InitHolds ==
  ASSUME Init
  PROVE  IInv
<1>. USE DEF Init, ServerInit
<1>1. 1 \in Sid /\ NoSession \notin Sid
  BY ServerAssumption DEF Sid, NoSession
<1>2. ServerTypeOK
  <2>1. PICK n \in 0 .. Traffic["counters"] : backlog = [s \in Sid |-> IF s = 1 THEN n ELSE 0]
    OBVIOUS
  <2>2. n \in 0 .. MaxBacklog /\ 0 \in 0 .. MaxBacklog
    BY TrafficBounded, ServerAssumption DEF Kinds
  <2>3. backlog \in [Sid -> 0 .. MaxBacklog]
    BY <2>1, <2>2
  <2>. QED  BY <2>3, ServerAssumption DEF ServerTypeOK
<1>3. SessionTypeOK
  BY <1>1, <1>2, AppAssumption DEF SessionTypeOK, Kinds, ReaderPoints
<1>4. FreshUntouched
  BY <1>1 DEF FreshUntouched, Opened, Sid, NoSession
<1>5. HeldIsLive /\ LetGoIsClosed
  BY <1>1 DEF HeldIsLive, LetGoIsClosed, Opened, Kinds, Sid, NoSession
<1>6. LoopTypeOK
  <2>1. app \in App
    BY AppAssumption DEF App, NewApp, Statuses, Exits, Views, Phases, NoRate, NoResult
  <2>2. channel \in Seq(Message) /\ Len(channel) <= ChannelCapacity
    BY EventLoopAssumption
  <2>3. main \in Points /\ interrupted \in BOOLEAN
    BY DEF Points
  <2>4. reopenAt \in Nat /\ keysLeft \in 0 .. MaxKeys
    BY AppAssumption, EventLoopAssumption
  <2>. QED  BY <2>1, <2>2, <2>3, <2>4 DEF LoopTypeOK
<1>7. MainProgress
  BY DEF MainProgress
<1>8. Reconciled
  <2>1. handles["counters"] = 1 /\ rate[1] = InitRate
    BY <1>1 DEF Kinds
  <2>. QED  BY <2>1 DEF Reconciled, NewApp, IsInvestigating, IsProfiling, ProfileCollecting,
                        NoSession, Kinds
<1>. QED  BY <1>3, <1>4, <1>5, <1>6, <1>7, <1>8 DEF IInv, SessionInv

\* Every step.
LEMMA StepKeeps ==
  ASSUME IInv, [Next]_vars
  PROVE  IInv'
<1>1. CASE MainStep
  BY <1>1, ReceiveKeeps, TurnKeeps, ChangeRateKeeps, ReopenCountersKeeps, ClosedKeeps,
     ReconcileInvestigationKeeps, ReconcileProfileKeeps, LeavingKeeps DEF MainStep
<1>2. CASE \E s \in Sid : ReaderStep(s)
  BY <1>2, ReaderKeeps
<1>3. CASE ServerExits \/ \E s \in Sid : ServerEmits(s) \/ ServerFinishes(s) \/ ServerAbandons(s)
  BY <1>3, ProcessKeeps
<1>4. CASE (\E k \in Keys : PressKey(k)) \/ RateSettles \/ WindowPasses \/ Signal \/ UNCHANGED vars
  BY <1>4, OutsideKeeps
<1>. QED  BY <1>1, <1>2, <1>3, <1>4 DEF Next, Over

\* The invariant the theorems below rest on holds of every behaviour.
THEOREM Inductive == Spec => []IInv
<1>1. Init => IInv
  BY InitHolds
<1>2. IInv /\ [Next]_vars => IInv'
  BY StepKeeps
<1>. QED  BY <1>1, <1>2, PTL DEF Spec

\* Every variable keeps its type; in particular no more messages are ever in
\* the channel than it has room for.
THEOREM TypeCorrect == Spec => []TypeOK
<1>1. IInv => TypeOK
  BY DEF IInv, SessionInv, SessionTypeOK, LoopTypeOK, TypeOK
<1>. QED  BY <1>1, Inductive, PTL

\* However starts and stops fail, and however many sessions are opened, no
\* session is lost track of, and none is left open by a dashboard that has been
\* left unless its stop request failed.
THEOREM NothingIsLeftOpen == Spec => []NothingLeftOpen
<1>1. IInv => NothingLeftOpen
  <2>. SUFFICES ASSUME IInv PROVE NothingLeftOpen
    OBVIOUS
  <2>1. ASSUME main = "left", NEW s \in Opened, Writing(s) PROVE refused[s]
    <3>1. \A k \in Kinds : handles[k] = NoSession
      BY <2>1 DEF IInv, MainProgress, Kinds
    <3>2. s # NoSession /\ stopping = NoSession
      BY <2>1 DEF IInv, MainProgress, ClosingPoints, Opened, NoSession
    <3>3. s # stopping
      BY <3>2
    <3>. QED  BY <2>1, <3>1, <3>2, <3>3 DEF IInv, SessionInv, LetGoIsClosed
  <2>. QED  BY <2>1 DEF IInv, SessionInv, LetGoIsClosed, NothingLeftOpen
<1>. QED  BY <1>1, Inductive, PTL

\* Whenever a frame is drawn, the sessions behind it are the ones it shows.
THEOREM FramesShowSessions == Spec => []FramesMatchSessions
<1>1. IInv => FramesMatchSessions
  BY DEF IInv, Reconciled, FramesMatchSessions
<1>. QED  BY <1>1, Inductive, PTL

----------------------------------------------------------------------------
(* What one step does to the sessions, for the properties of steps.        *)

\* Opening one, letting go of one, or neither.
LEMMA SessionsPerStep ==
  ASSUME IInv, MainStep
  PROVE  \/ \E k \in Kinds, r \in Nat :
              /\ handles[k] = NoSession /\ StartSucceeds(k, r)
              /\ main \notin LeavePoints /\ main' \notin LeavePoints
         \/ \E k \in Kinds, next \in Points :
              /\ handles[k] # NoSession /\ CallStop(k, next)
              /\ main \in LeavePoints <=> next \in LeavePoints
         \/ /\ NoSessionCall
            /\ main \in LeavePoints => main' \in LeavePoints
<1>. USE DEF LeavePoints, Points, Kinds
<1>1. CASE DrawFails \/ ReceiveFirst \/ ReceiveMore \/ Drained \/ KeepRate \/ CheckExit
  BY <1>1 DEF DrawFails, ReceiveFirst, ReceiveMore, Drained, KeepRate, CheckExit
<1>2. CASE CountersClosed \/ InvestigationClosed \/ ProfilingClosed
  BY <1>2 DEF CountersClosed, InvestigationClosed, ProfilingClosed
<1>3. CASE ChangeRate
  BY <1>3 DEF ChangeRate
<1>4. CASE ReopenCounters
  BY <1>4, StartFailsIsQuiet DEF ReopenCounters, IInv, MainProgress, LoopTypeOK
<1>5. CASE ReconcileInvestigation
  BY <1>5, StartFailsIsQuiet DEF ReconcileInvestigation
<1>6. CASE ReconcileProfile
  BY <1>6, StartFailsIsQuiet DEF ReconcileProfile
<1>7. CASE LeaveInvestigation \/ LeaveProfiling \/ LeaveCounters
  BY <1>7 DEF LeaveInvestigation, LeaveProfiling, LeaveCounters, Leaving
<1>. QED  BY <1>1, <1>2, <1>3, <1>4, <1>5, <1>6, <1>7 DEF MainStep

\* A silenced counter or runtime reader that has not committed to a message
\* never does.
THEOREM SilencedStaysSilent == Spec => SilenceHolds
<1>. DEFINE Quiet(s) == kind[s] # "profiling" /\ silenced[s]
                          /\ reader[s] \notin {"sending", "reporting"}
<1>1. ASSUME IInv, [Next]_vars, NEW s \in Opened, Quiet(s)
      PROVE  reader'[s] \notin {"sending", "reporting"}
  <2>1. s \in Sid /\ reader \in [Sid -> ReaderPoints] /\ kind \in [Sid -> Kinds]
    BY <1>1, OpenedAreSids DEF IInv, SessionInv, SessionTypeOK
  <2>2. CASE MainStep
    <3>1. FreshSession # s
      BY <1>1 DEF FreshSession, Opened, IInv, SessionInv, SessionTypeOK, ServerTypeOK
    <3>2. reader'[s] = reader[s]
      BY <1>1, <2>1, <2>2, <3>1, SessionsPerStep DEF StartSucceeds, CallStop, NoSessionCall, threadVars
    <3>. QED  BY <1>1, <3>2
  <2>3. ASSUME NEW t \in Sid, ReaderStep(t) PROVE reader'[s] \notin {"sending", "reporting"}
    <3>1. CASE t # s
      <4>1. reader'[s] = reader[s]
        BY <2>1, <2>3, <3>1 DEF ReaderStep, ReaderTakes, ReaderChecks, ReaderSends, ReaderEnds,
           ReaderConcludes, ReaderReports, ReaderGoes
      <4>. QED  BY <1>1, <4>1
    <3>2. CASE t = s
      <4>1. ~HasNews(s)
        BY <1>1, <2>1 DEF HasNews, Kinds
      <4>. QED  BY <1>1, <2>1, <2>3, <3>2, <4>1 DEF ReaderStep, ReaderTakes, ReaderChecks,
                ReaderSends, ReaderEnds, ReaderConcludes, ReaderReports, ReaderGoes
    <3>. QED  BY <3>1, <3>2
  <2>4. CASE ~MainStep /\ ~\E t \in Sid : ReaderStep(t)
    <3>1. reader' = reader
      BY <1>1, <2>4 DEF Next, Over, vars, ServerExits, ServerEmits, ServerFinishes, ServerAbandons,
         NotServer, PressKey, RateSettles, WindowPasses, Signal, NoSessionCall, threadVars
    <3>. QED  BY <1>1, <3>1
  <2>. QED  BY <2>2, <2>3, <2>4
<1>2. IInv /\ [Next]_vars =>
        [\A s \in Opened :
           silenced[s] /\ kind[s] # "profiling" /\ reader[s] \notin {"sending", "reporting"}
             => reader'[s] \notin {"sending", "reporting"}]_vars
  BY <1>1
<1>. QED  BY <1>2, Inductive, PTL DEF Spec, SilenceHolds

----------------------------------------------------------------------------
(* The event loop implements SessionLease.                                 *)

\* Whatever the screens, threads and faults do, the dashboard treats the traced
\* process as SessionLease says: one session per purpose, every session let go
\* of is asked to stop, and nothing is opened once the dashboard is being left.
THEOREM ImplementsLease == Spec => Lease!LeaseSafety
<1>1. Init => Lease!LeaseInit
  <2>. SUFFICES ASSUME Init PROVE Lease!LeaseInit
    OBVIOUS
  <2>1. {s \in Sid : silenced[s]} = {}
    BY DEF Init
  <2>. QED  BY <2>1 DEF Init, ServerInit, Lease!LeaseInit, LeavePoints, NoSession
<1>2. IInv /\ [Next]_vars => [Lease!LeaseNext]_(Lease!leaseVars)
  <2>. SUFFICES ASSUME IInv, [Next]_vars PROVE Lease!LeaseNext \/ UNCHANGED Lease!leaseVars
    OBVIOUS
  <2>. USE DEF Lease!leaseVars, Lease!LeaseNext
  <2>1. /\ opened \in Nat /\ handles \in [Kinds -> Sid \cup {NoSession}]
        /\ silenced \in [Sid -> BOOLEAN] /\ main \in Points
        /\ \A k \in Kinds : handles[k] # NoSession => handles[k] \in Sid
    BY DEF IInv, SessionInv, SessionTypeOK, ServerTypeOK, LoopTypeOK
  <2>2. ASSUME NEW k \in Kinds, NEW r \in Nat, handles[k] = NoSession, StartSucceeds(k, r),
               main \notin LeavePoints, main' \notin LeavePoints
        PROVE  Lease!Acquire(k)
    BY <2>1, <2>2 DEF Lease!Acquire, StartSucceeds, Open, FreshSession, NoSession
  <2>3. ASSUME NEW k \in Kinds, NEW next \in Points, handles[k] # NoSession, CallStop(k, next),
               main \in LeavePoints <=> next \in LeavePoints
        PROVE  Lease!Release(k)
    <3>1. {s \in Sid : silenced'[s]} = {s \in Sid : silenced[s]} \cup {handles[k]}
      BY <2>1, <2>3 DEF CallStop
    <3>2. opened' = opened
      BY <2>3 DEF CallStop, RequestStop, serverVars
    <3>. QED  BY <2>1, <2>3, <3>1, <3>2 DEF Lease!Release, CallStop, NoSession
  <2>4. ASSUME UNCHANGED <<opened, handles, silenced>>,
               main \in LeavePoints => main' \in LeavePoints
        PROVE  Lease!StartLeaving \/ UNCHANGED Lease!leaseVars
    BY <2>4 DEF Lease!StartLeaving
  <2>5. CASE MainStep
    BY <2>2, <2>3, <2>4, <2>5, SessionsPerStep DEF NoSessionCall, serverVars
  <2>6. CASE ~MainStep
    <3>1. UNCHANGED <<opened, handles, silenced, main>>
      <4>1. CASE \E s \in Sid : ReaderStep(s)
        BY <4>1 DEF ReaderStep, ReaderTakes, ReaderChecks, ReaderSends, ReaderEnds,
           ReaderConcludes, ReaderReports, NotReader, serverVars, loopVars
      <4>2. CASE ServerExits \/ \E s \in Sid : ServerEmits(s) \/ ServerFinishes(s) \/ ServerAbandons(s)
        BY <4>2 DEF ServerExits, ServerEmits, ServerFinishes, ServerAbandons, ProcessExits,
           Emit, FinishStop, AbandonSession, NotServer, loopVars
      <4>3. CASE (\E k \in Keys : PressKey(k)) \/ RateSettles \/ WindowPasses \/ Signal \/ UNCHANGED vars
        BY <4>3 DEF PressKey, RateSettles, WindowPasses, Signal, NoSessionCall, serverVars,
           loopVars, vars
      <4>. QED  BY <2>6, <4>1, <4>2, <4>3 DEF Next, Over
    <3>. QED  BY <2>4, <3>1
  <2>. QED  BY <2>5, <2>6
<1>. QED  BY <1>1, <1>2, Inductive, PTL DEF Spec, Lease!LeaseSafety
=============================================================================
