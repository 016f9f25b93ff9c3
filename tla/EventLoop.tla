----------------------------- MODULE EventLoop -----------------------------
(***************************************************************************)
(* The dashboard of countercow at run time (ui/mod.rs): the event loop on  *)
(* the main thread, the threads that feed it - one reader per EventPipe    *)
(* session and one for the keyboard - and the bounded channel between      *)
(* them.  The main thread alone opens and closes sessions on the traced    *)
(* process, and it does so synchronously: while it waits for a stop to be  *)
(* answered, nothing takes messages off the channel.                       *)
(*                                                                         *)
(* A reader's `if stop.load(..) || sender.send(..)` is two steps here, the *)
(* check and the send, because the event loop may set the flag in between. *)
(***************************************************************************)
EXTENDS AppState, DiagnosticServer, Sequences

CONSTANTS
  ChannelCapacity,  \* CHANNEL_CAPACITY
  MaxKeys,          \* bound: keys pressed while the dashboard is up
  Traffic,          \* bound: per kind, items a session has to write at most
  Faults            \* what may go wrong: a subset of FaultNames

\* A refused start, a refused stop, a stream that stops parsing, the process
\* exiting, a frame that cannot be drawn, and a signal to countercow.
FaultNames == {"start", "stop", "stream", "exit", "draw", "signal"}

Kinds == {"counters", "investigation", "profiling"}

\* Each key opens at most one session, so MaxSessions never gets in the way.
ASSUME EventLoopAssumption ==
  /\ ChannelCapacity \in Nat \ {0}
  /\ MaxKeys \in Nat
  /\ MaxSessions > MaxKeys
  /\ Traffic \in [Kinds -> 0 .. MaxBacklog]
  /\ Faults \subseteq FaultNames

VARIABLES
  app,        \* the App
  channel,    \* messages sent and not yet received
  main,       \* where the event loop is
  handles,    \* per kind: the Session held in event_loop's local, or NoSession
  stopping,   \* the session whose StopTracing call is in flight, or NoSession
  reopenAt,   \* the interval being applied by restart_counters
  kind,       \* per session: what it was opened for
  rate,       \* per counter session: the interval it was opened at
  silenced,   \* per session: its stop flag
  refused,    \* per session: its stop request failed to reach the server
  reader,     \* per session: where its reader thread is
  outcome,    \* per session: how its reader's parse loop ended
  interrupted,\* a signal has been caught
  keysLeft    \* keys the user may still press

threadVars == <<reader, outcome>>
sessionVars == <<kind, rate>>
loopVars == <<app, main, handles, stopping, reopenAt, silenced, refused>>
vars == <<serverVars, app, channel, main, handles, stopping, reopenAt, kind, rate,
          silenced, refused, reader, outcome, interrupted, keysLeft>>

\* The points of one turn of the loop, then those of its clean-up.  At a
\* "..closing" point, and while leaving, a stop call may be in flight.
Points == {"draw", "drain", "rate", "rate_closing", "reopen",
           "investigation", "investigation_closing", "profiling", "profiling_closing",
           "check", "leave_investigation", "leave_profiling", "leave_counters", "left"}

ReaderPoints == {"unborn", "reading", "holding", "sending", "ended", "reporting", "exited"}

TypeOK ==
  /\ ServerTypeOK
  /\ app \in App
  /\ channel \in Seq(Message)
  /\ Len(channel) <= ChannelCapacity
  /\ main \in Points
  /\ handles \in [Kinds -> Sid \cup {NoSession}]
  /\ stopping \in Sid \cup {NoSession}
  /\ reopenAt \in Nat
  /\ kind \in [Sid -> Kinds]
  /\ rate \in [Sid -> Nat]
  /\ silenced \in [Sid -> BOOLEAN]
  /\ refused \in [Sid -> BOOLEAN]
  /\ reader \in [Sid -> ReaderPoints]
  /\ outcome \in [Sid -> {"ok", "error"}]
  /\ interrupted \in BOOLEAN
  /\ keysLeft \in 0 .. MaxKeys

Init ==
  /\ ServerInit(Traffic["counters"])
  /\ app = NewApp
  /\ channel = <<>>
  /\ main = "draw"
  /\ handles = [k \in Kinds |-> IF k = "counters" THEN 1 ELSE NoSession]
  /\ stopping = NoSession
  /\ reopenAt = InitRate
  /\ kind = [s \in Sid |-> "counters"]
  /\ rate = [s \in Sid |-> InitRate]
  /\ silenced = [s \in Sid |-> FALSE]
  /\ refused = [s \in Sid |-> FALSE]
  /\ reader = [s \in Sid |-> IF s = 1 THEN "reading" ELSE "unborn"]
  /\ outcome = [s \in Sid |-> "ok"]
  /\ interrupted = FALSE
  /\ keysLeft = MaxKeys

----------------------------------------------------------------------------
(* The channel.                                                            *)

HasRoom == Len(channel) < ChannelCapacity
ReceiverDropped == main = "left"

\* Mutant: the channel is unbounded.
SendUnbounded(m) == channel' = Append(channel, m)

Send(m) == HasRoom /\ channel' = Append(channel, m)

----------------------------------------------------------------------------
(* Opening and closing sessions, on the main thread.                       *)

\* A start that succeeds: the runtime opens the session, the reader thread is
\* spawned on its stream, and the event loop keeps a handle.
StartSucceeds(k, r) ==
  /\ Open(Traffic[k])
  /\ kind' = [kind EXCEPT ![FreshSession] = k]
  /\ rate' = [rate EXCEPT ![FreshSession] = r]
  /\ reader' = [reader EXCEPT ![FreshSession] = "reading"]
  /\ handles' = [handles EXCEPT ![k] = FreshSession]
  /\ UNCHANGED <<outcome, silenced, refused>>

StartFails ==
  /\ ~alive \/ "start" \in Faults
  /\ UNCHANGED <<serverVars, sessionVars, threadVars, handles, silenced, refused>>

\* Take the handle, set its stop flag, and send StopTracing.  The request may
\* fail before the server acts on it.
CallStop(k, next) ==
  /\ silenced' = [silenced EXCEPT ![handles[k]] = TRUE]
  /\ handles' = [handles EXCEPT ![k] = NoSession]
  /\ stopping' = handles[k]
  /\ main' = next
  /\ \/ /\ RequestStop(handles[k])
        /\ UNCHANGED refused
     \/ /\ "stop" \in Faults
        /\ refused' = [refused EXCEPT ![handles[k]] = TRUE]
        /\ UNCHANGED serverVars
  /\ UNCHANGED <<sessionVars, threadVars>>

\* The call returns: with success once the server has closed the session, with
\* an error if it never got there or the process is gone.
StopSucceeds == stopping # NoSession /\ ~refused[stopping] /\ StopComplete(stopping)

\* Mutant: an error reply to StopTracing is waited out rather than returned.
StopFailsOnlyAtExit == stopping # NoSession /\ ~alive

StopFails == stopping # NoSession /\ (refused[stopping] \/ ~alive)
StopReturns == StopSucceeds \/ StopFails

Elsewhere == UNCHANGED <<channel, interrupted, keysLeft>>
NoSessionCall == UNCHANGED <<serverVars, sessionVars, threadVars, handles, silenced, refused>>

----------------------------------------------------------------------------
(* One turn of the event loop.                                             *)

\* terminal.draw(..)? failing ends the loop without an exit being chosen.
DrawFails ==
  /\ main = "draw" /\ "draw" \in Faults
  /\ main' = "leave_investigation"
  /\ NoSessionCall /\ Elsewhere /\ UNCHANGED <<app, stopping, reopenAt>>

\* recv_timeout, with a message or without.
ReceiveFirst ==
  /\ main = "draw"
  /\ \/ channel = <<>> /\ UNCHANGED <<app, channel>>
     \/ /\ channel # <<>>
        /\ app' = HandleEvent(app, Head(channel))
        /\ channel' = Tail(channel)
  /\ main' = "drain"
  /\ NoSessionCall /\ UNCHANGED <<stopping, reopenAt, interrupted, keysLeft>>

\* while let Ok(event) = rx.try_recv()
ReceiveMore ==
  /\ main = "drain"
  /\ channel # <<>>
  /\ app' = HandleEvent(app, Head(channel))
  /\ channel' = Tail(channel)
  /\ NoSessionCall /\ UNCHANGED <<main, stopping, reopenAt, interrupted, keysLeft>>

Drained ==
  /\ main = "drain"
  /\ channel = <<>>
  /\ main' = "rate"
  /\ NoSessionCall /\ Elsewhere /\ UNCHANGED <<app, stopping, reopenAt>>

KeepRate ==
  /\ main = "rate" /\ ~HasSettledInterval(app)
  /\ main' = "investigation"
  /\ NoSessionCall /\ Elsewhere /\ UNCHANGED <<app, stopping, reopenAt>>

\* Mutant: the session is restarted at the rate it already had.
ChangeRateToOldRate ==
  /\ main = "rate" /\ HasSettledInterval(app)
  /\ app' = [app EXCEPT !.pending = NoRate]
  /\ reopenAt' = app.interval
  /\ \/ handles["counters"] # NoSession /\ CallStop("counters", "rate_closing")
     \/ /\ handles["counters"] = NoSession
        /\ main' = "reopen"
        /\ NoSessionCall /\ UNCHANGED stopping
  /\ Elsewhere

\* restart_counters: close what is held, if anything is.
ChangeRate ==
  /\ main = "rate" /\ HasSettledInterval(app)
  /\ app' = [app EXCEPT !.pending = NoRate]
  /\ reopenAt' = app.pending
  /\ \/ handles["counters"] # NoSession /\ CallStop("counters", "rate_closing")
     \/ /\ handles["counters"] = NoSession
        /\ main' = "reopen"
        /\ NoSessionCall /\ UNCHANGED stopping
  /\ Elsewhere

CountersClosed ==
  /\ main = "rate_closing" /\ StopReturns
  /\ \/ StopSucceeds /\ main' = "reopen" /\ UNCHANGED app
     \/ /\ StopFails /\ ~StopSucceeds
        /\ main' = "investigation"
        /\ app' = [app EXCEPT !.status = "Failed"]
  /\ stopping' = NoSession
  /\ NoSessionCall /\ Elsewhere /\ UNCHANGED reopenAt

\* Mutant: the displayed rate is not updated.
ReopenCountersUnapplied ==
  /\ main = "reopen"
  /\ StartSucceeds("counters", reopenAt) \/ StartFails
  /\ main' = "investigation"
  /\ Elsewhere /\ UNCHANGED <<app, stopping, reopenAt>>

ReopenCounters ==
  /\ main = "reopen"
  /\ \/ /\ StartSucceeds("counters", reopenAt)
        /\ app' = [app EXCEPT !.interval = reopenAt]
     \/ StartFails /\ app' = [app EXCEPT !.status = "Failed"]
  /\ main' = "investigation"
  /\ Elsewhere /\ UNCHANGED <<stopping, reopenAt>>

\* Reconcile the investigation with the screen.
ReconcileInvestigation ==
  LET wanted == IsInvestigating(app)
      held == handles["investigation"] # NoSession
  IN  /\ main = "investigation"
      /\ \/ /\ wanted /\ ~held
            /\ main' = "profiling"
            /\ \/ StartSucceeds("investigation", 0) /\ UNCHANGED app
               \/ StartFails /\ app' = [app EXCEPT !.runtimeError = TRUE]
            /\ UNCHANGED stopping
         \/ ~wanted /\ held /\ CallStop("investigation", "investigation_closing") /\ UNCHANGED app
         \/ /\ wanted = held
            /\ main' = "profiling"
            /\ NoSessionCall /\ UNCHANGED <<app, stopping>>
      /\ Elsewhere /\ UNCHANGED reopenAt

InvestigationClosed ==
  /\ main = "investigation_closing" /\ StopReturns
  /\ main' = "profiling"
  /\ stopping' = NoSession
  /\ NoSessionCall /\ Elsewhere /\ UNCHANGED <<app, reopenAt>>

\* Reconcile the profile with its phase and the screen.
ReconcileProfile ==
  LET wanted == ProfileCollecting(app)
      held == handles["profiling"] # NoSession
      unwatched == ~wanted /\ held /\ ~IsProfiling(app)
      windowOver == held /\ WindowElapsed(app)
  IN  /\ main = "profiling"
      /\ \/ /\ wanted /\ ~held
            /\ main' = "check"
            /\ \/ StartSucceeds("profiling", 0) /\ UNCHANGED app
               \/ StartFails /\ app' = [app EXCEPT !.phase = "Failed"]
            /\ UNCHANGED stopping
         \/ unwatched /\ CallStop("profiling", "profiling_closing") /\ UNCHANGED app
         \/ /\ windowOver
            /\ app' = [app EXCEPT !.phase = "Resolving"]
            /\ CallStop("profiling", "profiling_closing")
         \/ /\ ~(wanted /\ ~held) /\ ~unwatched /\ ~windowOver
            /\ main' = "check"
            /\ NoSessionCall /\ UNCHANGED <<app, stopping>>
      /\ Elsewhere /\ UNCHANGED reopenAt

ProfilingClosed ==
  /\ main = "profiling_closing" /\ StopReturns
  /\ main' = "check"
  /\ stopping' = NoSession
  /\ NoSessionCall /\ Elsewhere /\ UNCHANGED <<app, reopenAt>>

\* Mutant: the signal flag is never looked at.
CheckExitKeysOnly ==
  /\ main = "check"
  /\ main' = IF app.exit = "None" THEN "draw" ELSE "leave_investigation"
  /\ NoSessionCall /\ Elsewhere /\ UNCHANGED <<app, stopping, reopenAt>>

CheckExit ==
  LET exit == IF interrupted THEN "Quit" ELSE app.exit
  IN  /\ main = "check"
      /\ app' = [app EXCEPT !.exit = exit]
      /\ main' = IF exit = "None" THEN "draw" ELSE "leave_investigation"
      /\ NoSessionCall /\ Elsewhere /\ UNCHANGED <<stopping, reopenAt>>

\* Clean-up: whatever is still held is stopped, one session after another.
Leaving(k, here, next) ==
  /\ main = here
  /\ \/ /\ stopping = NoSession /\ handles[k] # NoSession
        /\ CallStop(k, here)
     \/ /\ stopping # NoSession /\ StopReturns
        /\ stopping' = NoSession
        /\ main' = next
        /\ NoSessionCall
     \/ /\ stopping = NoSession /\ handles[k] = NoSession
        /\ main' = next
        /\ NoSessionCall /\ UNCHANGED stopping
  /\ Elsewhere /\ UNCHANGED <<app, reopenAt>>

LeaveInvestigation == Leaving("investigation", "leave_investigation", "leave_profiling")

\* Mutant: a profile in flight is forgotten on the way out.
LeaveProfilingSkipped ==
  /\ main = "leave_profiling"
  /\ main' = "leave_counters"
  /\ NoSessionCall /\ Elsewhere /\ UNCHANGED <<app, stopping, reopenAt>>

LeaveProfiling == Leaving("profiling", "leave_profiling", "leave_counters")
LeaveCounters == Leaving("counters", "leave_counters", "left")

MainStep ==
  \/ DrawFails \/ ReceiveFirst \/ ReceiveMore \/ Drained
  \/ KeepRate \/ ChangeRate \/ CountersClosed \/ ReopenCounters
  \/ ReconcileInvestigation \/ InvestigationClosed
  \/ ReconcileProfile \/ ProfilingClosed
  \/ CheckExit \/ LeaveInvestigation \/ LeaveProfiling \/ LeaveCounters

----------------------------------------------------------------------------
(* The reader threads.                                                     *)

ReaderGoes(s, from, to) == reader[s] = from /\ reader' = [reader EXCEPT ![s] = to]

NotReader == UNCHANGED <<loopVars, sessionVars, interrupted, keysLeft>>

\* Take one item off the stream.  Only counters and investigations look at
\* their stop flag before sending; a profile reports progress regardless.
ReaderTakes(s) ==
  /\ ReaderGoes(s, "reading", IF kind[s] = "profiling" THEN "sending" ELSE "holding")
  /\ socket[s] > 0
  /\ socket' = [socket EXCEPT ![s] = @ - 1]
  /\ UNCHANGED <<alive, opened, server, backlog, outcome, channel>> /\ NotReader

\* Mutant: the stop flag is not looked at between messages.
ReaderChecksNothing(s) ==
  /\ ReaderGoes(s, "holding", "sending")
  /\ UNCHANGED <<serverVars, outcome, channel>> /\ NotReader

\* stop.load(..): a silenced reader breaks out and says nothing more.
ReaderChecks(s) ==
  /\ ReaderGoes(s, "holding", IF silenced[s] THEN "exited" ELSE "sending")
  /\ UNCHANGED <<serverVars, outcome, channel>> /\ NotReader

ItemMessage == [counters |-> "Sample", investigation |-> "Runtime",
                profiling |-> "ProfileProgress"]

\* sender.send(..): blocks while the channel is full, fails once nobody listens.
ReaderSends(s) ==
  /\ reader[s] = "sending"
  /\ \/ /\ ~ReceiverDropped
        /\ Send(FromReader(ItemMessage[kind[s]], s))
        /\ ReaderGoes(s, "sending", "reading")
     \/ /\ ReceiverDropped
        /\ ReaderGoes(s, "sending", IF kind[s] = "profiling" THEN "reading" ELSE "exited")
        /\ UNCHANGED channel
  /\ UNCHANGED <<serverVars, outcome>> /\ NotReader

\* The parse loop ends at the end of a closed stream - in an error if the
\* process died in the middle of a block - or at something it cannot parse.
ReaderEnds(s, how) ==
  /\ ReaderGoes(s, "reading", "ended")
  /\ \/ /\ server[s] = "closed" /\ socket[s] = 0
        /\ how = "ok" \/ ~alive
     \/ "stream" \in Faults /\ how = "error"
  /\ outcome' = [outcome EXCEPT ![s] = how]
  /\ UNCHANGED <<serverVars, channel>> /\ NotReader

\* Mutants: the old session's end is reported even after it was asked for; a
\* stopped profile is not reported.
HasNewsAlways(s) ==
  CASE kind[s] = "counters" -> TRUE
    [] kind[s] = "investigation" -> outcome[s] = "error"
    [] kind[s] = "profiling" -> TRUE
HasNewsUnlessStopped(s) ==
  CASE kind[s] = "investigation" -> outcome[s] = "error" /\ ~silenced[s]
    [] OTHER -> ~silenced[s]

\* What each thread does after its loop: the counter reader reports unless it
\* was silenced, the runtime reader only an error nobody asked for, the
\* profile reader always.
HasNews(s) ==
  CASE kind[s] = "counters" -> ~silenced[s]
    [] kind[s] = "investigation" -> outcome[s] = "error" /\ ~silenced[s]
    [] kind[s] = "profiling" -> TRUE

ReaderConcludes(s) ==
  /\ ReaderGoes(s, "ended", IF HasNews(s) THEN "reporting" ELSE "exited")
  /\ UNCHANGED <<serverVars, outcome, channel>> /\ NotReader

FinalMessage(s) ==
  CASE kind[s] = "counters" -> IF outcome[s] = "ok" THEN "SessionEnded" ELSE "SessionFailed"
    [] kind[s] = "investigation" -> "RuntimeFailed"
    [] kind[s] = "profiling" -> IF outcome[s] = "ok" THEN "ProfileDone" ELSE "ProfileFailed"

ReaderReports(s) ==
  /\ ReaderGoes(s, "reporting", "exited")
  /\ \/ ~ReceiverDropped /\ Send(FromReader(FinalMessage(s), s))
     \/ ReceiverDropped /\ UNCHANGED channel
  /\ UNCHANGED <<serverVars, outcome>> /\ NotReader

ReaderStep(s) ==
  \/ ReaderTakes(s) \/ ReaderChecks(s) \/ ReaderSends(s)
  \/ \E how \in {"ok", "error"} : ReaderEnds(s, how)
  \/ ReaderConcludes(s) \/ ReaderReports(s)

----------------------------------------------------------------------------
(* The traced process, the user, the clock and signals.                    *)

HungUp == {s \in Sid : reader[s] = "exited"}

NotServer == UNCHANGED <<loopVars, sessionVars, threadVars, channel, interrupted, keysLeft>>

ServerEmits(s) == Emit(s, HungUp) /\ NotServer
ServerFinishes(s) == FinishStop(s) /\ NotServer
ServerAbandons(s) == AbandonSession(s, HungUp) /\ NotServer
ServerExits == "exit" \in Faults /\ ProcessExits /\ NotServer

\* The input thread reads a key and sends it, blocking like any other sender.
PressKey(k) ==
  /\ ~ReceiverDropped
  /\ keysLeft > 0
  /\ keysLeft' = keysLeft - 1
  /\ Send(Input(k))
  /\ UNCHANGED <<serverVars, loopVars, sessionVars, threadVars, interrupted>>

\* INTERVAL_SETTLE passes without another press; the profile window passes.
RateSettles ==
  /\ app.pending # NoRate /\ ~app.settled
  /\ app' = [app EXCEPT !.settled = TRUE]
  /\ NoSessionCall /\ Elsewhere /\ UNCHANGED <<main, stopping, reopenAt>>

WindowPasses ==
  /\ ProfileCollecting(app) /\ ~app.windowUp
  /\ app' = [app EXCEPT !.windowUp = TRUE]
  /\ NoSessionCall /\ Elsewhere /\ UNCHANGED <<main, stopping, reopenAt>>

Signal ==
  /\ "signal" \in Faults /\ ~interrupted
  /\ interrupted' = TRUE
  /\ NoSessionCall /\ UNCHANGED <<app, channel, main, stopping, reopenAt, keysLeft>>

\* The dashboard is over; the threads left behind may still run.
Over == ReceiverDropped /\ UNCHANGED vars

Next ==
  \/ MainStep
  \/ \E s \in Sid : ReaderStep(s) \/ ServerEmits(s) \/ ServerFinishes(s) \/ ServerAbandons(s)
  \/ ServerExits
  \/ \E k \in Keys : PressKey(k)
  \/ RateSettles \/ WindowPasses \/ Signal \/ Over

\* Threads are scheduled, the process answers a stop, and time passes.  Nothing
\* obliges the user, a signal or a fault to happen, nor an open session to write.
Fairness ==
  /\ WF_vars(MainStep)
  /\ \A s \in Sid :
       /\ WF_vars(ReaderStep(s))
       /\ WF_vars(server[s] = "stopping" /\ ServerEmits(s))
       /\ WF_vars(ServerFinishes(s))
       /\ WF_vars(ServerAbandons(s))
  /\ WF_vars(RateSettles)
  /\ WF_vars(WindowPasses)

Spec == Init /\ [][Next]_vars
FairSpec == Spec /\ Fairness

----------------------------------------------------------------------------
(* Properties.                                                             *)

LeavePoints == {"leave_investigation", "leave_profiling", "leave_counters", "left"}

\* No session is lost track of, however starts and stops fail: one that was
\* opened is held or has been told to stop; and once the dashboard has been
\* left, none is still open on the process unless its stop request failed
\* (stop_counters: "a session leaked per attach would accumulate").
NothingLeftOpen ==
  /\ \A s \in Opened : silenced[s] \/ \E k \in Kinds : handles[k] = s
  /\ main = "left" => \A s \in Opened : Writing(s) => refused[s]

\* What a frame shows is what the sessions are: an investigation session runs
\* only while its screen is up ("the session exists only while the user is
\* looking at it"), and the screen has one or says why not; a profile session
\* runs only on the profile screen, and one is behind every collection in
\* progress; the live counter session runs at the displayed rate.
FramesMatchSessions ==
  main = "draw" =>
    /\ handles["investigation"] # NoSession => IsInvestigating(app)
    /\ IsInvestigating(app) => handles["investigation"] # NoSession \/ app.runtimeError
    /\ handles["profiling"] # NoSession => IsProfiling(app)
    /\ ProfileCollecting(app) => handles["profiling"] # NoSession
    /\ handles["counters"] # NoSession => rate[handles["counters"]] = app.interval

\* A counter or runtime reader that is silenced before it has committed to a
\* message never commits to one again (Session::silence).
SilenceHolds ==
  [][\A s \in Opened :
       silenced[s] /\ kind[s] # "profiling" /\ reader[s] \notin {"sending", "reporting"}
         => reader'[s] \notin {"sending", "reporting"}]_vars

\* A request to leave, or a signal, always gets the user out, every session
\* having been dealt with on the way.
LeavingEnds == (interrupted \/ app.exit # "None") ~> main = "left"

\* A rate that was asked for is reached - the counter session runs at it and
\* it is the one displayed - unless another was asked for meanwhile, the
\* restart failed and the status says so, or the dashboard is being left.
RateReached ==
  \A r \in MinRate .. MaxRate :
    app.pending = r ~>
      \/ /\ handles["counters"] # NoSession
         /\ rate[handles["counters"]] = r /\ app.interval = r
      \/ app.pending \notin {r, NoRate}
      \/ app.status = "Failed"
      \/ main \in LeavePoints

\* A profile that is collecting does not collect forever, and one that is
\* resolving is resolved, as long as the process is there to answer.
ProfileConcludes ==
  (IsProfiling(app) /\ app.phase \in {"Collecting", "Resolving"})
    ~> (~IsProfiling(app) \/ app.phase \in {"Done", "Failed"} \/ main = "left")

\* The event loop keeps the promise SessionLease makes to the process.
Lease == INSTANCE SessionLease
           WITH Purposes <- Kinds, FirstPurpose <- "counters",
                given <- opened, held <- handles,
                asked <- {s \in Sid : silenced[s]}, leaving <- main \in LeavePoints

KeepsLease == Lease!LeaseSpec

\* "stop the session when the window is up" (event_loop): no profile session
\* is held forever.
ProfileSessionEnds == handles["profiling"] # NoSession ~> handles["profiling"] = NoSession

\* StopTracing is answered (commands.rs, stop_tracing).
StopAnswered == stopping # NoSession ~> stopping = NoSession

\* "stop there rather than stacking a second on top" (restart_counters): the
\* process never has two counter sessions open at once.
NoStacking ==
  \A s, t \in Opened :
    kind[s] = "counters" /\ kind[t] = "counters" /\ Writing(s) /\ Writing(t) => s = t
=============================================================================
