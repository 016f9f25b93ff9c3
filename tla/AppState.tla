------------------------------ MODULE AppState ------------------------------
(***************************************************************************)
(* What the dashboard remembers between frames (struct App, app.rs) and    *)
(* what each event and each key does to it (handle_event and handle_key,   *)
(* ui/mod.rs), as operators from one state of the application to the next. *)
(*                                                                         *)
(* The readings themselves, the accumulated runtime findings and the       *)
(* theme are data the event loop never decides on; they are left out here. *)
(* Rates are counted in steps of INTERVAL_STEP (a tenth of a second), and  *)
(* clocks are reduced to the two comparisons made with them: whether the   *)
(* wanted rate has stood still for INTERVAL_SETTLE, and whether the        *)
(* profile window is up.                                                   *)
(***************************************************************************)
EXTENDS Naturals

CONSTANTS
  Keys,      \* the keys the user may press, by the names below
  MinRate, MaxRate,  \* MIN_INTERVAL and MAX_INTERVAL, in steps
  InitRate   \* the rate asked for on the command line, in steps

\* Both faces of a bound key share a name; "other" is any key with no binding.
KeyNames == {"q", "ctrl_c", "d", "Esc", "i", "c", "r", "w", "minus", "plus",
             "help", "p", "other"}

ASSUME AppAssumption ==
  /\ Keys \subseteq KeyNames
  /\ MinRate \in Nat /\ MaxRate \in Nat /\ InitRate \in Nat
  /\ 0 < MinRate /\ MinRate <= MaxRate /\ 0 < InitRate

NoRate == 0     \* pending_interval is None
NoResult == 0   \* no profile on screen or kept
NoKey == "none"

Views == {"Dashboard", "Investigate", "Profile"}
Phases == {"Collecting", "Resolving", "Done", "Failed"}
Statuses == {"Connecting", "Live", "Ended", "Failed"}
Exits == {"None", "Quit", "Detach"}

\* AppEvent: what the reader threads and the input thread send.
MessageTypes == {"Input", "Sample", "SessionEnded", "SessionFailed", "Runtime",
                 "RuntimeFailed", "ProfileProgress", "ProfileDone", "ProfileFailed"}
Message == [type : MessageTypes, from : Nat, key : Keys \cup {NoKey}]

FromReader(t, s) == [type |-> t, from |-> s, key |-> NoKey]
Input(k) == [type |-> "Input", from |-> 0, key |-> k]

\* Sessions are named by their ids, positive numbers.  profile and result name
\* the session whose data they hold; progress names the session whose sample
\* count is displayed.
App == [interval : Nat, pending : Nat, settled : BOOLEAN,
        status : Statuses, paused : BOOLEAN, help : BOOLEAN, exit : Exits,
        view : Views, runtimeError : BOOLEAN,
        phase : Phases, windowUp : BOOLEAN,
        profile : Nat, result : Nat, progress : Nat]

NewApp ==
  [interval |-> InitRate, pending |-> NoRate, settled |-> FALSE,
   status |-> "Connecting", paused |-> FALSE, help |-> FALSE, exit |-> "None",
   view |-> "Dashboard", runtimeError |-> FALSE,
   phase |-> "Resolving", windowUp |-> FALSE,
   profile |-> NoResult, result |-> NoResult, progress |-> NoResult]

----------------------------------------------------------------------------
(* The refresh rate.                                                       *)

WantedInterval(a) == IF a.pending = NoRate THEN a.interval ELSE a.pending

Clamp(r) == IF r < MinRate THEN MinRate ELSE IF r > MaxRate THEN MaxRate ELSE r

\* One press of - or +.  Clamping a rate that started outside the range could
\* move it the wrong way, and such a press is ignored.
StepInterval(a, faster) ==
  LET from == WantedInterval(a)
      next == Clamp(IF faster THEN from - 1 ELSE from + 1)
  IN  IF next # from /\ faster = (next < from)
      THEN [a EXCEPT !.pending = next, !.settled = FALSE]
      ELSE a

HasSettledInterval(a) == a.pending # NoRate /\ a.settled

----------------------------------------------------------------------------
(* Screens.                                                                *)

IsInvestigating(a) == a.view = "Investigate"
IsProfiling(a) == a.view = "Profile"
ProfileCollecting(a) == a.phase = "Collecting"
WindowElapsed(a) == a.phase = "Collecting" /\ a.windowUp

ToggleInvestigate(a) ==
  IF a.view = "Investigate"
  THEN [a EXCEPT !.view = "Dashboard"]
  ELSE [a EXCEPT !.view = "Investigate", !.runtimeError = FALSE]

StartProfile(a) ==
  [a EXCEPT !.view = "Profile", !.profile = NoResult, !.progress = NoResult,
            !.phase = "Collecting", !.windowUp = FALSE]

\* Mutant: leaving the screen does not abandon the collection.
CancelProfileKeepsCollecting(a) == [a EXCEPT !.view = "Dashboard"]

CancelProfile(a) ==
  [a EXCEPT !.phase = IF @ = "Collecting" THEN "Failed" ELSE @, !.view = "Dashboard"]

\* Re-rank what is kept; with nothing kept, nothing is shown.
ToggleProfileWaiting(a) == [a EXCEPT !.profile = a.result]

FinishProfile(a, s) == [a EXCEPT !.result = s, !.phase = "Done", !.profile = s]

----------------------------------------------------------------------------
(* Keys.                                                                   *)

Leave(a, how) == [a EXCEPT !.exit = how]

ProfileKey(a, k) ==
  CASE k \in {"c", "Esc"} -> CancelProfile(a)
    [] k = "r" /\ ~ProfileCollecting(a) -> StartProfile(a)
    [] k = "w" /\ ~ProfileCollecting(a) -> ToggleProfileWaiting(a)
    [] k \in {"q", "ctrl_c"} -> Leave(a, "Quit")
    [] k = "d" -> Leave(a, "Detach")
    [] OTHER -> a

\* `r` also forgets the runtime findings, which are not part of this state.
InvestigateKey(a, k) ==
  CASE k \in {"i", "Esc"} -> ToggleInvestigate(a)
    [] k \in {"q", "ctrl_c"} -> Leave(a, "Quit")
    [] k = "d" -> Leave(a, "Detach")
    [] k = "help" -> [a EXCEPT !.help = TRUE]
    [] OTHER -> a

DashboardKey(a, k) ==
  CASE k \in {"q", "ctrl_c"} -> Leave(a, "Quit")
    [] k \in {"d", "Esc"} -> Leave(a, "Detach")
    [] k = "i" -> ToggleInvestigate(a)
    [] k = "c" -> StartProfile(a)
    [] k = "p" -> [a EXCEPT !.paused = ~@]
    [] k = "minus" -> StepInterval(a, TRUE)
    [] k = "plus" -> StepInterval(a, FALSE)
    [] k = "help" -> [a EXCEPT !.help = TRUE]
    [] OTHER -> a

\* While help is up the next key only dismisses it.
HandleKey(a, k) ==
  CASE a.help -> [a EXCEPT !.help = FALSE]
    [] ~a.help /\ IsProfiling(a) -> ProfileKey(a, k)
    [] ~a.help /\ IsInvestigating(a) -> InvestigateKey(a, k)
    [] OTHER -> DashboardKey(a, k)

----------------------------------------------------------------------------
(* Messages.                                                               *)

HandleEvent(a, m) ==
  CASE m.type = "Input" -> HandleKey(a, m.key)
    [] m.type = "Sample" -> [a EXCEPT !.status = "Live"]
    [] m.type = "SessionEnded" -> [a EXCEPT !.status = "Ended"]
    [] m.type = "SessionFailed" -> [a EXCEPT !.status = "Failed"]
    [] m.type = "RuntimeFailed" -> [a EXCEPT !.runtimeError = TRUE]
    [] m.type = "ProfileProgress" -> [a EXCEPT !.progress = m.from]
    [] m.type = "ProfileDone" -> FinishProfile(a, m.from)
    [] m.type = "ProfileFailed" -> [a EXCEPT !.phase = "Failed"]
    [] OTHER -> a
=============================================================================
