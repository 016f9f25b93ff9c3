--------------------------- MODULE Investigation ---------------------------
(***************************************************************************)
(* An investigation watching a runtime collect garbage: what the runtime   *)
(* reports, the order in which its stream delivers it, and what            *)
(* RuntimeState makes of that.                                             *)
(*                                                                         *)
(* The runtime is not in the repository; its behaviour here is the one the *)
(* repository's capture of it shows (tests/fixtures/                       *)
(* runtime-net10-loaded.nettrace).  A collection is a suspension, a start, *)
(* an end, heap statistics and a restart, in that order in time; the start *)
(* is reported by the thread that needed the memory, the rest by the       *)
(* collector's own thread.  A block of the stream holds each thread's      *)
(* events together, one thread after the other, and the parser hands them  *)
(* on in the order of the stream (nettrace/blocks.rs, parse_event_rows).   *)
(* Threads also allocate, throw and block, at any time they run.           *)
(***************************************************************************)
EXTENDS RuntimeState, Findings

CONSTANTS
  Occurrences, \* what may happen on a thread
  MaxGcs,      \* bound: collections the runtime makes, and
  MaxFindings, \* bound: findings, which take the place of as many collections
  MaxSessions  \* bound: times the investigation screen is opened

ASSUME BoundsAssumption ==
  /\ {MaxGcs, MaxFindings} \subseteq Nat /\ MaxSessions \in Nat \ {0}

ASSUME OccurrencesAssumption ==
  \A o \in DOMAIN Occurrences : \/ IsAllocation(Occurrences[o]) \/ IsException(Occurrences[o])
                               \/ IsContention(Occurrences[o])

Threads == {"collector", "mutator"}
Steps == {"running", "suspended", "collecting", "ended", "measured"}

\* A finding is of an occurrence and of no collection.
Event == [type : {"Suspend", "Start", "End", "HeapStats", "Restart"},
          gc : 1 .. MaxGcs, time : Nat]
Finding == [type : {"Finding"}, of : DOMAIN Occurrences]

VARIABLES
  step,      \* how far the runtime is with its current collection
  gc,        \* the collection it is at, or the last one it made
  clock,     \* timestamps already given out
  brackets,  \* per collection: the suspension around it, once begun and ended
  watching,  \* a session is open
  opened,    \* sessions opened so far
  written,   \* per thread: events reported and not yet in a block
  stream,    \* events in blocks and not yet recorded
  state,     \* the RuntimeState
  happened,  \* findings so far
  findings,  \* the rest of the RuntimeState: the tallies by type
  told,      \* the occurrences recorded since the last reset
  starts,    \* collections whose start has been recorded since the last reset
  since      \* the first suspension recorded since the last reset, or NoTime

runtimeVars == <<step, gc, clock, brackets, happened>>
findingVars == <<findings, told>>
vars == <<runtimeVars, findingVars, watching, opened, written, stream, state, starts, since>>

TypeOK ==
  /\ step \in Steps
  /\ gc \in 0 .. MaxGcs
  /\ clock \in Nat
  /\ brackets \in [1 .. MaxGcs -> Pause]
  /\ watching \in BOOLEAN
  /\ opened \in 0 .. MaxSessions
  /\ written \in [Threads -> Seq(Event \cup Finding)]
  /\ stream \in Seq(Event \cup Finding)
  /\ happened \in 0 .. MaxFindings
  /\ told \in Seq(DOMAIN Occurrences)
  /\ state \in State
  /\ Len(state.recent) <= MaxRecent
  /\ starts \in Seq(1 .. MaxGcs)
  /\ since \in Nat

NothingWritten == [th \in Threads |-> <<>>]

Init ==
  /\ step = "running"
  /\ gc = 0
  /\ clock = NoTime
  /\ brackets = [n \in 1 .. MaxGcs |-> NoPause]
  /\ watching = FALSE
  /\ opened = 0
  /\ written = NothingWritten
  /\ stream = <<>>
  /\ state = NewState
  /\ starts = <<>>
  /\ since = NoTime
  /\ happened = 0 /\ findings = NewFindings /\ told = <<>>

----------------------------------------------------------------------------
(* The runtime.                                                            *)

\* Report an event of collection n on a thread; without a session it is lost.
Report(th, type, n) ==
  /\ clock' = clock + 1
  /\ written' =
       IF watching
       THEN [written EXCEPT ![th] = Append(@, [type |-> type, gc |-> n, time |-> clock + 1])]
       ELSE written
  /\ UNCHANGED <<happened, findingVars, watching, opened, stream, state, starts, since>>

Suspend ==
  /\ step = "running" /\ gc + happened < MaxGcs
  /\ step' = "suspended"
  /\ gc' = gc + 1
  /\ brackets' = [brackets EXCEPT ![gc + 1].from = clock + 1]
  /\ Report("collector", "Suspend", gc + 1)

Collect(th) ==
  /\ step = "suspended" /\ step' = "collecting"
  /\ UNCHANGED <<gc, brackets>>
  /\ Report(th, "Start", gc)

EndCollection ==
  /\ step = "collecting" /\ step' = "ended"
  /\ UNCHANGED <<gc, brackets>>
  /\ Report("collector", "End", gc)

Measure ==
  /\ step = "ended" /\ step' = "measured"
  /\ UNCHANGED <<gc, brackets>>
  /\ Report("collector", "HeapStats", gc)

Restart ==
  /\ step = "measured" /\ step' = "running"
  /\ brackets' = [brackets EXCEPT ![gc].to = clock + 1]
  /\ UNCHANGED gc
  /\ Report("collector", "Restart", gc)

\* A thread that runs allocates, throws or has waited for a lock.
Occur(o) ==
  /\ step = "running" /\ watching
  /\ happened < MaxFindings /\ gc + happened < MaxGcs
  /\ happened' = happened + 1
  /\ written' = [written EXCEPT !["mutator"] = Append(@, [type |-> "Finding", of |-> o])]
  /\ UNCHANGED <<step, gc, clock, brackets, findingVars, watching, opened, stream, state, starts,
                 since>>

\* A block: one thread's events, then the other's.
WriteBlock ==
  /\ written # NothingWritten
  /\ \E first \in Threads : LET second == CHOOSE th \in Threads : th # first
                            IN  stream' = stream \o written[first] \o written[second]
  /\ written' = NothingWritten
  /\ UNCHANGED <<runtimeVars, findingVars, watching, opened, state, starts, since>>

----------------------------------------------------------------------------
(* The investigation.                                                      *)

Open ==
  /\ ~watching /\ opened < MaxSessions
  /\ watching' = TRUE
  /\ opened' = opened + 1
  /\ UNCHANGED <<runtimeVars, findingVars, written, stream, state, starts, since>>

\* Leaving the screen silences the session: what its reader has already sent is
\* still recorded, the rest is not.  The findings are kept.
Close ==
  /\ watching
  /\ watching' = FALSE
  /\ written' = NothingWritten
  /\ \E sent \in 0 .. Len(stream) : stream' = SubSeq(stream, 1, sent)
  /\ UNCHANGED <<runtimeVars, findingVars, opened, state, starts, since>>

RecordRuntime(st, e) ==
  CASE e.type = "Start" -> RecordGcStart(st, e.gc)
    [] e.type = "End" -> RecordGcEnd(st)
    [] e.type = "HeapStats" -> RecordHeapStats(st, e.gc)
    [] e.type = "Suspend" -> RecordSuspend(st, e.time)
    [] e.type = "Restart" -> RecordRestart(st, e.time)
    [] OTHER -> st

\* What cannot be read is passed over.
RecordFinding(f, o) ==
  LET tick == DecodeAllocationTick(AllocationTick(o))
      thrown == DecodeExceptionThrown(ExceptionThrown(o))
      stop == DecodeContentionStop(ContentionStop(o))
  IN  CASE o.type = "Allocation" -> IF tick.ok THEN RecordAllocation(f, tick) ELSE f
        [] o.type = "Exception" -> IF thrown.ok THEN RecordException(f, thrown) ELSE f
        [] o.type = "Contention" -> IF stop.ok THEN RecordContention(f, stop) ELSE f

Record ==
  /\ stream # <<>>
  /\ LET e == Head(stream)
     IN  /\ state' = RecordRuntime(state, e)
         /\ starts' = IF e.type = "Start" THEN Append(starts, e.gc) ELSE starts
         /\ since' = IF e.type = "Suspend" /\ since = NoTime THEN e.time ELSE since
         /\ findings' = IF e.type = "Finding" THEN RecordFinding(findings, Occurrences[e.of])
                        ELSE findings
         /\ told' = IF e.type = "Finding" THEN Append(told, e.of) ELSE told
  /\ stream' = Tail(stream)
  /\ UNCHANGED <<runtimeVars, watching, opened, written>>

\* `r` on the investigation screen.
Reset ==
  /\ watching /\ (state # NewState \/ findings # NewFindings)
  /\ state' = NewState /\ findings' = NewFindings /\ told' = <<>>
  /\ starts' = <<>>
  /\ since' = NoTime
  /\ UNCHANGED <<runtimeVars, watching, opened, written, stream>>

Next ==
  \/ Suspend \/ (\E th \in Threads : Collect(th)) \/ EndCollection \/ Measure \/ Restart
  \/ (\E o \in DOMAIN Occurrences : Occur(o))
  \/ WriteBlock
  \/ Open \/ Close \/ Record \/ Reset

Spec == Init /\ [][Next]_vars

----------------------------------------------------------------------------
(* Properties.                                                             *)

\* The collections on screen are the latest ones to have started since the
\* last reset, each of them once and in the order they were reported, however
\* many ends were missed and however often the screen was left and reopened.
\* What is kept besides the pending one is as many as MAX_RECENT_GCS allows.
LatestListed ==
  LET listed == Listed(state)
      dropped == Len(starts) - Len(listed)
  IN  /\ state.gcs = Len(starts)
      /\ dropped >= 0
      /\ dropped > 0 => Len(state.recent) = MaxRecent
      /\ \A i \in 1 .. Len(listed) : listed[i].gc = starts[dropped + i]

\* No pause is shown for two collections, nor held for another once shown.
PauseAttributedOnce ==
  LET shown == {i \in 1 .. Len(Listed(state)) : Listed(state)[i].pause # NoPause}
  IN  /\ \A i, j \in shown : Listed(state)[i].pause = Listed(state)[j].pause => i = j
      /\ \A i \in shown : Listed(state)[i].pause # state.lastPause

\* The time the process is said to have been paused since the last reset is
\* never more than the time there was, even when a session opens or closes in
\* the middle of a suspension.
PausesFit == state.totalPause > 0 => since # NoTime /\ since + state.totalPause <= clock

\* The places in told of a type's occurrences with a name, their amounts together
\* and the first of them.
ToldOf(type, name) ==
  {i \in DOMAIN told : Occurrences[told[i]].type = type /\ Occurrences[told[i]].name = name}
NamesTold(type) == {Occurrences[o].name : o \in {p \in Range(told) : Occurrences[p].type = type}}
AmountOf(places) == SumFunctionOnSet([i \in places |-> Occurrences[told[i]].amount], places)
FirstOf(places) == Occurrences[told[Min(places)]]

\* What the screen says of a type is what happened to it since the last reset,
\* whatever the version and pointer size of the process that wrote it, however
\* many sessions it took to hear of it (runtime/events.rs:273, state.rs:87): its
\* bytes, how often, the large heap if it was ever on it, the first message of an
\* exception; the types of the greatest weight come first, and their shares fit
\* the whole.
FindingsAreTold ==
  LET allocations == findings.allocations
      exceptions == findings.exceptions
      top == TopAllocations(findings, Len(told))
      thrown == TopExceptions(findings, Len(told))
  IN  /\ DOMAIN allocations = NamesTold("Allocation")
      /\ DOMAIN exceptions = NamesTold("Exception")
      /\ \A name \in DOMAIN allocations :
           LET ticks == ToldOf("Allocation", name)
               large == \E i \in ticks : Occurrences[told[i]].kind = "Large"
           IN  allocations[name] =
                 [bytes |-> AmountOf(ticks), ticks |-> Cardinality(ticks),
                  kind |-> IF large THEN "Large" ELSE FirstOf(ticks).kind]
      /\ \A name \in DOMAIN exceptions :
           LET throws == ToldOf("Exception", name)
           IN  exceptions[name] = [message |-> FirstOf(throws).message, count |-> Cardinality(throws)]
      /\ findings.contention.total = AmountOf(ToldOf("Contention", <<>>))
      /\ findings.contention.max <= findings.contention.total
      /\ \A i, j \in DOMAIN top : i < j => allocations[top[i]].bytes >= allocations[top[j]].bytes
      /\ \A i, j \in DOMAIN thrown : i < j =>
           exceptions[thrown[i]].count >= exceptions[thrown[j]].count
      /\ SumFunctionOnSet([name \in DOMAIN allocations |-> AllocationShare(findings, name)],
                          DOMAIN allocations) <= 100

\* "Wall-clock pause, when both the suspend and restart events were seen"
\* (struct Collection): the pause shown for a collection is the length of the
\* suspension it happened in.
PauseIsOwn ==
  \A i \in 1 .. Len(Listed(state)) :
    LET c == Listed(state)[i] IN c.pause # NoPause => c.pause = brackets[c.gc]
=============================================================================
