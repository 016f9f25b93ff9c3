---------------------------- MODULE RuntimeState ----------------------------
(***************************************************************************)
(* What an investigation makes of the collections and suspensions the      *)
(* runtime reports (runtime/state.rs), as operators from one state to the  *)
(* next.  The tallies by type - allocations, exceptions, contention - are  *)
(* in Findings.                                                            *)
(*                                                                         *)
(* A pause is kept as the interval of timestamps it was measured between   *)
(* rather than as its length in milliseconds, so that it is known which    *)
(* suspension it measures.                                                 *)
(***************************************************************************)
EXTENDS Naturals, Sequences

CONSTANT MaxRecent   \* MAX_RECENT_GCS

ASSUME RecentAssumption == MaxRecent \in Nat \ {0}

NoTime == 0
NoPause == [from |-> NoTime, to |-> NoTime]
NoCollection == [gc |-> 0, pause |-> NoPause, promoted |-> 0]

Pause == [from : Nat, to : Nat]

\* gc numbers the collection; promoted is the collection whose heap statistics
\* it was given, or 0.
Collection == [gc : Nat, pause : Pause, promoted : Nat]

\* pending is a collection that has started but not ended; suspended is the
\* time of a suspension awaiting its restart; lastPause is a pause awaiting a
\* collection.
State == [pending : Collection, recent : Seq(Collection), gcs : Nat,
          suspended : Nat, lastPause : Pause, totalPause : Nat]

NewState == [pending |-> NoCollection, recent |-> <<>>, gcs |-> 0,
             suspended |-> NoTime, lastPause |-> NoPause, totalPause |-> 0]

Length(p) == p.to - p.from

Newest(seq) ==
  IF Len(seq) > MaxRecent THEN SubSeq(seq, Len(seq) - MaxRecent + 1, Len(seq)) ELSE seq

\* Mutant: the list grows without bound.
FlushPendingUnbounded(st) ==
  IF st.pending = NoCollection THEN st
  ELSE [st EXCEPT !.recent = Append(@, st.pending), !.pending = NoCollection]

FlushPending(st) ==
  IF st.pending = NoCollection THEN st
  ELSE [st EXCEPT !.recent = Newest(Append(@, st.pending)), !.pending = NoCollection]

Started(st, n) == [gc |-> n, pause |-> st.lastPause, promoted |-> 0]

\* Mutants: the pause is copied rather than taken; a collection still pending
\* is dropped.
RecordGcStartCopiesPause(st, n) ==
  [FlushPending(st) EXCEPT !.gcs = @ + 1, !.pending = Started(st, n)]
RecordGcStartDropsPending(st, n) ==
  [st EXCEPT !.gcs = @ + 1, !.pending = Started(st, n), !.lastPause = NoPause]

RecordGcStart(st, n) ==
  [FlushPending(st) EXCEPT !.gcs = @ + 1, !.pending = Started(st, n), !.lastPause = NoPause]

RecordHeapStats(st, n) ==
  IF st.pending = NoCollection THEN st ELSE [st EXCEPT !.pending.promoted = n]

RecordGcEnd(st) == FlushPending(st)

RecordSuspend(st, t) == [st EXCEPT !.suspended = t]

\* A pause goes to the collection in flight if it has none yet, and is held for
\* the next one otherwise.
Attribute(st, p) ==
  IF st.pending # NoCollection /\ st.pending.pause = NoPause
  THEN [st EXCEPT !.pending.pause = p]
  ELSE [st EXCEPT !.lastPause = p]

\* Mutant: the suspension stays open after its restart.
RecordRestartKeepsSuspended(st, t) ==
  LET p == [from |-> st.suspended, to |-> t]
  IN  IF st.suspended = NoTime \/ t <= st.suspended THEN st
      ELSE Attribute([st EXCEPT !.totalPause = @ + Length(p)], p)

RecordRestart(st, t) ==
  LET p == [from |-> st.suspended, to |-> t]
      resumed == [st EXCEPT !.suspended = NoTime]
  IN  IF st.suspended = NoTime \/ t <= st.suspended THEN resumed
      ELSE Attribute([resumed EXCEPT !.totalPause = @ + Length(p)], p)

\* The collections on screen, oldest first.
Listed(st) ==
  IF st.pending = NoCollection THEN st.recent ELSE Append(st.recent, st.pending)
=============================================================================
