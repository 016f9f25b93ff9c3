------------------------------- MODULE Profile -------------------------------
(***************************************************************************)
(* Collecting a CPU profile (profile/run.rs, collect): the stream a        *)
(* runtime writes while it samples, the parser's handling of its blocks    *)
(* (nettrace/blocks.rs, next_events), and what becomes of the samples.     *)
(*                                                                         *)
(* The runtime is not in the repository; it writes the way the captures in *)
(* tests/fixtures show.  A sample names its stack by id.  Ids are given in *)
(* order of first appearance, a stack's definition is written in a stack   *)
(* block ahead of the block of events that first refers to it, and after a *)
(* sequence point, which writes out everything before it, ids start again  *)
(* from 1.  Methods jitted during the session are reported as they are,    *)
(* all of them once the session has been stopped.                          *)
(*                                                                         *)
(* Blocks are counted in generations: the stretches between two sequence   *)
(* points in which some stack was defined.                                 *)
(***************************************************************************)
EXTENDS ProfileState

CONSTANTS
  Jitted,          \* the methods compiled while the session is open
  MaxGenerations,  \* bound: generations of stacks
  MaxSamples       \* bound: samples taken

ASSUME CollectAssumption ==
  /\ Jitted \subseteq Methods
  /\ MaxGenerations \in Nat \ {0} /\ MaxSamples \in Nat

NoMethod == [start |-> 0, size |-> 0, name |-> ""]

\* A sample or a method event.  frames and gen are what the runtime meant by
\* the id; the collector cannot see them.
Event == [type : {"Sample", "Method"}, id : StackIds \cup {0}, failed : BOOLEAN,
          method : Methods \cup {NoMethod}, frames : Stacks \cup {<<>>}, gen : Nat]

Block == [type : {"EventBlock", "StackBlock", "SPBlock", "End"},
          events : Seq(Event), first : StackIds \cup {0}, stacks : Seq(Definition)]

VARIABLES
  session,   \* the runtime's session: "open", "stopped", "rundown", "closed"
  gen,       \* the generation it is in
  defined,   \* stacks given an id in this generation, by id
  written,   \* how many of them are in a block
  events,    \* events not yet in a block
  sampled,   \* samples taken
  stream,    \* blocks not yet parsed
  table,     \* the StackTable
  seen,      \* sequence_point_seen
  pending,   \* samples waiting for a sequence point
  tally,     \* the ProfileState
  methods,   \* the MethodTable
  finished,  \* collect has returned
  resolved   \* what the samples drained last were resolved with, for the properties

runtimeVars == <<session, gen, defined, written, events, sampled>>
collectorVars == <<table, seen, pending, tally, methods, finished, resolved>>
vars == <<runtimeVars, stream, collectorVars>>

Resolution == [frames : Stacks, gen : Nat, with : Definition \cup {NoStack}]

TypeOK ==
  /\ session \in {"open", "stopped", "rundown", "closed"}
  /\ gen \in 1 .. MaxGenerations
  /\ defined \in Seq(Stacks) /\ Len(defined) <= MaxStacks
  /\ written \in 0 .. Len(defined)
  /\ events \in Seq(Event)
  /\ sampled \in 0 .. MaxSamples
  /\ stream \in Seq(Block)
  /\ table \in StackTable
  /\ seen \in BOOLEAN
  /\ pending \in Seq(Event)
  /\ tally \in Tally
  /\ methods \subseteq {m \in Methods : m.start > 0 /\ m.size > 0}
  /\ finished \in BOOLEAN
  /\ resolved \subseteq Resolution

Init ==
  /\ session = "open"
  /\ gen = 1
  /\ defined = <<>>
  /\ written = 0
  /\ events = <<>>
  /\ sampled = 0
  /\ stream = <<>>
  /\ table = NewStackTable
  /\ seen = FALSE
  /\ pending = <<>>
  /\ tally = NewTally
  /\ methods = {}
  /\ finished = FALSE
  /\ resolved = {}

----------------------------------------------------------------------------
(* The runtime.  It cannot tell how far the collector has got, so nothing  *)
(* is lost by letting it go on only when everything written is parsed.     *)

Parsing == stream # <<>>

SampleEvent(id, f, failed) ==
  [type |-> "Sample", id |-> id, failed |-> failed, method |-> NoMethod, frames |-> f, gen |-> gen]
MethodEvent(m) ==
  [type |-> "Method", id |-> 0, failed |-> FALSE, method |-> m, frames |-> <<>>, gen |-> 0]

\* A thread is sampled with stack f; the walk may have failed.
Sample(f, failed) ==
  /\ ~Parsing /\ session = "open" /\ sampled < MaxSamples
  /\ sampled' = sampled + 1
  /\ \/ \E id \in DOMAIN defined :
          /\ defined[id] = f
          /\ events' = Append(events, SampleEvent(id, f, failed))
          /\ UNCHANGED defined
     \/ /\ f \notin Range(defined) /\ Len(defined) < MaxStacks
        /\ defined' = Append(defined, f)
        /\ events' = Append(events, SampleEvent(Len(defined) + 1, f, failed))
  /\ UNCHANGED <<session, gen, written, stream, collectorVars>>

\* A method is jitted once.
Jit(m) ==
  /\ ~Parsing /\ session = "open"
  /\ m \notin methods /\ MethodEvent(m) \notin Range(events)
  /\ events' = Append(events, MethodEvent(m))
  /\ UNCHANGED <<session, gen, defined, written, sampled, stream, collectorVars>>

EmptyBlock(type) == [type |-> type, events |-> <<>>, first |-> 0, stacks |-> <<>>]

StackBlock ==
  [EmptyBlock("StackBlock") EXCEPT
     !.first = written + 1,
     !.stacks = [i \in 1 .. Len(defined) - written |->
                   [gen |-> gen, frames |-> defined[written + i]]]]

\* What is in hand, as blocks: definitions first.
Unwritten ==
  (IF written < Len(defined) THEN <<StackBlock>> ELSE <<>>)
    \o (IF events # <<>> THEN <<[EmptyBlock("EventBlock") EXCEPT !.events = events]>> ELSE <<>>)

Flush ==
  /\ ~Parsing /\ events # <<>>
  /\ stream' = Unwritten
  /\ written' = Len(defined)
  /\ events' = <<>>
  /\ UNCHANGED <<session, gen, defined, sampled, collectorVars>>

SequencePoint ==
  /\ ~Parsing /\ session # "closed"
  /\ gen < MaxGenerations \/ defined = <<>>
  /\ stream' = Unwritten \o <<EmptyBlock("SPBlock")>>
  /\ gen' = IF defined = <<>> THEN gen ELSE gen + 1
  /\ defined' = <<>>
  /\ written' = 0
  /\ events' = <<>>
  /\ UNCHANGED <<session, sampled, collectorVars>>

Stop ==
  /\ ~Parsing /\ session = "open"
  /\ session' = "stopped"
  /\ UNCHANGED <<gen, defined, written, events, sampled, stream, collectorVars>>

\* All methods, in some order.
Rundown ==
  /\ ~Parsing /\ session = "stopped"
  /\ session' = "rundown"
  /\ LET order == CHOOSE o \in [1 .. Cardinality(Methods) -> Methods] : Range(o) = Methods
     IN  events' = events \o [i \in DOMAIN order |-> MethodEvent(order[i])]
  /\ UNCHANGED <<gen, defined, written, sampled, stream, collectorVars>>

CloseStream ==
  /\ ~Parsing /\ session = "rundown"
  /\ session' = "closed"
  /\ stream' = Unwritten \o <<EmptyBlock("End")>>
  /\ written' = Len(defined)
  /\ events' = <<>>
  /\ UNCHANGED <<gen, defined, sampled, collectorVars>>

----------------------------------------------------------------------------
(* The collector.                                                          *)

IsBlock(type) == Parsing /\ Head(stream).type = type
Parsed == stream' = Tail(stream) /\ UNCHANGED runtimeVars

ParseStacks ==
  /\ IsBlock("StackBlock") /\ Parsed
  /\ table' = Define(table, Head(stream).first, Head(stream).stacks)
  /\ UNCHANGED <<seen, pending, tally, methods, finished, resolved>>

ParseSequencePoint ==
  /\ IsBlock("SPBlock") /\ Parsed
  /\ seen' = TRUE
  /\ UNCHANGED <<table, pending, tally, methods, finished, resolved>>

SamplesIn(batch) ==
  LET upto[n \in 0 .. Len(batch)] ==
        IF n = 0 THEN <<>>
        ELSE IF batch[n].type = "Sample" THEN Append(upto[n - 1], batch[n]) ELSE upto[n - 1]
  IN  upto[Len(batch)]

\* What a list of pending samples adds to the tally; their order does not matter.
Drain(st, samples) ==
  LET record(s, sum) ==
        IF s.failed \/ Get(table, s.id) = NoStack THEN RecordMissingStack(sum)
        ELSE RecordStack(sum, Get(table, s.id).frames)
  IN  FoldFunction(record, st, samples)

Resolutions(samples) ==
  {[frames |-> s.frames, gen |-> s.gen, with |-> Get(table, s.id)] :
     s \in {t \in Range(samples) : ~t.failed}}

\* One batch of events.  A sequence point passed before it is noticed after it,
\* and everything pending is resolved, the samples of this batch included.
ParseEvents ==
  /\ IsBlock("EventBlock") /\ Parsed
  /\ LET batch == Head(stream).events
         known == pending \o SamplesIn(batch)
     IN  /\ methods' = methods \cup
               UNION {Insert({}, e.method) : e \in {f \in Range(batch) : f.type = "Method"}}
         /\ \/ /\ seen
               /\ seen' = FALSE
               /\ tally' = Drain(tally, known)
               /\ resolved' = Resolutions(known)
               /\ pending' = <<>>
               /\ table' = Rotate(table)
            \/ /\ ~seen
               /\ pending' = known
               /\ UNCHANGED <<seen, tally, resolved, table>>
  /\ UNCHANGED finished

FinishCollecting ==
  /\ IsBlock("End") /\ Parsed
  /\ tally' = Drain(tally, pending)
  /\ resolved' = Resolutions(pending)
  /\ pending' = <<>>
  /\ finished' = TRUE
  /\ UNCHANGED <<table, seen, methods>>

Next ==
  \/ \E f \in Stacks, failed \in BOOLEAN : Sample(f, failed)
  \/ \E m \in Jitted : Jit(m)
  \/ Flush \/ SequencePoint \/ Stop \/ Rundown \/ CloseStream
  \/ ParseStacks \/ ParseSequencePoint \/ ParseEvents \/ FinishCollecting

Spec == Init /\ [][Next]_vars

----------------------------------------------------------------------------
(* Properties.                                                             *)

\* No sample whose stack was walked is lost for want of its stack, wherever the
\* blocks and the sequence points fall: of two generations, one has it ("the
\* two-generation table exists to stop that losing samples", tests/profile.rs).
NothingMissing == \A r \in resolved : r.with # NoStack

\* A sample is never resolved with a stack older than itself, and with a newer
\* one of the next generation at most.
NoOlderStack ==
  \A r \in resolved : r.with # NoStack => r.with.gen \in {r.gen, r.gen + 1}

\* The sample's own stack is the one it is resolved with: discarding stacks at
\* a sequence point keeps "a later stack [from answering] for an earlier id"
\* (collect).
OwnStack == \A r \in resolved : r.with # NoStack => r.with.frames = r.frames

\* Every sample read is in exactly one of four places: pending, without a
\* stack, with an empty one, or under its innermost frame.
SamplesCounted ==
  LET unparsed == SumFunction([b \in DOMAIN stream |-> Len(SamplesIn(stream[b].events))])
      read == sampled - (Len(SamplesIn(events)) + unparsed)
  IN  /\ tally.samples + Len(pending) = read
      /\ UsableSamples(tally) = SumFunctionOnSet(tally.self, Addresses)
      /\ finished => tally.samples = sampled

\* The profile that is shown adds up: rows and waiting threads share out the
\* usable samples, no method works longer than it is on the stack, and showing
\* the waiting threads leaves the other rows alone.
HotMethodsAddUp ==
  finished =>
    LET all == HotMethods(tally, methods, TRUE)
        busy == HotMethods(tally, methods, FALSE)
    IN  /\ all.waiting = 0 /\ all.working = UsableSamples(tally)
        /\ busy.working + busy.waiting = UsableSamples(tally)
        /\ \A row \in all.rows : row.self <= row.total
        /\ busy.rows = {row \in all.rows : row.name \notin WaitFrames}
=============================================================================
