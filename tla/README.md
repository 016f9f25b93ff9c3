# countercow: verification

countercow is a terminal dashboard for .NET processes. It attaches to a process
through its diagnostic socket, opens EventPipe sessions on it, and shows
counters, what the garbage collector does, and where CPU time goes. This
directory holds TLA+ models of it, the TLC runs that check them, and proofs
checked by TLAPS. Paths below are relative to the repository's crate
(`src/src/` in PROJECT.json).

## The system

| component | state it keeps | operations | what makes it correct |
|---|---|---|---|
| event loop (`ui/mod.rs` `event_loop`) | three optional `Session` handles (counters, investigation, profile), the `App` | each turn: draw, receive and drain the channel, apply a settled refresh rate, reconcile the investigation and the profile with the screen, look for an exit; then clean up | sessions match what the frame shows; none is lost or left open; leaving always ends |
| reader threads (`spawn_*_reader`) | the stream, a stop flag shared with the handle | parse an item, look at the flag, send; report the end | a silenced reader stays silent; the end is reported exactly when it is news |
| keyboard thread (`spawn_input_reader`) | a stop flag | poll, read, send | keys arrive in order, and never at the wrong screen |
| channel (crossbeam `bounded`) | at most `CHANNEL_CAPACITY` messages | send blocks when full, fails when the receiver is gone | nobody waits on it for ever |
| `App` (`app.rs`) | screen, status, wanted and live rate, profile phase, results | `handle_event`, `handle_key` | follows the keys, whatever messages are still under way |
| session control (`ipc/commands.rs`, `*/session.rs`) | none; the traced process keeps the sessions | start, stop: one connection per command, answered synchronously | every session started is stopped |
| runtime findings (`runtime/`) | a pending collection, the recent ones, an open suspension, an unattributed pause, tallies by type | decode a payload, `record_*`, `recent_collections`, `top_*`, `reset` | each collection listed once, each pause shown for the collection it belongs to, each tally what was recorded of its type |
| CPU profile (`profile/`) | pending samples, two generations of stacks, the method table, hot methods | `collect`, `resolve`, ranking | a sample is resolved with its own stack and its own method |
| nettrace parser (`nettrace/`) | stream position, metadata, stacks, previous header of a block | `next_events` | the rows that were written, or an error; an end that is not in order is told from one that is |
| IPC framing and discovery (`ipc/`) | none | encode, decode, `process_info` fallback, `discover` | one endpoint per live process, and never that of another |
| session loop, picker, signals (`ui/mod.rs`, `ui/picker.rs`, `ui/signals.rs`) | the chosen process, rate and theme carried over, the signal flag | pick, attach, detach, quit | the process attached to is the one chosen, at the rate the user last saw; the terminal is restored; a signal ends it, a second one kills |
| sample history (`app.rs`, `counters/`) | a bounded series per counter | record, pause, change the rate | the newest points, in order, with their times |
| rendering (`ui/*.rs`) | nothing of its own but the theme | draw | a chart can be read back: the reading it stands for, the time it spans |
| command line (`main.rs`) | none | `--pid`, `--name`, `ps`, `dump` | one process or an explanation |

How they interact: the main thread alone opens and closes sessions, and does so
synchronously, inside the loop that also receives the channel. Each session's
reader thread and the keyboard thread send on that one channel. The traced
process answers a stop only after it has written everything the session still
has to say, which the session's reader must be reading. The stop flag
(`Session::silence`) is the only state shared between a reader and the main
thread; messages do not say which session they come from.

The hard behaviours are therefore: a stop in flight while the channel fills; a
message that was sent, or about to be sent, when its session was replaced; keys
that move the App through several screens in one drain; starts and stops that
fail; a process that exits at any of these points; a signal. PROJECT.json lists
each at the line where it bites ("hazards"), with the properties that watch it.

## Modules

| module | models | state and actions |
|---|---|---|
| `DiagnosticServer` | the traced process, external, from how `ipc/commands.rs` relies on it | per session: unopened, open, stopping, closed; a backlog to write and a socket buffer. `Open` and `RequestStop` are called by the event loop; `Emit`, `FinishStop`, `AbandonSession`, `ProcessExits` are the process's own |
| `AppState` | `app.rs` and `handle_event`/`handle_key` of `ui/mod.rs` | operators from one App to the next, no variables |
| `EventLoop` | `ui/mod.rs` `run_dashboard` from its first frame on, the readers, the channel, composing the two above | `main` is the point the loop is at; one action per step that other threads can see between |
| `SessionLease` | nothing in particular: the promise the dashboard makes to the process | `Acquire`, `Release`, `StartLeaving` |
| `MCEventLoop` | | keys and traffic for the runs |
| `EventLoopProofs` | | theorems about `EventLoop` |
| `RuntimeState` | `runtime/state.rs` | operators from one state to the next |
| `Findings` | the decoding of allocation, exception and contention payloads (`runtime/events.rs`) and the tallies by type (`runtime/state.rs`); what a runtime writes into those payloads, external | operators from one state to the next |
| `Order` | what a sort leaves, and the order of names; used by `Discovery` and `Findings` | operators |
| `Investigation` | a runtime that collects garbage and whose threads allocate, throw and block, the stream that delivers its events out of order, the investigation that records them | the runtime's five reports and `Occur`, `WriteBlock`, `Open`, `Close`, `Record`, `Reset` |
| `MCInvestigation` | | occurrences, told as three versions of the event tell them |
| `InvestigationProofs` | | theorems about `Investigation` |
| `ProfileState` | `StackTable` of `nettrace/blocks.rs`, `profile/state.rs`, `profile/methods.rs` | operators from one state to the next |
| `Profile` | a runtime that samples and writes blocks; `next_events` and `collect` over them | the runtime's `Sample`, `Jit`, `Flush`, `SequencePoint`, `Stop`, `Rundown`, `CloseStream`; one action per kind of block, `ParseEvents` being a turn of `collect`'s loop |
| `MCProfile` | | stacks, addresses and methods for the runs |
| `ProfileProofs` | | theorems about `Profile` |
| `Wire` | `nettrace/reader.rs`, `fastserial.rs`, `event.rs` and the block loop of `blocks.rs`; what a runtime writes, external | operators on sequences of cells |
| `Metadata` | `nettrace/metadata.rs` and `payload.rs`: the two forms of field types, values read by them | operators |
| `Counters` | `counters/sample.rs`, `catalog.rs`, `session.rs`: a sample from an event, the rules of its presentation | operators |
| `CounterState` | the counters of `app.rs`: series, pausing, rates | operators from one App to the next |
| `Plot`, `Gradient` | `ui/graph.rs`, `ui/chart.rs` and the bars of `ui/panels.rs`; `ui/gradient.rs` | operators |
| `Dashboard` | what `ui/dashboard.rs` charts of an App | operators |
| `Readings` | composes the seven above: a counter's way from the runtime's poll to the chart | the runtime's `WritePoll`, `Finish`, `Exit`; the reader's `ReadPreamble`, `ReadObject`; the App's `Record`, `Pause`, `ChangeRate` |
| `MCReadings` | | events, polls and texts for the run |
| `Ipc` | `ipc/frame.rs`, `encode.rs`, `decode.rs`, `commands.rs`; the runtime's answers, external | operators on messages |
| `Discovery` | `ipc/discovery.rs`, `ui/picker.rs`, `resolve_target` of `main.rs` | operators |
| `Terminal` | `ui::run`, `session_loop`, `pick_process`, `run_picker`, `run_dashboard`, the keyboard threads, `ui/signals.rs`; composes `AppState`, `Discovery` and `Ipc` | `at` is the point the main thread is at; `ListProcesses`, `LookAt` a socket, `ScanEnds`, `Resolve`, `InitTerminal`, `Listen`, `Identify`, `Picker*`, `Attach`, `Open`, `Turn`, `LeaveDashboard`, `Restore`; the machine's `Arrive`, `End`; the user's `Type`, `HangUp`, `Signal`; `KeyboardPolls`, `KeyboardReads` of each thread |
| `MCTerminal` | | machines, processes and command lines for the run |
| `IpcProofs` | | theorems about `Ipc` |
| `TerminalProofs` | | theorems about `Terminal` and `Discovery` |
| `WireProofs` | | theorems about `Wire`, and what the polls of `Readings` are on it |
| `ReadingsProofs` | | theorems about `Readings` |
| `FoldFacts` | | induction over numbers and finite sets, what it says of folds and sums, what is in a sequence, and sorting by an order; used by the other proofs |

Correspondence, in the places where it is not one to one:

- A reader's `stop.load(..) || sender.send(..)` is two actions, `ReaderChecks`
  and `ReaderSends`; the event loop may set the flag between them. A profile
  reader does not look at the flag at all.
- A message carries the session it came from (`from`) so that properties can
  speak of it. `HandleEvent` uses it only to name whose data is shown; no
  decision of the code depends on it, and none in the model does.
- A stop is a call (`CallStop`: take the handle, set the flag, send the
  request) and a return (`StopSucceeds`, `StopFails`). Between them only other
  threads and the process run.
- The counter session is opened before the first frame (`run_dashboard`), so
  `Init` has it open.
- Two clocks matter: whether the wanted rate has stood still for
  `INTERVAL_SETTLE`, and whether the profile's window is up. Each is a flag that
  an action of its own sets (`RateSettles`, `WindowPasses`).
- Rates are counted in tenths of a second, the step of the keys.
- In `RuntimeState` a pause is kept as the interval it was measured between, not
  as its length, so that it is known which suspension it measures. The order of
  events in `Investigation` is that of the repository's own capture,
  `tests/fixtures/runtime-net10-loaded.nettrace`: suspend, start, end, heap
  statistics, restart in time; grouped by thread in a block; delivered in the
  order of the block (`parse_event_rows` does not sort).
- In `Profile` a stack's definition carries the generation the runtime defined
  it in, and a sample the stack that was meant. Neither is seen by the
  collector's decisions. The runtime writes a stack block ahead of the events
  that refer to it and starts ids again after a sequence point, as in every
  capture under `tests/fixtures`; `profile/run.rs:55` says stack blocks lag, which
  no capture shows. The stream carries one writing's blocks at a time: the
  runtime cannot tell how far behind the collector is.
- `Wire` and `Ipc` count in cells. A scalar of fixed width, a text and an id take
  one cell each; a varuint takes one per digit, of 4 bits where the code has 7,
  and its words have 7 and 11 bits where the code has 32 and 64, so that an
  encoding can hold more than its word in either. Padding, sizes, truncation and
  the order of fields are as in the code; the alignment counts cells.
- In `Findings` a cell is two bytes, a character of the text in a payload.
- A stream that is read runs from the first byte the session has: the preamble,
  the trace object, and then a block at a time. `Exit` cuts it after any cell of
  the object the reader is about to read; a cut further on is the same cut when
  that object is the next.
- A session numbers its kinds of event afresh, and in `Readings` always
  differently from the session before, so that metadata that outlived a session
  would be noticed.
- Values are naturals and one that is not finite; a fraction is a pair of
  naturals. What the code rounds in floating point is rounded exactly.
- A chart's picture has its label: the scale is written over the top left cells
  of the plot where it is shorter than the plot is wide, and what was drawn there
  is hidden (`chart.rs:79`). `LabelOf` says how long it is; the properties of a
  chart say what can be seen (`Beneath`). `Width` and `Height` are constants.
- `discover` looks at one socket after another, in the directory's order, each
  `LookAt` reading the start of the process that has the pid by then
  (`discovery.rs:228`); between two of them anything can end, and a pid can be
  taken over. `fates` is what it has made of each. Two things are as they are at
  one moment: the list of processes, which `sysinfo` makes before
  (`ListProcesses`), and the times of writing, which nothing changes. The key of
  a process is its start, as on Linux.
- `poll` and `read` of the terminal are two steps of each thread that uses it,
  since two threads may (the keyboard thread of a dashboard that is over, and
  the picker). `read` blocks if the other has been quicker.
- In `Terminal` a request of the process is one step, its answer that of the
  processes there are then; sessions other than the counters' and the channel's
  capacity are `EventLoop`'s subject.

## Runs

Every passing run starts from the state the program starts in. `Faults` says
what may go wrong in a run, and happens at any moment it can.

| run | question | bounds | distinct states |
|---|---|---|---|
| `rates` | is the displayed rate the live one, is a superseded session silent, is a rate asked for reached, is a session ever lost, does quitting end | 2 keys of `-`, `+`, `i`, `c`, `q`; the investigation and the profile write 1 item each; channel of 1; stops refused, streams cut, process exits | 668 thousand |
| `screens` | do sessions follow the screen, do profiles conclude, does leaving end, is `SessionLease` implemented | 3 keys of `i`, `c`; the counters and the profile write 1 item each; channel of 2; starts refused, drawing fails, a signal | 543 thousand |
| `investigation` | is the list of collections right, is a pause shown once, does the total fit in the time there was, are the tallies what happened | 3 collections or findings together, 2 of them findings, of 6 kinds; 2 collections kept; screen opened twice; 32-bit process | 4.0 million |
| `profile` | is a sample's stack found, never an older one, is each sample counted once, do the hot methods add up | 4 samples, 2 stacks, 3 generations of ids, 3 methods | 5 million |
| `readings` | are the samples the runtime's, is an end told from a break, is the history the latest readings, does a chart say what was read | 3 polls in 2 blocks at most, 7 rows at most; 2 sessions, 2 rates, the pause used twice; history of 3; charts of 9 by 4 cells in three kinds of plot; a cut after any cell | 41 thousand |
| `terminal` | is the terminal restored, is discovery right while processes come and go, is the process attached to the one chosen, at the rate shown, does a signal end it | 3 machines of 2 processes with 5 or 6 sockets, 2 arrivals on reused pids, one of them another user's, at any point of the scan too; 5 command lines; up to 4 keys, 2 signals, 2 deaths, in 4 mixes | 1.1 million |
| `stop_answered` | violation: a full channel and a stop in flight wait for each other | channel of 3, 4 items | |
| `profile_session_ends` | violation: the result of a cancelled profile ends the next one's window | 3 times `c` | |
| `no_stacking` | violation: after a failed restart, the next rate change opens a second session on top | 2 keys, stops refused | |
| `pause_is_own` | violation: a pause is shown for the collection after its own | 2 collections | |
| `history_as_described` | violation: neither do graphs restart from empty with the rate nor is their history continuous after a pause | as `readings` | |
| `own_stack` | violation: samples from before a sequence point are resolved with stacks from after it | as `profile` | |

Why the bounds are enough: each key opens at most one session, so `MaxSessions`
is one more than `MaxKeys` and never in the way (`EventLoopAssumption`). Two
keys give a rate change during a rate change; three give enter, leave and
re-enter of a screen within one drain or across turns. One item in a socket of
one makes a reader that has taken an item, one that has not, and a process that
is blocked writing. Three collections with two kept make the list overflow, and
two visits to the screen make a suspension of one pair with a restart of the
other. Three generations are one more than the stack table keeps, and two stacks
make an id overwritten next to one that is not. In `readings` two sessions
suffice for ids that change their meaning and two rates for a span that neither
count of readings tells; a history of three is filled, and
pushed out of by a poll that reports a counter twice; a block of three rows on two threads has every
flag of a compressed header both set and not set. The charts are seven cells
wide and two high inside, which with dots is fourteen columns of eight steps,
more columns than readings; the label of the processor's scale fits and hides
cells there, that of the heap's is too long and is left out. `VarUintIsExact`, `PaletteIsNearest` and `BarsCompare` are about
pure functions: they are evaluated in the first state over every number of three
digits, over 400 colours, and over every three sizes out of six. In `terminal`
the arrivals reuse the pids of processes that may have ended at any point between
being listed and attached to, or while their sockets are looked at, one of them
for a process of another user; two keys choose and leave a dashboard, four do so and
choose again, with the old keyboard thread still there. The channels hold one message and
two, so that they fill.

`Investigation`, `Profile`, `Readings` and `Terminal` are checked without
deadlock detection: the runtime stops after `MaxGcs` collections or the last
poll, a profile is over when it has been collected, and countercow when it has
ended. `EventLoop` is checked with it, except in
`Stop.cfg`, where the deadlock is the finding; its last state, `Over`, stutters.

### Fairness

`Fairness` of `EventLoop` is weak fairness of the main thread's step, of each
reader thread's step, of the process finishing a stop and writing what a
stopping session still has (and abandoning one whose reader hung up), and of the
two clocks. These are an OS that schedules runnable threads, a runtime that
answers, and time passing. Nothing obliges a user, a signal or a fault to
happen, nor an open session to write. A blocked send is not enabled, so weak
fairness gives a sender no right to a full channel.

`LeavingEnds`, `RateReached` and `ProfileConcludes` hold in `rates` and `screens`
under these assumptions because of what is written there: the channel does fill,
but a session has too little to say to fill its socket and its reader's hands as
well, so its stop is answered. With more they do not hold: that is what
`stop_answered` shows.

`Terminal` assumes weak fairness of the main thread's moves from one place to the
next (`Moving`): wherever it is but in front of a picker that nobody types to, a
read with nothing to read, or a dashboard with nothing to do, it goes on. The
code's waits are all bounded there (`poll` with a timeout, `recv_timeout`), and a
request is answered or fails. Keyboard threads, processes and the user are
obliged to nothing, which is why `SignalEndsIt` must except the picker's read.

### Disagreements with the code's own words

- A stop is made on the thread that receives, while `stop_tracing` says to make
  it on another (`ipc/commands.rs:228`): `stop_answered`.
- `ProfileDone` does not say which profile it is the result of; one that arrives
  late marks the next profile done and leaves its session running past its
  window (`ui/mod.rs:391`): `profile_session_ends`.
- "stop there rather than stacking a second on top" (`ui/mod.rs:297`) holds for
  one attempt; the handle is gone and the next rate change stacks:
  `no_stacking`.
- "Changing the refresh rate reopens the counter session, so the graphs restart
  from empty", says the help (`ui/dashboard.rs:443`); the history is kept, readings
  of both rates in it (`app.rs:262`). "So the history is continuous when you
  unpause rather than showing a misleading gap", says `App::record` (`app.rs:199`);
  what comes in while paused is not recorded, and the gap is there:
  `history_as_described`, whose trace refutes both at once. `HistoryIsLatest` says
  what the code does instead.
- "Wall-clock pause" of a collection (`runtime/state.rs:27`) is the pause of the
  collection before it, since the runtime restarts after the collection's end
  has already been recorded: `pause_is_own`.
- "Keeping one generation back, and preferring the newer definition, gets both
  right" (`nettrace/blocks.rs:51`): the flag of a sequence point is looked at
  after the stacks that follow it have been read, so the newer definition
  answers for older samples (`profile/run.rs:83`): `own_stack`.

## Proofs

`EventLoopProofs` proves, for every capacity, every number of sessions and keys,
every traffic and every set of faults:

- `TypeCorrect`: `TypeOK`, the bound on the channel included;
- `NothingIsLeftOpen`: an opened session is held or silenced, and once the
  dashboard is left none is open unless its stop request failed;
- `FramesShowSessions`: at every draw the sessions are the ones the screen shows;
- `SilencedStaysSilent`: a silenced reader that has not committed never does;
- `ImplementsLease`: every behaviour is one of `SessionLease` (safety part).

They rest on `Inductive`, `Spec => []IInv`. None of the properties is inductive
by itself: that a frame matches its sessions depends on what each earlier point
of the turn established, and on the fact that no message received at those
points can change it. `IInv` therefore adds: unopened sessions have left no
trace (`FreshUntouched`), a held session is live and is held for what it was
opened for (`HeldIsLive`), one let go of is closed unless its stop failed or is
in flight (`LetGoIsClosed`), where a stop may be in flight and what clean-up has
let go of so far (`MainProgress`), and what reconciliation has established at
each point of the turn (`Reconciled`). The proof has one lemma per group of
actions: starting, stopping and returning from a stop; the readers, the process
and the outside world, which leave what the loop knows alone; and the loop's own
steps. What the operators on the App preserve is stated separately (`Follows`),
so that no step looks inside a key or a message.

The assumptions are `AppAssumption`, `ServerAssumption` and
`EventLoopAssumption`; TLC evaluates them in every run of `MCEventLoop`.

`InvestigationProofs` proves, for every `MaxRecent`, every number of collections,
findings and sessions, and whatever the findings are:

- `TypeCorrect`: `TypeOK`, the bound on the list of collections included;
- `LatestAreListed`: the collections on screen are the latest to have started, in
  order and without a gap, and none is dropped before the list is full;
- `PausesAttributedOnce`: no pause is shown twice, nor held once shown;
- `PausesFitTheTime`: the pauses added up fit the time since the first suspension.

They rest on `Inductive` too. What is shown does not say by itself that the next
pause will be a new one: that depends on what is still on its way. `IInv` adds
`Delivery`: suspensions and restarts all come from one thread, no block puts them
out of their order (`InOrder`, `Ahead`, `Quiet`), and each that is still to be
recorded is later than everything the state remembers and not in the future
(`Coming`, `After`); and `Fits`: the pauses so far end before the suspension that
is open. The first half of the proof is about the operators alone: each of the
five kinds of event, recorded in any state that is `Consistent`, leaves it so and
remembers nothing later than itself (`StaysAfter`). The second half says how each
step moves the events along. The order of the other events is not used, so the
theorems hold as well of a runtime that starts, ends and measures collections on
several threads.

- `FindingsTold`: what the screen says of a type is what happened to it since the
  last reset (`FindingsAreTold`).

It rests on `FindingsTallied`, whose invariant `Tallied` says of every tally what
it is of the occurrences told: a site for each name told, its bytes the sum of
the amounts told with that name, the total the sum over the sites, the first
message of an exception that of the earliest. One lemma for each kind of
occurrence keeps it (`AllocationTold`, `ExceptionTold`, `ContentionTold`). They
need that a decoder reads back what a runtime wrote (`AllocationReadsBack`,
`ExceptionReadsBack`), for names and messages of any length and either pointer
size, and what one occurrence more does to the places of each name
(`PlacesGrow`, `NamesGrow`, `AmountGrows`). The order of the screen then follows
from the facts about sorting (`TopFalls`), and the shares from the sums (`SharesFit`): each
is rounded down, so together they do not exceed the whole.

The assumptions are `RecentAssumption`, `PointerAssumption`, `BoundsAssumption`
and `OccurrencesAssumption` (what a runtime has to tell has a type, a name without
NUL and an amount), evaluated in the runs of `MCInvestigation`.

`ProfileProofs` proves, for any samples, stacks, methods and addresses, however
the runtime divides them into blocks, and any number of sequence points:

- `ProfileTypeCorrect`: `TypeOK`;
- `ProfileLosesNoStack`: a sample that is resolved finds a stack (`NothingMissing`);
- `ProfileResolvesNoOlderStack`: never one of a generation before its own, or
  later than the next (`NoOlderStack`; that it may be the next is `own_stack`);
- `ProfileCountsSamples`: each sample taken is counted once (`SamplesCounted`);
- `ProfileAddsUp`: rows and waiting threads share out the usable samples, no
  method works longer than it is on the stack, and leaving the waiting threads
  out changes no other row (`HotMethodsAddUp`).

Three invariants, each on top of the one before. `TypeInv` adds to the types that
samples taken are proper and that the tally adds up. `TableInv` says where each
stack is while blocks are on their way: the table the collector will have once
the stream has been read (`Effective`) finds every stack written in this
generation (`WrittenFound`, and in the younger half when the table is about to
turn over, `WrittenFresh`), every stack a block in the stream refers to
(`StreamFound`) and every one that is pending, at most a generation late
(`PendingFound`); `InOrder` and `StartsAgain` say what the order of blocks is and
that ids start again at a sequence point. Without them two generations would not
be seen to suffice: that a pending sample is resolved before its stack is
overwritten depends on what has yet to be read. `CountInv` adds where each sample
is (`Accounted`: counted, pending, in hand or in the stream) and that nothing is
left at the end (`Ended`). The assumptions are `ProfileAssumption` and
`CollectAssumption`.

`IpcProofs` proves, for every list of providers and processes of any description:

- `InfoIsTheProcess`: a process that says who it is is ready, and what is read
  from its answer is its own pid and entry assembly, in each form of the answer
  and through the fallbacks from one form to the next (`process_info`);
- `SessionIsAsAsked`: a session that starts does so on a process that is ready,
  at the rate asked for, and its stream begins at its first byte.

`Ipc` has no steps: these are facts about operators. Their lemmas say that a
message, a list of fields and the configuration of a session are read back as
they were written (`MessageReadsBack`, `FieldsReadBack`, `RateReadsBack`), the
latter two by induction on the number of fields and providers. The assumption is
`IpcAssumption`, and that a process's description fits a message (`IsProcess`), as
those of the system do.

`TerminalProofs` proves, for any machines, command lines, keys and signals:

- `TerminalTypeCorrect`: `TypeOK`;
- `TerminalIsRestored`: `TerminalRestored`;
- `DiscoveryFindsRight`: `DiscoveryIsRight`, for any sockets and however processes
  come and go while they are listed and looked at: a process of ours that was
  there all along is listed once, under its own socket; what else is listed is the
  socket of a process that was there at some point of the scan, or the entry of
  one that is gone; nobody else's process is, unless it took over the pid of one
  of ours that was;
- `DashboardIsAsAsked`: the dashboard that opens is of the process chosen, not of
  a later one with its pid, with the name that process gives itself, at the rate
  shown last (`AttachedAsAsked`).

A first part is about `Discovery` alone: what the choice between the sockets of
one pid leaves (`UsableIs`), that what is listed is right and in order
(`ListedIsRight`), and that listed and passed-over sockets add
up to those there were (`ListedAddsUp`); all for whatever fate each socket met,
as long as it was the fate some process that was there would give it (`Taken`).
The inductive invariant is `Inv` (`TerminalInvariant`): processes are told apart,
one per pid at a time (`MachineInv`); the fates so far were taken from processes
there have been since the scan began, and no socket is passed over (`ScanInv`); every list and choice has the pid of its socket
(`ListInv`); the rate shown is the one in force, or wanted by the dashboard that is
open (`RateInv`); a key is lost only to a keyboard thread that then ends
(`KeyInv`); whose the terminal is at each point (`PlaceInv`); and which signals
have a handler by then (`SignalInv`). `TerminalRestored` needs the last two
together, `AttachedAsAsked` all but them. TLC checked `Inv` over the states of
`terminal` before it was proved. The assumption is `TerminalAssumption`: on one
machine a pid and a start time make a process, at most one process has a pid at
a time, files of the directory have names of their own, and their times of
writing are those of the order they were written in, ties being settled by their
place in the directory, as the stable sort does (`ipc/discovery.rs:244`).

`WireProofs` proves of the format, for whatever a runtime writes:

- `BlocksReadBack`: a block of any rows whose numbers fit their words, compressed
  or not, is parsed into those rows and no others (`IsRow`, `AreRows`);
- `ObjectsReadBack`: an object of any type but the trace's, at any place in the
  stream, is read back whatever comes after it; where fewer of its cells have come
  than it has, it is malformed (`Agree`).

`Wire` has no steps: these are facts about operators. A varuint of up to three
digits is read back and leaves the cursor after it (`VarUintReadsBack`), and the
sum of eight flags is taken apart again (`FlagsSay`). A compressed header is
then read field by field, each lemma saying what the header is once the fields up
to one are there, and ends as the one that was written after the row before
(`HeaderReadsBack`). Rows follow by induction on their number (`NextRowReadsBack`,
`ParsedRowsReadBack`).

From there `WireProofs` goes on to what the runtime of `Readings` writes. A poll is
some objects, one after another, each taking its reader from a position, a store of
metadata and the samples sent to the next (`IsStage`, `Leads`, `IsPlan`): a block of
metadata makes every kind of event in it known (`RecordsAreKnown`), after that a
block of events is read as the samples its rows stand for (`RowsAreTold`), and a
sequence point is skipped; whatever the poll, and whatever the reader knew, there
is such a plan (`PollIsPlanned`). The assumptions are `WordsAssumption` and
`StreamAssumption`: the texts of the format are among the words, kinds of event
and rows are few enough for ids and blocks, numbers fit their words; and what a
record or a payload is to `metadata.rs` and `payload.rs` is taken from it, for each
kind of event under each id (`IsRecord`) and each row of each poll (`IsReport`):
these decode by recursion through nested types. TLC evaluates it for the events
and polls of `readings`.

`ReadingsProofs` proves, for any events, polls, texts, rates and capacity of the
history, however a stream ends:

- `TypesAreOK`, `SamplesAreRead` and `EndsAreTold`: `TypeOK`,
  `SamplesAreTheRuntimes` and `EndIsTold`;
- `HistoriesAreLatest`: `HistoryIsLatest`;
- `PanelsFollow`: `PanelsFollowProviders`;
- `SpansAreTimes`: `SpanIsTime`;
- `ChartsAgree`: `ChartAgreesWithPanel`;
- `ChartsReadBack`, `NothingIsClipped` and `StacksAreTheirBands`: `ChartReadsBack`,
  `NothingClipped` and `StackIsItsBands`;
- `VarUintsAreExact`, `PalettesNearest` and `BarsAreCompared`: `VarUintIsExact`,
  `PaletteIsNearest` and `BarsCompare`, from lemmas that say more than the
  properties evaluate.

The inductive invariant is `Inv` (`StreamIsRead`), in four parts.

`SInv` is about the stream. Until the first read the wire holds the opening, or as
much of it as there will be (`Fresh`). From then on there is a plan with the reader
some pieces into it (`Ahead`): its position, its metadata and the samples it has
sent are the plan's at that piece, those reported are the plan's at its end, and
the wire holds the pieces left, each where it is to come, and then the end of the
stream if the process stopped the session (`IsWhole`); or, once the process is
gone, no more than some of the next piece (`IsCut`). A state alone does not say
what a half-read stream means, the plan does; that it is a plan lets each read be
settled without another look at cells. A poll starts a plan where the one before
it has been read to its end (`CaughtUp`); to read is to go one piece on
(`StageGoesThrough`), to end (`EndGoesOn`) or, on a piece that is not all there, to
fail (`BrokenOffGoesOn`); to exit is to cut (`ExitGoesOn`). That a reader ends only
when all was sent, and fails only when the process is gone, is `Told`. A plan is a
value no state holds, so TLC does not evaluate `SInv`, only what follows from it.

`NInv` says that readings are numbers, those in the channel and those kept: the
samples sent are, as those the runtime reported are. `PInv` says that every
provider heard from, in the channel or reported is that of a counter the runtime
was polled for, which is the half of `PanelsFollow` that has no panel of ASP.NET
shown of another process.

`IInv` (`Invariant`) is about what is kept and drawn: each series is what its log
says (`SeriesAreLogged`), every provider of a sample sent has been heard from, or is
in the channel (`ProvidersHeard`), and the frame is of the series and providers
there are (`IsDrawnOf`), a message and the frame after it being one turn of the
loop. Of what a block is parsed into it needs little: that the samples taken are a
sequence (`SamplesAreASequence`) and an object takes a number of cells
(`NextObjectIsObject`).

The rest is about drawing, for a chart of any size with room inside its border. What of a history falls
into each column, the newest in the last (`ChartingIsOfLog`, `AlignedAt`); that
the scale is above each finite reading (`ScaleIsAbove`, by induction on the set of
readings, so for any number of them); that a height rounded is within a step of
the exact one, never 0 for a reading that is not, and grows with the reading
(`HeightOfReading`, `HeightGrows`); and that the cells of a column, in eighths or
in dots, are lit up to that height and no further (`BlocksAreSolid`,
`DotsAreSolid`). The label then hides cells of the top row only, from the left,
never the newest column (`LabelFits`), so that a column is seen up to where it is
lit or up to the label (`SeenUpTo`, `LitBeneath`). A stacked chart is the same with the heights of its columns: the
fold over a column's bands is unrolled (`TopsOfThree`), its last top is the sum of
the bands up to the top of the chart (`ColumnIsItsBands`), and the first band that
reaches a height drawn in the column has a reading above zero (`OwnerHasSome`): the
bands below it end lower. Readings that are not finite are included.

Of the pure functions: `VarUintIsExact` is about every number that the digits hold.
The palette's nearest entry is found for every colour there is (`DrawnIsNearest`),
not only those tried: a cube nearest in each channel is nearest of all
(`CubeIsNearest`), and of the greys the one nearest the average is, since by how
much one grey is further off than another is a product (`GreyIsNearest`). That the
colours tried are colours is `TriedAreColours`, over the ramps and their mixtures.
Slots tile any width shared by any number of bars, each a column wide at least
(`SlotsTile`, `SlotIsWide`), and what is filled of a bar of any height is nothing of
nothing, all of the largest, and grows with the size (`BarFillIs`, `BarFillGrows`).

Sizes of charts, readings, scales and lengths of a history are any. The
assumptions are
`ReadingsAssumption`, `StreamAssumption`, `HistoryAssumption` and
`WordsAssumption`.

`FoldFacts` holds what these proofs share. Induction is stated for
a set of what has the property (`NumbersByInduction`, `SubsetsByInduction`), since
the library's theorems take an operator, which the provers cannot instantiate; it
is proved from the well-foundedness of the naturals. From it: a recursion along
numbers and a fold over a finite set have a value (`UptoExists`, `FoldExists`), and
a sum may be taken in any order, by parts, and compared term by term. And
sorting by an order that decides lists every element once, each after those
before it (`SortedIsSorted`), and names are in such an order.

Only model-checked: the liveness properties (`RateReached`, `ProfileConcludes`,
`LeavingEnds`, `SignalEndsIt`) and the liveness part of `SessionLease`, since
fairness and ENABLED are out of the prover's reach; and `GcColumnsArePolls`, which
holds of polls that report each generation once, as those of the run do. That a
record and a payload are decoded to what was encoded is evaluated by TLC for the
events of the run, in `StreamAssumption`, and not proved for every type: the
prover does not reach recursion through nested types. No module uses a RECURSIVE
operator: recursion is by folds and recursive functions.

## Not modelled

- Layout, wording and the digits of numbers (of a chart's label the length is
  modelled, since it hides what is under it); the number panels, the captions of the
  generations, and the screens of the investigation and of the profile, which
  draw what `Investigation` and `Profile` check. What is drawn depends on the
  layout library for its place only.
- `dump` (`main.rs:87`), one session in one thread that ends with the process,
  and the parsing of arguments.
- The decoding of the collections' own events (`runtime/events.rs`): fixed
  layouts without a text, as the heap statistics.
- The requests of the investigation and the profile: those of the counters with
  another provider and other flags.
- Negative sizes (`nettrace/blocks.rs:240`): cells are naturals.
- The theme, which is handed from one dashboard to the next like the rate.

## What was noticed besides

Behaviour met while modelling that no run's property claims otherwise; each is
in the model as the code has it.

- A picker whose key has been taken by the keyboard thread of an earlier
  dashboard waits in `read`, and notices a signal with the next key only;
  `ui/mod.rs:149` says within a frame. `SignalEndsIt` excepts it.
- A signal between `ratatui::init` and `signals::listen` (`ui/mod.rs:71`) kills
  with the terminal raw. A second signal kills only if it is of the same kind as
  the first (`signals.rs:29`). `TerminalRestored` excepts the former and the
  second of a kind.
- A failure of `process_info` or of the counter session after a choice in the
  picker ends countercow rather than coming back to the picker (`ui/mod.rs:102`).
- `dedup_by_key` (`ipc/discovery.rs:249`) removes neighbours only: a process that
  ends while its sockets are looked at can be listed twice.
- The chart of collections takes its scale from the oldest readings of a series
  and its bands from the newest (`ui/dashboard.rs:360`, `381`), and stacks
  readings by position: after a pause in the middle of a poll, counts of
  different polls are on top of each other.

## Plan

What would come next, in order of what could hurt most:

1. Records and payloads of every type: `IsRecord` and `IsReport` from the types
   alone, as `Ipc` has it for messages, in place of an assumption on each event.
2. `EventLoop` again: messages that carry no session, so that an obituary or a
   sample arrives after a restart; a property would need the code to tell them
   apart.
3. The decoding of the collections' own events, over the versions of the
   captures.
