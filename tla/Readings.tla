-------------------------------- MODULE Readings --------------------------------
(***************************************************************************)
(* A counter's way from the runtime to the chart.  The runtime (external)  *)
(* polls its counters and writes them to the session's stream; the reader  *)
(* thread parses an object at a time (NettraceParser::next_events,         *)
(* session::run) and sends the samples; the App records them and the charts*)
(* are drawn from what it kept.  The user pauses and changes the rate,     *)
(* which opens a session of another rate; the process ends, its stream with*)
(* it, in order or in the middle of a cell.                                *)
(*                                                                         *)
(* What threads and the event loop do to each other is EventLoop's subject:*)
(* here the channel is a queue that is never full, and a session is        *)
(* replaced in one step.                                                   *)
(***************************************************************************)
EXTENDS Dashboard

CONSTANTS
  Events,        \* the kinds of event: their metadata and the form it is written in
  Polls,         \* what each poll may write: [compressed, rows] per block of events
  Intervals,     \* the rates, in seconds
  Width, Height, \* of a chart, its border included
  MaxSessions,   \* bound of the model
  MaxToggles     \* bound of the model: of the pause

ASSUME ReadingsAssumption ==
  /\ Intervals \subseteq Nat \ {0} /\ Intervals # {}
  /\ Width \in Nat /\ Width > 2 /\ Height \in Nat /\ Height > 2
  /\ MaxToggles \in Nat /\ MaxSessions \in Nat \ {0}
  /\ \A poll \in UNION Range(Polls) : \A b \in DOMAIN poll : \A i \in DOMAIN poll[b].rows :
       poll[b].rows[i].event \in DOMAIN Events

VARIABLES
  session,    \* its number, and "streaming", "stopped" (in order) or "exited"
  announced,  \* the kinds of event whose metadata the session has written
  wire,       \* what the runtime has written and the reader not read
  position,   \* how far into the stream the reader is
  store,      \* the reader's metadata
  result,     \* of the reader: "Running", "Ended" or "Failed"
  channel,    \* samples, and an end with or without an error
  app,
  now,
  polls,      \* written so far
  reported,   \* the samples the session's rows stand for, in the order written
  delivered,  \* the samples its reader sent
  kept,       \* by counter, the readings recorded while not paused, each with its poll
  toggles,    \* of the pause, so far
  frame       \* what was last drawn, in each style of plot

stream == <<session, announced, wire, position>>
reader == <<store, result, channel, delivered>>
vars == <<stream, reader, app, now, polls, reported, kept, toggles, frame>>

Colouring == INSTANCE Gradient

----------------------------------------------------------------------------
(* The runtime.                                                            *)

\* What every session's stream begins with.
Opening == Preamble \o WrittenTrace

\* A session numbers the kinds of event afresh: an id means another kind in the next.
IdOf(event) == 1 + ((event + session.number) % Len(Events))

MetadataOf(event, id) ==
  [metadata_id |-> id, provider_name |-> Events[event].provider, event_id |-> event,
   event_name |-> Events[event].name, fields |-> Events[event].fields]
RecordCells(event, id) == WrittenRecord(MetadataOf(event, id), Events[event].tagged)

Row(id, payload, row) ==
  [header |-> [metadata_id |-> id, sequence_number |-> row.sequence,
               capture_thread_id |-> row.thread, processor_number |-> 0,
               thread_id |-> row.thread, stack_id |-> 0, timestamp |-> row.timestamp,
               activity_id |-> 0, related_activity_id |-> 0, is_sorted |-> TRUE,
               payload_size |-> Len(payload)],
   payload |-> payload]

EventRows(rows) == [i \in DOMAIN rows |-> Row(IdOf(rows[i].event), rows[i].payload, rows[i])]
MetadataRows(events) ==
  [i \in DOMAIN events |->
     Row(0, RecordCells(events[i], IdOf(events[i])),
         [thread |-> 0, sequence |-> 0, timestamp |-> 0])]

\* Objects one after another, each written where the one before it ended.
WrittenFrom(start, objects) ==
  FoldLeft(LAMBDA cells, o : cells \o WrittenObject(o.type, o.content, start + Len(cells)),
           <<>>, objects)

\* The kinds of event in a poll that are new to the session, and the poll's blocks.
News(poll) ==
  SetToSeq((UNION {{row.event : row \in Range(poll[b].rows)} : b \in DOMAIN poll}) \ announced)

PollObjects(poll) ==
  (IF News(poll) = <<>> THEN <<>>
   ELSE <<[type |-> "MetadataBlock", content |-> WrittenBlock(MetadataRows(News(poll)), TRUE)]>>)
  \o [b \in DOMAIN poll |->
        [type |-> "EventBlock",
         content |-> WrittenBlock(EventRows(poll[b].rows), poll[b].compressed)]]
  \o <<[type |-> "SPBlock", content |-> <<0, 0, 0>>]>>

\* The sample a row stands for, if it is a counter's, and those of a block, in order.
SampleOf(row) ==
  IF row.counter = NoSample THEN NoSample ELSE [row.counter EXCEPT !.timestamp = row.timestamp]
MeantBy(rows) ==
  FoldLeft(LAMBDA samples, row :
             IF SampleOf(row) = NoSample THEN samples ELSE Append(samples, SampleOf(row)),
           <<>>, rows)
Meant(poll) == FlattenSeq([b \in DOMAIN poll |-> MeantBy(poll[b].rows)])

\* A record is read back with its id, and a row whose metadata is known as its sample.
RecordRead(event, id) == ParseMetadata(RecordCells(event, id))
IsRecord(event, id) ==
  /\ RecordCells(event, id) \in Seq(Nat) /\ Len(RecordCells(event, id)) < Word32
  /\ RecordRead(event, id).ok /\ RecordRead(event, id).metadata_id = id
IsReport(row, id) ==
  /\ row.sequence \in 0 .. Word32 - 1
  /\ row.thread \in 0 .. Word64 - 1 /\ row.timestamp \in 0 .. Word64 - 1
  /\ row.payload \in Seq(Nat) /\ Len(row.payload) < Word32
  /\ row.counter # NoSample => row.counter.value \in Nat
  /\ Extract(RecordRead(row.event, id), RawEvent(Row(id, row.payload, row).header, row.payload))
       = [ok |-> TRUE, sample |-> SampleOf(row)]

\* Bounds of the model: the kinds of event are fewer than the ids a cell holds, and
\* the rows fewer than fill a block.
ASSUME StreamAssumption ==
  /\ {"Nettrace", "!FastSerialization.1", "Trace", "EventBlock", "MetadataBlock", "SPBlock"}
       \subseteq Range(Words)
  /\ Events \in Seq(Range(Events)) /\ Len(Events) \in 1 .. HighBit - 1
  /\ \A event, id \in DOMAIN Events : IsRecord(event, id)
  /\ Polls \in Seq(Range(Polls))
  /\ \A poll \in UNION Range(Polls) :
       /\ poll \in Seq(Range(poll))
       /\ \A b \in DOMAIN poll :
            /\ poll[b].compressed \in BOOLEAN
            /\ poll[b].rows \in Seq(Range(poll[b].rows)) /\ Len(poll[b].rows) <= MaxRows
            /\ \A row \in Range(poll[b].rows), id \in DOMAIN Events : IsReport(row, id)

\* Bound of the model: a poll comes when the one before it has been recorded.
WritePoll ==
  /\ polls < Len(Polls)
  /\ session.state = "streaming" /\ wire = <<>> /\ channel = <<>> /\ position > 0
  /\ \E poll \in Polls[polls + 1] :
       /\ wire' = WrittenFrom(position, PollObjects(poll))
       /\ announced' = announced \cup Range(News(poll))
       /\ reported' = reported \o Meant(poll)
  /\ polls' = polls + 1
  /\ now' = now + app.interval
  /\ UNCHANGED <<session, position, reader, app, kept, toggles, frame>>

\* The process ends the session itself.  Bound of the model: the samples sent have
\* been recorded.
Finish ==
  /\ session.state = "streaming" /\ channel = <<>> /\ position > 0
  /\ session' = [session EXCEPT !.state = "stopped"]
  /\ wire' = Append(wire, NullReference)
  /\ UNCHANGED <<announced, position, reader, app, now, polls, reported, kept, toggles, frame>>

\* The process is gone, and with it the stream from somewhere in the next object
\* on (to lose less is to lose it when that object is the next).  Bounds of
\* the model: the samples sent have been recorded, and none was paused away.
Exit ==
  /\ session.state = "streaming" /\ channel = <<>> /\ toggles = 0
  /\ session' = [session EXCEPT !.state = "exited"]
  /\ LET next == IF position = 0 THEN Len(wire) ELSE NextObject(wire, position).at
     IN \E n \in 0 .. next : wire' = SubSeq(wire, 1, n)
  /\ UNCHANGED <<announced, position, reader, app, now, polls, reported, kept, toggles, frame>>

----------------------------------------------------------------------------
(* The reader.                                                             *)

Sample(sample) == [kind |-> "Sample", sample |-> sample, poll |-> polls]
SessionEnded(failed) == [kind |-> "SessionEnded", failed |-> failed]

End(failed) ==
  /\ result' = IF failed THEN "Failed" ELSE "Ended"
  /\ channel' = Append(channel, SessionEnded(failed))

\* The first read of a session: its preamble.
ReadPreamble ==
  /\ result = "Running" /\ position = 0
  /\ IF Len(wire) >= Len(Preamble) /\ SubSeq(wire, 1, Len(Preamble)) = Preamble
     THEN LET rest == SubSeq(wire, Len(Preamble) + 1, Len(wire))
          IN /\ wire' = rest /\ position' = Len(Preamble)
             /\ UNCHANGED <<result, channel>>
     ELSE End(TRUE) /\ UNCHANGED <<wire, position>>
  /\ UNCHANGED <<session, announced, store, delivered, app, now, polls, reported, kept, toggles, frame>>

\* The records of a metadata block are stored, if all can be read.
StoreRecords(records) ==
  IF \A i \in DOMAIN records : records[i].ok
  THEN /\ store' = FoldLeft(Insert, store, records)
       /\ UNCHANGED <<result, channel, delivered>>
  ELSE End(TRUE) /\ UNCHANGED <<store, delivered>>

\* The samples found in a block of events are sent, and the end if one is malformed.
Deliver(found) ==
  /\ delivered' = delivered \o found.samples
  /\ channel' = channel \o [i \in DOMAIN found.samples |-> Sample(found.samples[i])]
                  \o (IF found.ok THEN <<>> ELSE <<SessionEnded(TRUE)>>)
  /\ result' = IF found.ok THEN result ELSE "Failed"
  /\ UNCHANGED store

\* An object leaves the wire: metadata is stored, events become samples, the rest
\* is skipped.
Take(object) ==
  /\ wire' = SubSeq(wire, object.at + 1, Len(wire))
  /\ position' = position + object.at
  /\ CASE object.type \in {"Malformed", "End"} ->
            End(object.type = "Malformed") /\ UNCHANGED <<store, delivered>>
       [] object.type = "Skipped" -> UNCHANGED reader
       [] object.type = "MetadataBlock" ->
            StoreRecords([i \in DOMAIN object.rows |-> ParseMetadata(object.rows[i].payload)])
       [] object.type = "EventBlock" -> Deliver(SamplesOf(store, object.rows))

ReadObject ==
  /\ result = "Running" /\ position > 0
  /\ wire # <<>> \/ session.state # "streaming"
  /\ Take(NextObject(wire, position))
  /\ UNCHANGED <<session, announced, app, now, polls, reported, kept, toggles, frame>>

----------------------------------------------------------------------------
(* The App.                                                                *)

\* The readings of a counter as logged, and the log with a message's sample.
KeptOf(key) == IF key \in DOMAIN kept THEN kept[key] ELSE <<>>
Log(message) ==
  LET key == KeyOf(message.sample)
  IN Put(kept, key, Append(KeptOf(key), [at |-> now, value |-> message.sample.value,
                                         poll |-> message.poll]))

\* A turn of the event loop: a message, and the frame after it.
Record ==
  /\ channel # <<>>
  /\ channel' = Tail(channel)
  /\ LET message == Head(channel)
     IN IF message.kind = "SessionEnded"
        THEN app' = RecordEnd(app, message.failed) /\ UNCHANGED kept
        ELSE /\ app' = RecordSample(app, message.sample, now)
             /\ kept' = IF app.paused THEN kept ELSE Log(message)
  /\ frame' = [plot \in Picturing!Plots |-> Frame(app', plot, Width, Height)]
  /\ UNCHANGED <<stream, store, result, delivered, now, polls, reported, toggles>>

\* Bound of the model: pauses while the session streams.
Pause ==
  /\ session.state = "streaming"
  /\ toggles < MaxToggles
  /\ app' = [app EXCEPT !.paused = ~@]
  /\ toggles' = toggles + 1
  /\ UNCHANGED <<stream, reader, now, polls, reported, kept, frame>>

\* The counter session is replaced by one of another rate; what its reader has
\* not sent yet is lost with it.
ChangeRate ==
  /\ session.state = "streaming" /\ session.number < MaxSessions /\ result = "Running"
  /\ \E interval \in Intervals \ {app.interval} : app' = ApplyInterval(app, interval)
  /\ session' = [session EXCEPT !.number = @ + 1]
  /\ announced' = {} /\ wire' = Opening /\ position' = 0
  /\ store' = NewStore /\ reported' = <<>> /\ delivered' = <<>>
  /\ UNCHANGED <<result, channel, now, polls, kept, toggles, frame>>

----------------------------------------------------------------------------

Init ==
  /\ session = [number |-> 1, state |-> "streaming"]
  /\ announced = {} /\ wire = Opening /\ position = 0
  /\ store = NewStore /\ result = "Running" /\ channel = <<>>
  /\ app = NewCounters(Min(Intervals))
  /\ now = 0 /\ polls = 0 /\ reported = <<>> /\ delivered = <<>> /\ kept = <<>>
  /\ toggles = 0
  /\ frame = [plot \in Picturing!Plots |-> Frame(app, plot, Width, Height)]

Next ==
  \/ WritePoll
  \/ Finish \/ Exit
  \/ ReadPreamble \/ ReadObject
  \/ Record \/ Pause \/ ChangeRate

Spec == Init /\ [][Next]_vars

----------------------------------------------------------------------------
(* Properties of the stream and of what is kept of it.                     *)

ReadingsAreNumbers ==
  \A key \in DOMAIN kept : \A i \in DOMAIN kept[key] : kept[key][i].value \in Nat

TypeOK ==
  /\ session \in [number : 1 .. MaxSessions, state : {"streaming", "stopped", "exited"}]
  /\ announced \subseteq DOMAIN Events
  /\ position \in Nat /\ wire \in Seq(Nat)
  /\ DOMAIN store \subseteq 1 .. Len(Events)
  /\ result \in {"Running", "Ended", "Failed"}
  /\ app.status \in {"Connecting", "Live", "Ended", "Failed"}
  /\ \A key \in DOMAIN app.series : Len(app.series[key].history) \in 1 .. HistoryCapacity
  /\ ReadingsAreNumbers
  /\ toggles \in 0 .. MaxToggles /\ polls \in 0 .. Len(Polls)

\* Headers that carry the previous row's fields, timestamps written as deltas,
\* numbers cut to their width, metadata in two forms under ids that another
\* session used for other events (nettrace/event.rs:39, reader.rs:200,
\* metadata.rs): whatever the rows, the samples are those the runtime polled, in
\* its order, and all of them once the stream is read.
SamplesAreTheRuntimes ==
  /\ IsPrefix(delivered, reported)
  /\ (session.state = "streaming" /\ (wire = <<>> \/ result = "Failed")) => delivered = reported

\* A stream that breaks off anywhere, between two objects included, is an error;
\* one the runtime ended is not, and has been read in full
\* (nettrace/fastserial.rs:55).
EndIsTold ==
  /\ result = "Ended" => delivered = reported
  /\ result = "Failed" => session.state = "exited"
  /\ session.state = "exited" => result # "Ended"

\* A history is the latest readings that were not paused away, in order, each
\* with the time it arrived, across changes of rate; the value shown is the
\* newest one's (app.rs:120, app.rs:207, app.rs:262). What is said of it besides,
\* and does not hold, is HistoryAsDescribed.
HistoryIsLatest ==
  \A key \in DOMAIN kept \cup DOMAIN app.series :
    LET log == Picturing!Recent(KeptOf(key), HistoryCapacity)
    IN /\ History(app, key) = [i \in DOMAIN log |-> [at |-> log[i].at, value |-> log[i].value]]
       /\ Latest(app, key).value = log[Len(log)].value

\* The providers of the counters in the polls so far.
Polled ==
  {sample.provider : sample \in UNION {Range(Meant(poll)) : poll \in UNION {Polls[i] : i \in 1 .. polls}}}

\* The dashboard turns into that of an ASP.NET process once a counter of hosting
\* or of Kestrel has arrived, paused or not, and never for a process that has
\* reported none; a chart says its provider is silent only if nothing has come
\* from it (app.rs:304, dashboard.rs:327, dashboard.rs:441).
PanelsFollowProviders ==
  \A plot \in Picturing!Plots :
    LET heard == {sample.provider : sample \in Range(delivered)}
                   \ {m.sample.provider : m \in {n \in Range(channel) : n.kind = "Sample"}}
        shown == frame[plot]
    IN /\ {AspNetHosting, Kestrel} \cap heard # {} => shown.aspnet
       /\ shown.aspnet => {AspNetHosting, Kestrel} \cap Polled # {}
       /\ \A key \in DOMAIN shown.charts :
            shown.charts[key].note = "silent" => key[1] \notin heard

\* The readings of a counter that the session's reader has sent.
Sent(key) == Picturing!Values(SelectSeq(delivered, LAMBDA sample : KeyOf(sample) = key))

\* "Changing the refresh rate reopens the counter session, so the graphs restart
\* from empty" (dashboard.rs:444): none holds more than the session has sent.
HistoryRestarts ==
  \A key \in DOMAIN app.series : Len(History(app, key)) <= Len(Sent(key))

\* "history is continuous when you unpause rather than showing a misleading gap"
\* (app.rs:199): the session's latest readings are in it.
HistoryIsContinuous ==
  \A key \in DOMAIN app.series :
    IsSuffix(Picturing!Recent(Sent(key), HistoryCapacity), Picturing!Values(History(app, key)))

\* Of a graph that moves and is up to date at least one of the two is true
\* (dashboard.rs:444, app.rs:199).
HistoryAsDescribed ==
  ~app.paused /\ channel = <<>> => HistoryRestarts \/ HistoryIsContinuous

----------------------------------------------------------------------------
(* Properties of the charts.                                               *)

InnerWidth == Width - 2
InnerHeight == Height - 2

SubRows(plot) == InnerHeight * Picturing!RowsPerCell(plot)
Newest(plot) == Picturing!Capacity(plot, InnerWidth)
Columns(plot) == 1 .. Newest(plot)

\* Whether a picture is drawn on at column c, h steps up: where that is in a cell.
Lit(picture, plot, c, h) ==
  LET rows == Picturing!RowsPerCell(plot)
      per == Picturing!SamplesPerCell(plot)
      cell == <<(c - 1) \div per, InnerHeight - 1 - ((h - 1) \div rows)>>
  IN /\ cell \in DOMAIN picture
     /\ IF plot = "block" THEN (h - 1) % rows < picture[cell]
        ELSE <<rows - 1 - ((h - 1) % rows), (c - 1) % per>> \in picture[cell]

LitSteps(picture, plot, c) == {h \in 1 .. SubRows(plot) : Lit(picture, plot, c, h)}

\* The charts on screen that show readings.
OnScreen(plot) ==
  {key \in DOMAIN frame[plot].charts : frame[plot].charts[key].note = ""}

\* The place in its history of the reading of a column, the newest being in the
\* last column; none has one before 1.
PlaceOf(key, plot, c) == Len(History(app, key)) - (Newest(plot) - c)
ReadingAt(key, plot, c) ==
  LET i == PlaceOf(key, plot, c)
  IN IF i >= 1 THEN Charting(app, key)[i].value ELSE -1

\* The steps of a column that the chart's label does not lie over.
Seen(chart, plot, c) ==
  {h \in 1 .. SubRows(plot) :
     ~ /\ (c - 1) \div Picturing!SamplesPerCell(plot) < chart.label
       /\ h > SubRows(plot) - Picturing!RowsPerCell(plot)}

\* In each kind of plot a chart can be read back: a column is solid from the
\* bottom, empty exactly when its reading is missing, zero or no number, and no
\* lower than that of a smaller reading, all as far as the label of the scale
\* lets it be seen, which never hides any of the newest reading (graph.rs:101,
\* graph.rs:159, chart.rs:82).
ChartReadsBack ==
  \A plot \in Picturing!Plots : \A key \in OnScreen(plot) :
    LET chart == frame[plot].charts[key]
        shown(c) == LET v == ReadingAt(key, plot, c) IN IF IsFinite(v) THEN Max({v, 0}) ELSE 0
        drawn == {[shown |-> shown(c), steps |-> LitSteps(chart.picture, plot, c),
                   seen |-> Seen(chart, plot, c)] : c \in Columns(plot)}
    IN /\ \A p \in drawn :
            /\ p.steps = 1 .. Cardinality(p.steps)
            /\ p.steps = {} <=> (p.shown = 0 \/ p.seen = {})
       /\ \A p \in drawn, q \in drawn : p.shown <= q.shown => p.steps \cap q.seen \subseteq q.steps
       /\ Seen(chart, plot, Newest(plot)) = 1 .. SubRows(plot)

\* No finite reading on screen is above the top of its chart, a percentage over
\* a hundred included, and each is as high as it says, to a step, or up to the
\* label of the scale that lies over its top (chart.rs:109, graph.rs:159,
\* chart.rs:82).
NothingClipped ==
  \A plot \in Picturing!Plots : \A key \in OnScreen(plot) :
    LET chart == frame[plot].charts[key]
    IN \A c \in {d \in Columns(plot) : ReadingAt(key, plot, d) > 0
                                      /\ IsFinite(ReadingAt(key, plot, d))} :
         LET exact == ReadingAt(key, plot, c) * SubRows(plot) * chart.max[2]
             steps == LitSteps(chart.picture, plot, c)
             drawn == Cardinality(steps) * chart.max[1]
             cut == steps = Seen(chart, plot, c) /\ steps # 1 .. SubRows(plot)
         IN /\ ReadingAt(key, plot, c) * chart.max[2] <= chart.max[1]
            /\ drawn - exact < chart.max[1]
            /\ exact - drawn < chart.max[1] \/ cut

\* A chart's span is the time between the oldest and the newest reading in it,
\* whatever rates they were polled at (app.rs:101, chart.rs:98).
SpanIsTime ==
  \A plot \in Picturing!Plots : \A key \in OnScreen(plot) :
    LET log == KeptOf(key)
        shown == Cardinality({c \in Columns(plot) : PlaceOf(key, plot, c) >= 1})
    IN frame[plot].charts[key].span =
         IF shown < 2 THEN -1 ELSE log[Len(log)].at - log[Len(log) - shown + 1].at

\* The polls that the readings of a generation in the GC chart are from.
GcBandsDrawn == GcBands(GcSeries(app))
GcPolls(b) ==
  LET log == Picturing!Recent(KeptOf(<<SystemRuntime, GcCountCounters[b]>>), Len(GcBandsDrawn[b]))
  IN [i \in DOMAIN log |-> log[i].poll]

\* The generations are stacked poll by poll, as long as no poll was torn by a
\* pause or a change of rate and none is only half recorded (dashboard.rs:357).
GcColumnsArePolls ==
  (toggles = 0 /\ session = [number |-> 1, state |-> "streaming"] /\ wire = <<>> /\ channel = <<>>)
    => \A b \in DOMAIN GcCountCounters : GcPolls(b) = GcPolls(1)

\* In the stacked chart a column is as high as its bands together, up to the top,
\* and the colour of a cell is that of a generation that collected in it, even
\* where two columns share the cell (graph.rs:196, graph.rs:243).
StackIsItsBands ==
  \A plot \in Picturing!Plots :
    LET bands == GcBandsDrawn
        scale == GcScale(GcSeries(app))
        picture == frame[plot].gc
        symbols == [p \in DOMAIN picture |-> picture[p].symbol]
        value(b, c) == LET i == Len(bands[b]) - (Newest(plot) - c)
                       IN IF i >= 1 /\ IsFinite(bands[b][i]) THEN bands[b][i] ELSE 0
        steps(b, c) == IF value(b, c) = 0 THEN 0
                       ELSE Max({1, (2 * value(b, c) * SubRows(plot) + scale) \div (2 * scale)})
        cellOf(c) == (c - 1) \div Picturing!SamplesPerCell(plot)
    IN /\ \A c \in Columns(plot) :
            LitSteps(symbols, plot, c)
              = 1 .. Min({steps(1, c) + steps(2, c) + steps(3, c), SubRows(plot)})
       /\ \A p \in DOMAIN picture :
            \E c \in Columns(plot) : cellOf(c) = p[1] /\ value(picture[p].owner, c) > 0

\* The memory chart is drawn in bytes and the panel beside it formats bytes: the
\* two agree on the newest reading, however the runtime reports the counter
\* (dashboard.rs:392, catalog.rs:97).
ChartAgreesWithPanel ==
  \A plot \in Picturing!Plots :
    HeapSize \in OnScreen(plot) =>
      FormatSample(Latest(app, HeapSize))
        = <<ReadingAt(HeapSize, plot, Newest(plot)), "bytes">>

----------------------------------------------------------------------------
(* Properties of the pure parts.  They depend on no variable, and are      *)
(* evaluated in the first state.                                           *)

Starting == session = [number |-> 1, state |-> "streaming"] /\ position = 0 /\ toggles = 0

\* A varuint yields what was written, cut to the width asked for, and leaves the
\* cursor after it; cut short it fails (nettrace/reader.rs:183).
VarUintIsExact ==
  Starting => \A n \in 0 .. Digit ^ Digits64 - 1 :
    LET c == Written(n)
    IN /\ VarUint(c, 0, Digits64, Word64) = ReadAs(n % Word64, Len(c))
       /\ n < Digit ^ Digits32 => VarUint(c, 0, Digits32, Word32) = ReadAs(n % Word32, Len(c))
       /\ VarUint(SubSeq(c, 1, Len(c) - 1), 0, Digits64, Word64) = NotRead

\* The colours tried: the ramps at several places, dimmed and lightened, greys
\* and saturated colours among them.
Tried ==
  LET places == {<<i, 8>> : i \in 0 .. 8}
      ramps == {Colouring!Flame, Colouring!Cool, Colouring!Rate}
                 \cup {Colouring!Around(c) : c \in Range(Colouring!GenerationColours)}
      channels == {0, 47, 48, 115, 128, 238, 255}
  IN {Colouring!RgbAt(r, t) : r \in ramps, t \in places}
       \cup {<<r, g, b>> : r \in channels, g \in channels, b \in channels}

\* On a terminal of 256 colours a colour is drawn as the palette's nearest entry,
\* cube and greys together (gradient.rs:88).
PaletteIsNearest ==
  Starting => \A colour \in Tried :
    LET error(n) == Colouring!Distance(Colouring!Palette(n), colour)
        drawn == Colouring!ToAnsi256(colour)
    IN drawn \in 16 .. 255 /\ \A n \in 16 .. 255 : error(drawn) <= error(n)

\* The generations' bars divide the panel without gap or overlap; the largest is
\* full, none that holds anything is invisible, and a larger one is never drawn
\* lower (panels.rs:97, graph.rs:294).
BarsCompare ==
  Starting =>
  /\ \A width \in 5 .. 40 : \A b \in 1 .. 5 :
       /\ Picturing!SlotWidth(width, b, 5) >= 1
       /\ Picturing!SlotStart(width, 1, 5) = 0
       /\ Picturing!SlotStart(width, b, 5) + Picturing!SlotWidth(width, b, 5)
            = IF b = 5 THEN width ELSE Picturing!SlotStart(width, b + 1, 5)
  /\ \A sizes \in [1 .. 3 -> {0, 1, 2, 30, 31, 500}] :
       LET bars == Picturing!Bars(sizes, 2)
           filled(b) == bars[b][0] + bars[b][1]
       IN bars # <<>> =>
            \A b \in 1 .. 3 :
              /\ (filled(b) > 0) <=> (sizes[b] > 0)
              /\ bars[b][0] > 0 => bars[b][1] = 8
              /\ \A d \in 1 .. 3 : sizes[b] <= sizes[d] => filled(b) <= filled(d)
              /\ sizes[b] = Max(Range(sizes)) => filled(b) = 16
=============================================================================
