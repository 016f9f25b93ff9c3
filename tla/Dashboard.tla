------------------------------- MODULE Dashboard -------------------------------
(***************************************************************************)
(* What the dashboard makes of an App (ui/dashboard.rs): which body it has,*)
(* the charts in it, and the word at its foot.  Where the panels are is    *)
(* left to the layout library.                                             *)
(***************************************************************************)
EXTENDS CounterState

Picturing == INSTANCE Plot

CpuUsage == <<SystemRuntime, "cpu-usage">>
HeapSize == <<SystemRuntime, "gc-heap-size">>
RequestsPerSecond == <<AspNetHosting, "requests-per-second">>

\* The charts of the generic body and those of the ASP.NET one.
Charted(app) == {CpuUsage, HeapSize} \cup (IF IsAspNet(app) THEN {RequestsPerSecond} ELSE {})

\* CPU usage has a ceiling.
ScaleOf(key) == IF key = CpuUsage THEN Picturing!FixedAt(100) ELSE Picturing!Auto
FormatOf(key) ==
  IF key = CpuUsage THEN "percent" ELSE IF key = HeapSize THEN "bytes" ELSE "perSecond"

\* render_bytes_chart scales the whole history by what the counter is now.
Charting(app, key) ==
  LET scale == IF key = HeapSize THEN Max({ByteScale(Latest(app, key)), 1}) ELSE 1
  IN [i \in DOMAIN History(app, key) |->
        [History(app, key)[i] EXCEPT !.value = Times(@, scale)]]

\* silent_provider: others report and this one has not.
SilentProvider(app, provider) == ~HasProvider(app, provider) /\ CounterCount(app) > 0

\* A chart of nothing says why.
Placeholder(app, key) ==
  [note |-> IF SilentProvider(app, key[1]) THEN "silent" ELSE "waiting", max |-> <<1, 1>>,
   span |-> -1, label |-> 0, picture |-> <<>>]

ChartOf(app, key, plot, width, height) ==
  LET drawn == Picturing!TimeSeries(Charting(app, key), ScaleOf(key), FormatOf(key),
                                   plot, width, height)
  IN IF History(app, key) = <<>> THEN Placeholder(app, key)
     ELSE [note |-> "", max |-> drawn.max, span |-> drawn.span,
           label |-> drawn.label, picture |-> drawn.picture]

\* render_gc_chart: the collection counts, youngest generation first.
GcSeries(app) ==
  [b \in DOMAIN GcCountCounters |->
     Picturing!Values(History(app, <<SystemRuntime, GcCountCounters[b]>>))]

Shortest(series) == Min({Len(series[b]) : b \in DOMAIN series})
GcChartFloor == 4

\* The scale is taken from their oldest readings, the bands are cut from their newest.
GcScale(series) ==
  Max({GcChartFloor}
        \cup {FoldLeft(+, 0, [b \in DOMAIN series |-> series[b][i]]) : i \in 1 .. Shortest(series)})

GcBands(series) == [b \in DOMAIN series |-> Picturing!Recent(series[b], Shortest(series))]

GcChart(app, plot, width, height) ==
  LET series == GcSeries(app)
  IN IF \A b \in DOMAIN series : series[b] = <<>> THEN <<>>
     ELSE Picturing!StackedPicture(GcBands(series), <<GcScale(series), 1>>, plot,
                                   Max({width - 2, 0}), Max({height - 2, 0}))

\* A frame, its charts all of one size.
Frame(app, plot, width, height) ==
  [aspnet |-> IsAspNet(app),
   charts |-> [key \in Charted(app) |-> ChartOf(app, key, plot, width, height)],
   gc |-> GcChart(app, plot, width, height)]
=============================================================================
