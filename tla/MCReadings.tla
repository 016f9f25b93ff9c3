------------------------------- MODULE MCReadings -------------------------------
(***************************************************************************)
(* Constants of the model-checked instance of Readings: four kinds of event*)
(* (a gauge and a rate in the older form of metadata, a rate in the newer  *)
(* one with an array in it, and an event that is no counter, with a field  *)
(* of a type nobody knows) and two polls.                                  *)
(***************************************************************************)
EXTENDS Readings

MCWords ==
  <<"Nettrace", "!FastSerialization.1", "Trace", "EventBlock", "MetadataBlock", "SPBlock",
    "System.Runtime", "Microsoft.AspNetCore.Hosting", "EventCounters", "RuntimeInformation",
    "Payload", "Name", "DisplayName", "Mean", "Increment", "CounterType", "DisplayUnits",
    "DisplayRateTimeScale", "Series", "Sum", "cpu-usage", "gc-heap-size", "gen-0-gc-count",
    "gen-1-gc-count", "gen-2-gc-count", "requests-per-second", "%", "MB", "00:00:01", "">>

String(name) == Field(name, Scalar(TypeCode.String))
Double(name) == Field(name, Scalar(TypeCode.Double))

Gauge == <<String("Name"), String("DisplayName"), Double("Mean"), String("CounterType"),
           String("DisplayUnits")>>
Increments == <<String("Name"), String("DisplayName"), String("DisplayRateTimeScale"),
                Double("Increment"), String("CounterType"), String("DisplayUnits")>>

Kind(provider, name, fields, tagged) ==
  [provider |-> provider, name |-> name, fields |-> fields, tagged |-> tagged]

MCEvents ==
  <<Kind(SystemRuntime, EventCounters, <<Field("Payload", ObjectOf(Gauge))>>, FALSE),
    Kind(SystemRuntime, EventCounters, <<Field("Payload", ObjectOf(Increments))>>, FALSE),
    Kind(AspNetHosting, EventCounters,
         <<Field("Series", ArrayOf(Scalar(TypeCode.Int32))),
           Field("Payload", ObjectOf(Increments))>>, TRUE),
    Kind(SystemRuntime, "RuntimeInformation", <<Field("Payload", Unmodelled(99))>>, TRUE)>>

\* A row of a block, and the sample it stands for.
Report(event, thread, sequence, timestamp, payload, counter) ==
  [event |-> event, thread |-> thread, sequence |-> sequence, timestamp |-> timestamp,
   payload |-> payload, counter |-> counter]

Counter(provider, name, kind, value, units, scale) ==
  [provider |-> provider, name |-> name, kind |-> kind, display_name |-> name,
   display_units |-> units, value |-> value, rate_time_scale |-> scale, timestamp |-> 0]

Mean(name, value, units, thread, sequence, timestamp) ==
  Report(1, thread, sequence, timestamp,
         <<Cell(name), Cell(name), value, Cell("Mean"), Cell(units)>>,
         Counter(SystemRuntime, name, "Mean", value, units, ""))

SumPayload(name, value, scale) ==
  <<Cell(name), Cell(name), Cell(scale), value, Cell("Sum"), Cell("")>>
Sum(name, value, thread, sequence, timestamp) ==
  Report(2, thread, sequence, timestamp, SumPayload(name, value, ""),
         Counter(SystemRuntime, name, "Rate", value, "", ""))
Requests(value, thread, sequence, timestamp) ==
  Report(3, thread, sequence, timestamp,
         <<2, 8, 9>> \o SumPayload("requests-per-second", value, "00:00:01"),
         Counter(AspNetHosting, "requests-per-second", "Rate", value, "", "00:00:01"))

Block(compressed, rows) == [compressed |-> compressed, rows |-> rows]

\* A quiet poll on one thread, and a busy one on two threads in two blocks, its
\* rows out of order in time and with a gap in their sequence numbers.
QuietPoll ==
  <<Block(TRUE, <<Mean("cpu-usage", 3, "%", 9, 1, 40), Sum("gen-0-gc-count", 2, 9, 2, 41),
                  Sum("gen-1-gc-count", 0, 9, 3, 41), Sum("gen-2-gc-count", 1, 9, 4, 43)>>)>>
BusyPoll ==
  <<Block(TRUE, <<Sum("gen-0-gc-count", 3, 200, 50, 1500), Sum("gen-1-gc-count", 5, 9, 7, 90),
                  Report(4, 9, 8, 95, <<1, 2, 3>>, NoSample),
                  Mean("gc-heap-size", 31, "MB", 9, 9, 2000)>>),
    Block(FALSE, <<Sum("gen-2-gc-count", 0, 9, 10, 100), Mean("cpu-usage", 130, "%", 9, 11, 90),
                   Requests(7, 200, 51, 130)>>)>>
\* A gauge that is no number, and reported twice.
OddPoll ==
  <<Block(TRUE, <<Mean("cpu-usage", NotFinite, "%", 9, 1, 40),
                  Mean("cpu-usage", 60, "%", 9, 2, 41)>>)>>

MCPolls == <<{QuietPoll}, {BusyPoll}, {QuietPoll, OddPoll}>>
=============================================================================
