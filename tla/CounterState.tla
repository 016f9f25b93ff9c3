----------------------------- MODULE CounterState -----------------------------
(***************************************************************************)
(* The part of the App that counter samples go into (app.rs): a history    *)
(* for each counter, the providers heard from, and the rate the session    *)
(* runs at.                                                                *)
(***************************************************************************)
EXTENDS Counters

CONSTANT HistoryCapacity   \* bound of the code: readings kept per counter

ASSUME HistoryAssumption == HistoryCapacity \in Nat \ {0}

NoSeries == [latest |-> NoSample, history |-> <<>>]

NewCounters(interval) ==
  [series |-> <<>>, providers |-> {}, paused |-> FALSE, status |-> "Connecting",
   samples_seen |-> 0, last_sample_at |-> -1, interval |-> interval]

\* Mutant: one reading too many is kept.
PushOneMore(series, sample, at) ==
  LET history == Append(series.history, [at |-> at, value |-> sample.value])
      overflow == Max({Len(history) - HistoryCapacity - 1, 0})
  IN [latest |-> sample, history |-> SubSeq(history, overflow + 1, Len(history))]

\* Series::push drops what is over capacity from the front.
Push(series, sample, at) ==
  LET history == Append(series.history, [at |-> at, value |-> sample.value])
      overflow == Max({Len(history) - HistoryCapacity, 0})
  IN [latest |-> sample, history |-> SubSeq(history, overflow + 1, Len(history))]

SeriesOf(app, key) == IF key \in DOMAIN app.series THEN app.series[key] ELSE NoSeries
History(app, key) == SeriesOf(app, key).history
Latest(app, key) == SeriesOf(app, key).latest

\* Mutant: a paused App goes on recording.
RecordSamplePaused(app, sample, now) ==
  LET key == KeyOf(sample)
  IN [app EXCEPT !.status = "Live", !.samples_seen = @ + 1, !.last_sample_at = now,
                 !.providers = @ \cup {sample.provider},
                 !.series = Put(@, key, Push(SeriesOf(app, key), sample, now))]

\* Mutant: a paused App does not hear from providers.
RecordSampleDeaf(app, sample, now) ==
  LET key == KeyOf(sample)
  IN IF app.paused THEN [app EXCEPT !.status = "Live"]
     ELSE [app EXCEPT !.status = "Live", !.providers = @ \cup {sample.provider},
                      !.series = Put(@, key, Push(SeriesOf(app, key), sample, now))]

\* record_at: a paused App counts the sample, and drops it.
RecordSample(app, sample, now) ==
  LET heard == [app EXCEPT !.status = "Live", !.samples_seen = @ + 1, !.last_sample_at = now,
                           !.providers = @ \cup {sample.provider}]
      key == KeyOf(sample)
  IN IF app.paused THEN heard
     ELSE [heard EXCEPT !.series = Put(@, key, Push(SeriesOf(app, key), sample, now))]

\* handle_event, SessionEnded, and the error it came with.
RecordEnd(app, failed) == [app EXCEPT !.status = IF failed THEN "Failed" ELSE "Ended"]

\* apply_interval keeps the histories.
ApplyInterval(app, interval) == [app EXCEPT !.interval = interval]

HasProvider(app, provider) == provider \in app.providers
\* Mutant: any process is one of ASP.NET once it has reported.
IsAspNetAlways(app) == app.samples_seen > 0

IsAspNet(app) == HasProvider(app, AspNetHosting) \/ HasProvider(app, Kestrel)
CounterCount(app) == Cardinality(DOMAIN app.series)
=============================================================================
