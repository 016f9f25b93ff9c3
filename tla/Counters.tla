------------------------------- MODULE Counters -------------------------------
(***************************************************************************)
(* Counter samples: taking one from an event (counters/sample.rs), and the *)
(* rules of presentation the payload does not carry (counters/catalog.rs). *)
(* A number is a natural; NotFinite stands for a NaN or an infinity, and   *)
(* is larger than any other, as it is when nothing asks is_finite.         *)
(***************************************************************************)
EXTENDS Metadata

NotFinite == 1000000
IsFinite(v) == v # NotFinite
Times(v, scale) == IF IsFinite(v) THEN v * scale ELSE v

----------------------------------------------------------------------------
(* Samples.                                                                *)

EventCounters == "EventCounters"
NoSample == [kind |-> "None"]

\* A field of the payload, as text and as a number, when it is there and is one.
StringField(fields, key) ==
  IF key \in DOMAIN fields /\ fields[key].kind = "String" THEN Text(fields[key].cell) ELSE ""
HasNumber(fields, key) == key \in DOMAIN fields /\ fields[key].kind = "Number"

\* A gauge reads its mean, a rate its increment; any other type is not read.
KindOf(counterType) ==
  CASE counterType = "Mean" -> "Mean" [] counterType = "Sum" -> "Rate" [] OTHER -> "None"
ValueField(kind) == IF kind = "Mean" THEN "Mean" ELSE "Increment"

\* The sample that the fields of an event make, if they do.
SampleFrom(metadata, event, fields) ==
  LET kind == KindOf(StringField(fields, "CounterType"))
      name == StringField(fields, "Name")
      sample ==
        [provider |-> metadata.provider_name, name |-> name, kind |-> kind,
         display_name |-> StringField(fields, "DisplayName"),
         display_units |-> StringField(fields, "DisplayUnits"),
         value |-> fields[ValueField(kind)].cell,
         rate_time_scale |-> IF kind = "Rate" THEN StringField(fields, "DisplayRateTimeScale")
                             ELSE "",
         timestamp |-> event.timestamp]
  IN IF kind = "None" \/ ~HasNumber(fields, ValueField(kind)) \/ name = "" THEN NoSample
     ELSE sample

SampleRead(metadata, event, read) ==
  IF read.ok THEN [ok |-> TRUE, sample |-> SampleFrom(metadata, event, read.value)]
  ELSE [ok |-> FALSE, sample |-> NoSample]

\* extract: [ok, sample], not ok when the payload cannot be decoded.
Extract(metadata, event) ==
  IF metadata.event_name # EventCounters THEN [ok |-> TRUE, sample |-> NoSample]
  ELSE SampleRead(metadata, event, DecodeFlat(metadata.fields, event.payload))

\* Mutant: a counter that stands at zero is taken to have no reading.
WithSampleNonZero(r, x) ==
  IF ~x.ok THEN [r EXCEPT !.ok = FALSE]
  ELSE IF x.sample = NoSample THEN r
  ELSE IF x.sample.value = 0 THEN r
  ELSE [r EXCEPT !.samples = Append(@, x.sample)]

WithSample(r, x) ==
  IF ~x.ok THEN [r EXCEPT !.ok = FALSE]
  ELSE IF x.sample = NoSample THEN r
  ELSE [r EXCEPT !.samples = Append(@, x.sample)]

\* An event whose metadata is known adds its sample, unless one before it could
\* not be decoded.
TakeEvent(store, r, event) ==
  IF ~r.ok \/ event.metadata_id \notin DOMAIN store THEN r
  ELSE WithSample(r, Extract(store[event.metadata_id], event))

\* run, for one batch: the samples of its events up to the first that cannot be
\* decoded, which ends the session.
SamplesOf(store, events) ==
  FoldLeft(LAMBDA r, e : TakeEvent(store, r, e), [ok |-> TRUE, samples |-> <<>>], events)

KeyOf(sample) == <<sample.provider, sample.name>>

----------------------------------------------------------------------------
(* Presentation.                                                           *)

Units(sample) ==
  IF sample.display_units # "" THEN sample.display_units
  ELSE IF sample.kind = "Rate" THEN "count" ELSE ""

\* The TimeSpan texts the runtime sends, in hours, minutes and seconds.
TimeSpan == [second |-> "00:00:01", minute |-> "00:01:00"]
SpanParts(text) ==
  CASE text = TimeSpan.second -> <<0, 0, 1>>
    [] text = TimeSpan.minute -> <<0, 1, 0>>
    [] OTHER -> <<0, 0, 0>>

\* 0 where the code has None.
RateSeconds(sample) ==
  LET p == SpanParts(sample.rate_time_scale)
  IN IF sample.kind = "Rate" THEN 3600 * p[1] + 60 * p[2] + p[3] ELSE 0

SystemRuntime == "System.Runtime"
AspNetHosting == "Microsoft.AspNetCore.Hosting"
Kestrel == "Microsoft-AspNetCore-Server-Kestrel"

MegabyteCounters == {"working-set", "gc-heap-size", "gc-committed", "gen-0-gc-budget"}
GcCountCounters == <<"gen-0-gc-count", "gen-1-gc-count", "gen-2-gc-count">>

\* Mutant: what the runtime counts in megabytes is not known to be memory.
ByteScaleByUnit(sample) ==
  IF sample.provider = SystemRuntime /\ Units(sample) = "B" /\ sample.kind = "Mean" THEN 1 ELSE 0

\* Kilo for mega: bytes per unit of the counter, 0 if it does not measure memory.
Mega == 1000
ByteScale(sample) ==
  IF sample.provider # SystemRuntime THEN 0
  ELSE IF sample.name \in MegabyteCounters THEN Mega
  ELSE IF Units(sample) = "B" /\ sample.kind = "Mean" THEN 1 ELSE 0

\* What a panel shows: a number and what it is said to be.
FormatSample(sample) ==
  LET units == Units(sample)
      per == IF RateSeconds(sample) >= 60 THEN "/min" ELSE "/s"
  IN IF ByteScale(sample) > 0 THEN <<Times(sample.value, ByteScale(sample)), "bytes">>
     ELSE CASE units \in {"%", "ms"} -> <<sample.value, units>>
            [] units = "B" -> <<sample.value, "bytes/s">>
            [] units = "MB" -> <<Times(sample.value, Mega), "bytes">>
            [] OTHER -> <<sample.value, IF sample.kind = "Rate" THEN per ELSE "">>
=============================================================================
