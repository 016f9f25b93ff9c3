----------------------------- MODULE ReadingsProofs -----------------------------
(***************************************************************************)
(* What is recorded and drawn of the samples a reader sends, for every kind*)
(* of event, every poll and every stream: the proofs of Readings.          *)
(***************************************************************************)
EXTENDS WireProofs

----------------------------------------------------------------------------
(* What the reader makes of a block.                                       *)

\* What has been made of some events.
IsTaken(t) == \E ok, samples : t = [ok |-> ok, samples |-> samples] /\ IsSequence(samples)

\* Samples are taken from events in a sequence.
LEMMA SamplesAreASequence ==
  ASSUME NEW known, NEW events, IsSequence(events)
  PROVE  IsSequence(SamplesOf(known, events).samples)
<1>. DEFINE n == Len(events)
<1>1. n \in Nat
  BY DEF IsSequence
<1>2. PICK d : IsTaking(d, n, known, events) /\ SamplesOf(known, events) = d[1 .. n]
  BY SamplesAreTaken
<1>3. /\ d[1 .. 0] = NoneTaken
      /\ \A k \in 1 .. n : d[1 .. k] = TakeEvent(known, d[1 .. k - 1], events[k])
  <2>. HIDE DEF n
  <2>. QED  BY <1>1, <1>2, TakingGoes
<1>. DEFINE good == {k \in Nat : k <= n => IsTaken(d[1 .. k])}
<1>. HIDE DEF n
<1>4. 0 \in good
  BY <1>3, EmptySequence DEF NoneTaken, IsTaken
<1>5. ASSUME NEW k \in Nat, k \in good PROVE k + 1 \in good
  <2>. SUFFICES ASSUME k + 1 <= n PROVE IsTaken(d[1 .. k + 1])
    OBVIOUS
  <2>. DEFINE taken == d[1 .. k]
              event == events[k + 1]
  <2>1. k + 1 \in 1 .. n /\ (k + 1) - 1 = k /\ k <= n
    BY <1>1
  <2>2. d[1 .. k + 1] = TakeEvent(known, d[1 .. (k + 1) - 1], event)
    BY <1>3, <2>1
  <2>3. d[1 .. k + 1] = TakeEvent(known, taken, event)
    BY <2>1, <2>2
  <2>4. IsTaken(taken)
    BY <1>5, <2>1
  <2>. HIDE DEF taken, event
  <2>5. ASSUME NEW found PROVE IsTaken(WithSample(taken, found))
    <3>1. PICK ok, samples : taken = [ok |-> ok, samples |-> samples] /\ IsSequence(samples)
      BY <2>4 DEF IsTaken
    <3>. DEFINE sample == found.sample
                more == Append(samples, sample)
                no == FALSE
    <3>2. IsSequence(more)
      <4>. HIDE DEF sample
      <4>. QED  BY <3>1, AppendSequence
    <3>3. taken.samples = samples
      BY <3>1
    <3>. HIDE DEF more, no
    <3>4. /\ [taken EXCEPT !.ok = no] = [ok |-> no, samples |-> samples]
          /\ [taken EXCEPT !.samples = more] = [ok |-> ok, samples |-> more]
      BY <3>1
    <3>5. IsTaken([taken EXCEPT !.ok = no]) /\ IsTaken([taken EXCEPT !.samples = more])
      BY <3>1, <3>2, <3>4 DEF IsTaken
    <3>6. WithSample(taken, found) \in {taken, [taken EXCEPT !.ok = no],
                                        [taken EXCEPT !.samples = more]}
      BY <3>3, Zenon DEF WithSample, more, no
    <3>. QED  BY <2>4, <3>5, <3>6
  <2>6. IsTaken(TakeEvent(known, taken, event))
    BY <2>4, <2>5 DEF TakeEvent
  <2>. QED  BY <2>3, <2>6
<1>6. Nat \subseteq good
  <2>. HIDE DEF good
  <2>. QED  BY <1>4, <1>5, NumbersByInduction
<1>7. IsTaken(d[1 .. n])
  BY <1>1, <1>6
<1>8. IsSequence(d[1 .. n].samples)
  BY <1>7 DEF IsTaken
<1>. QED  BY <1>2, <1>8

----------------------------------------------------------------------------
(* A history and the log it is of.                                         *)

\* How many of n readings are kept, or fit in as many columns.
Fitting(n, columns) == IF n <= columns THEN n ELSE columns

\* The latest of a sequence, as many as there is room for.
LEMMA RecentOf ==
  ASSUME NEW s, IsSequence(s), NEW columns \in Nat
  PROVE  LET m == Fitting(Len(s), columns)
         IN /\ m \in Nat /\ m <= Len(s) /\ m <= columns
            /\ Picturing!Recent(s, columns) = [i \in 1 .. m |-> s[Len(s) - m + i]]
            /\ Len(Picturing!Recent(s, columns)) = m
<1>. DEFINE n == Len(s)
            m == Fitting(n, columns)
            k == Max({n - columns, 0})
            f == [i \in 1 .. m |-> s[n - m + i]]
<1>1. n \in Nat
  BY DEF IsSequence
<1>2. m \in Nat /\ m <= n /\ m <= columns
  BY <1>1 DEF Fitting
<1>3. k = n - m
  <2>1. k = IF n - columns >= 0 THEN n - columns ELSE 0
    <3>. HIDE DEF n
    <3>. QED  BY <1>1, MaxOfTwo
  <2>. QED  BY <1>1, <2>1 DEF Fitting
<1>4. SubSeq(s, k + 1, n) = f
  <2>. HIDE DEF k, m, n
  <2>1. SubSeq(s, k + 1, n) = [i \in 1 .. m |-> s[k + i]]
    BY <1>1, <1>2, <1>3, SMT
  <2>. QED  BY <1>3, <2>1
<1>5. Len(f) = m
  <2>. HIDE DEF m
  <2>. QED  BY <1>2, NumberedSequence
<1>6. Picturing!Recent(s, columns) = f
  <2>1. Picturing!Max({n - columns, 0}) = k
    BY DEF Picturing!Max, Max
  <2>. HIDE DEF k, f
  <2>. QED  BY <1>4, <2>1 DEF Picturing!Recent
<1>. HIDE DEF f
<1>. QED  BY <1>1, <1>2, <1>5, <1>6 DEF f

\* What a history keeps of the readings in a log.
Shown(log) == [i \in DOMAIN log |-> [at |-> log[i].at, value |-> log[i].value]]

\* A counter's series is what its log says.
IsLogged(series, log, key) ==
  LET latest == Picturing!Recent(log, HistoryCapacity)
  IN /\ IsSequence(log) /\ log # <<>>
     /\ series.history = Shown(latest)
     /\ series.latest.value = latest[Len(latest)].value
     /\ KeyOf(series.latest) = key

\* A history of what is kept, by places.
LEMMA ShownRecent ==
  ASSUME NEW log, IsSequence(log)
  PROVE  LET m == Fitting(Len(log), HistoryCapacity)
         IN Shown(Picturing!Recent(log, HistoryCapacity))
              = [i \in 1 .. m |-> [at |-> log[Len(log) - m + i].at,
                                   value |-> log[Len(log) - m + i].value]]
<1>. DEFINE n == Len(log)
            m == Fitting(n, HistoryCapacity)
            r == Picturing!Recent(log, HistoryCapacity)
<1>1. r = [i \in 1 .. m |-> log[n - m + i]]
  BY RecentOf, HistoryAssumption
<1>. HIDE DEF r, m, n
<1>2. DOMAIN r = 1 .. m /\ \A i \in 1 .. m : r[i] = log[n - m + i]
  BY <1>1
<1>3. Shown(r) = [i \in 1 .. m |-> [at |-> log[n - m + i].at, value |-> log[n - m + i].value]]
  BY <1>2 DEF Shown
<1>. QED  BY <1>3 DEF r, m, n

\* A sample pushed and logged keeps the series what the log says.
LEMMA PushIsLogged ==
  ASSUME NEW series, NEW log, IsSequence(log),
         series.history = Shown(Picturing!Recent(log, HistoryCapacity)),
         NEW sample, NEW at, NEW poll
  PROVE  IsLogged(Push(series, sample, at),
                  Append(log, [at |-> at, value |-> sample.value, poll |-> poll]),
                  KeyOf(sample))
<1>. DEFINE n == Len(log)
            cap == HistoryCapacity
            m == Fitting(n, cap)
            e == [at |-> at, value |-> sample.value, poll |-> poll]
            x == [at |-> at, value |-> sample.value]
            shown(l, i) == [at |-> l[i].at, value |-> l[i].value]
            h == series.history
            log2 == Append(log, e)
            n2 == Len(log2)
            m2 == Fitting(n2, cap)
            h2 == Append(h, x)
            l == Len(h2)
            over == Max({l - cap, 0})
            new == SubSeq(h2, over + 1, l)
            want == [i \in 1 .. m2 |-> shown(log2, n2 - m2 + i)]
<1>0. cap \in Nat /\ cap >= 1
  BY HistoryAssumption
<1>1. n \in Nat /\ m \in Nat /\ m <= n /\ m <= cap
  <2>1. n \in Nat
    BY DEF IsSequence
  <2>. QED  BY <1>0, <2>1 DEF Fitting
<1>2. h = [i \in 1 .. m |-> shown(log, n - m + i)]
  BY ShownRecent
<1>. HIDE DEF cap
<1>3. IsSequence(h) /\ Len(h) = m
  <2>1. h = [i \in 1 .. m |-> h[i]]
    <3>. HIDE DEF shown, h
    <3>. QED  BY <1>2
  <2>. HIDE DEF h, m
  <2>. QED  BY <1>1, <2>1, NumberedSequence
<1>4. IsSequence(log2) /\ n2 = n + 1 /\ log2 # <<>>
  <2>. HIDE DEF e
  <2>1. IsSequence(log2)
    BY AppendSequence
  <2>2. Len(log2) = n + 1
    BY <1>1 DEF IsSequence
  <2>3. log2 # <<>>
    <3>. HIDE DEF log2
    <3>. QED  BY <1>1, <2>2
  <2>. QED  BY <2>1, <2>2, <2>3
<1>5. \A i \in 1 .. n : log2[i] = log[i]
  <2>. HIDE DEF e
  <2>. QED  BY DEF IsSequence
<1>6. log2[n + 1] = e
  <2>. HIDE DEF e
  <2>. QED  BY DEF IsSequence
<1>7. IsSequence(h2) /\ l = m + 1
  <2>. HIDE DEF x, h, m
  <2>1. IsSequence(h2)
    BY <1>3, AppendSequence
  <2>2. Len(h2) = m + 1
    BY <1>3 DEF IsSequence
  <2>. QED  BY <2>1, <2>2
<1>8. \A i \in 1 .. m : h2[i] = h[i]
  <2>. HIDE DEF x, h, m
  <2>. QED  BY <1>3 DEF IsSequence
<1>9. h2[m + 1] = x
  <2>. HIDE DEF x, h, m
  <2>. QED  BY <1>3 DEF IsSequence
<1>10. over \in Nat /\ m2 = m + 1 - over /\ over <= m /\ m2 \in Nat
  <2>1. l - cap \in Int /\ 0 \in Int
    <3>. HIDE DEF m, h2
    <3>. QED  BY <1>0, <1>1, <1>7
  <2>2. over = IF l - cap >= 0 THEN l - cap ELSE 0
    <3>. HIDE DEF l
    <3>. QED  BY <2>1, MaxOfTwo
  <2>3. l = m + 1
    BY <1>7
  <2>. HIDE DEF over, n, l, n2
  <2>. QED  BY <1>0, <1>1, <1>4, <2>2, <2>3 DEF Fitting
<1>11. new = [i \in 1 .. m2 |-> h2[over + i]]
  <2>1. new = SubSeq(h2, over + 1, m + 1)
    <3>. HIDE DEF h2, over, m
    <3>. QED  BY <1>7
  <2>. HIDE DEF h2, over, m, m2, new
  <2>. QED  BY <1>1, <1>10, <2>1, SMT
<1>12. ASSUME NEW i \in 1 .. m2 PROVE h2[over + i] = shown(log2, n2 - m2 + i)
  <2>. HIDE DEF over, m, m2, h2, log2, n, n2
  <2>1. CASE over + i = m + 1
    <3>1. n2 - m2 + i = n + 1
      BY <1>1, <1>4, <1>10, <2>1
    <3>2. shown(log2, n + 1) = x
      BY <1>6
    <3>. QED  BY <1>9, <2>1, <3>1, <3>2
  <2>2. CASE over + i # m + 1
    <3>. DEFINE j == over + i
                k == n2 - m2 + i
    <3>1. j \in 1 .. m /\ k = n - m + j /\ k \in 1 .. n
      BY <1>1, <1>4, <1>10, <2>2
    <3>. HIDE DEF j, k
    <3>2. h2[j] = h[j] /\ log2[k] = log[k]
      BY <1>5, <1>8, <3>1
    <3>3. h[j] = shown(log, k)
      <4>. HIDE DEF h, shown
      <4>. QED  BY <1>2, <3>1
    <3>4. h2[j] = shown(log2, k)
      BY <3>2, <3>3
    <3>. QED  BY <3>4 DEF j, k
  <2>. QED  BY <2>1, <2>2
<1>13. new = want
  <2>. HIDE DEF h2, over, m2, log2, n2, shown, new
  <2>. QED  BY <1>11, <1>12
<1>. DEFINE r == Picturing!Recent(log2, cap)
<1>14. Shown(r) = want
  <2>. HIDE DEF log2
  <2>. QED  BY <1>4, ShownRecent DEF cap
<1>15. r[Len(r)] = e
  <2>1. Len(r) = m2 /\ r = [i \in 1 .. m2 |-> log2[n2 - m2 + i]]
    <3>. HIDE DEF log2
    <3>. QED  BY <1>0, <1>4, RecentOf
  <2>2. m2 \in 1 .. m2 /\ n2 - m2 + m2 = n + 1
    <3>. HIDE DEF m2, over, m, n2
    <3>. QED  BY <1>1, <1>4, <1>10
  <2>. HIDE DEF r, m2, log2, e, n2
  <2>. QED  BY <1>6, <2>1, <2>2
<1>16. Push(series, sample, at).history = new /\ Push(series, sample, at).latest = sample
  BY DEF Push, cap
<1>17. e.value = sample.value
  OBVIOUS
<1>. HIDE DEF new, want, log2, e, r
<1>18. IsLogged(Push(series, sample, at), log2, KeyOf(sample))
  BY <1>4, <1>13, <1>14, <1>15, <1>16, <1>17 DEF IsLogged, r, cap
<1>. QED  BY <1>18 DEF log2, e

----------------------------------------------------------------------------
(* The invariant.                                                          *)

\* An App has the fields that counters go into.
IsApp(a) ==
  a = [series |-> a.series, providers |-> a.providers, paused |-> a.paused,
       status |-> a.status, samples_seen |-> a.samples_seen,
       last_sample_at |-> a.last_sample_at, interval |-> a.interval]

\* There is a series for each log, and it is what the log says.
SeriesAreLogged(a, logs) ==
  /\ DOMAIN a.series = DOMAIN logs
  /\ \A key \in DOMAIN logs : IsLogged(a.series[key], logs[key], key)

\* The providers of the samples on their way to the App.
OnTheirWay(messages) == {m.sample.provider : m \in {n \in Range(messages) : n.kind = "Sample"}}

\* The App has heard from the provider of each sample sent, or is about to.
ProvidersHeard(a, sent, messages) ==
  \A sample \in Range(sent) : sample.provider \in a.providers \cup OnTheirWay(messages)

\* The frame was drawn of the series and providers that there are.
IsDrawnOf(drawn, a) ==
  \E b : /\ b.series = a.series /\ b.providers = a.providers
         /\ drawn = [plot \in Picturing!Plots |-> Frame(b, plot, Width, Height)]

\* The inductive invariant: the App's series are its log's latest, its providers
\* those of samples sent, and the frame is drawn of it.
IInv ==
  /\ position \in Nat
  /\ IsSequence(channel) /\ IsSequence(delivered)
  /\ IsApp(app)
  /\ SeriesAreLogged(app, kept)
  /\ ProvidersHeard(app, delivered, channel)
  /\ IsDrawnOf(frame, app)

\* The first session and the first frame are of nothing recorded.
LEMMA InitIInv == Init => IInv
<1>. SUFFICES ASSUME Init PROVE IInv
  OBVIOUS
<1>1. position \in Nat
  BY DEF Init
<1>2. IsSequence(channel) /\ IsSequence(delivered) /\ Range(delivered) = {}
  BY EmptySequence DEF Init
<1>. DEFINE paused == FALSE
            rate == Min(Intervals)
            a == [series |-> <<>>, providers |-> {}, paused |-> paused, status |-> "Connecting",
                  samples_seen |-> 0, last_sample_at |-> -1, interval |-> rate]
<1>3. app = a
  BY DEF Init, NewCounters
<1>. HIDE DEF paused, rate
<1>4. IsApp(a) /\ a.series = <<>>
  BY DEF IsApp
<1>. HIDE DEF a
<1>5. SeriesAreLogged(app, kept)
  <2>1. kept = <<>> /\ DOMAIN kept = {}
    BY DEF Init
  <2>. QED  BY <1>3, <1>4, <2>1 DEF SeriesAreLogged
<1>6. ProvidersHeard(app, delivered, channel)
  BY <1>2 DEF ProvidersHeard
<1>7. IsDrawnOf(frame, app)
  BY DEF IsDrawnOf, Init
<1>. QED  BY <1>1, <1>2, <1>3, <1>4, <1>5, <1>6, <1>7 DEF IInv

\* What an App keeps when something else of it changes.
Keeps(a, b) == IsApp(b) /\ b.series = a.series /\ b.providers = a.providers

\* A frame stays true of an App that keeps its series and providers.
LEMMA KeepsFrame ==
  ASSUME NEW drawn, NEW a, NEW b, Keeps(a, b), IsDrawnOf(drawn, a)
  PROVE  IsDrawnOf(drawn, b)
BY DEF Keeps, IsDrawnOf

\* The end of a session leaves the series alone,
LEMMA StatusKeeps ==
  ASSUME NEW a, IsApp(a), NEW failed
  PROVE  Keeps(a, RecordEnd(a, failed))
BY DEF IsApp, Keeps, RecordEnd

\* a change of the rate does,
LEMMA IntervalKeeps ==
  ASSUME NEW a, IsApp(a), NEW rate
  PROVE  Keeps(a, ApplyInterval(a, rate))
BY DEF IsApp, Keeps, ApplyInterval

\* and a pause does.
LEMMA PauseKeeps ==
  ASSUME NEW a, IsApp(a)
  PROVE  Keeps(a, [a EXCEPT !.paused = ~@])
<1>. DEFINE no == ~a.paused
            b == [a EXCEPT !.paused = no]
<1>. HIDE DEF no
<1>1. Keeps(a, b)
  BY DEF IsApp, Keeps
<1>. QED  BY <1>1 DEF no

\* A sample recorded adds its provider; paused, that is all that anyone sees of it.
LEMMA SampleRecorded ==
  ASSUME NEW a, IsApp(a), NEW sample, NEW at
  PROVE  LET b == RecordSample(a, sample, at)
         IN /\ IsApp(b) /\ b.status = "Live"
            /\ b.providers = a.providers \cup {sample.provider}
            /\ b.series = IF a.paused THEN a.series
                          ELSE Put(a.series, KeyOf(sample),
                                   Push(SeriesOf(a, KeyOf(sample)), sample, at))
<1>. DEFINE seen == a.samples_seen + 1
            heard == a.providers \cup {sample.provider}
            h == [a EXCEPT !.status = "Live", !.samples_seen = seen, !.last_sample_at = at,
                           !.providers = heard]
            pushed == Put(a.series, KeyOf(sample),
                          Push(SeriesOf(a, KeyOf(sample)), sample, at))
            b == RecordSample(a, sample, at)
<1>1. h = [series |-> a.series, providers |-> heard, paused |-> a.paused, status |-> "Live",
           samples_seen |-> seen, last_sample_at |-> at, interval |-> a.interval]
  <2>. HIDE DEF heard, seen
  <2>1. PICK series, providers, paused, status, samples, last, interval :
          a = [series |-> series, providers |-> providers, paused |-> paused,
               status |-> status, samples_seen |-> samples, last_sample_at |-> last,
               interval |-> interval]
    BY DEF IsApp
  <2>2. a.series = series /\ a.paused = paused /\ a.interval = interval
    BY <2>1
  <2>. DEFINE h1 == [a EXCEPT !.status = "Live"]
              h2 == [h1 EXCEPT !.samples_seen = seen]
              h3 == [h2 EXCEPT !.last_sample_at = at]
              h4 == [h3 EXCEPT !.providers = heard]
              with(new, count, when, who) ==
                [series |-> series, providers |-> who, paused |-> paused, status |-> new,
                 samples_seen |-> count, last_sample_at |-> when, interval |-> interval]
  <2>3. h = h4
    OBVIOUS
  <2>4. h1 = with("Live", samples, last, providers)
    BY <2>1
  <2>. HIDE DEF h, h1
  <2>5. h2 = with("Live", seen, last, providers)
    BY <2>4
  <2>. HIDE DEF h2
  <2>6. h3 = with("Live", seen, at, providers)
    BY <2>5
  <2>. HIDE DEF h3
  <2>7. h4 = with("Live", seen, at, heard)
    BY <2>6
  <2>. HIDE DEF h4
  <2>. QED  BY <2>2, <2>3, <2>7
<1>2. b = IF a.paused THEN h ELSE [h EXCEPT !.series = pushed]
  <2>1. h.series = a.series
    <3>. HIDE DEF h, heard, seen
    <3>. QED  BY <1>1
  <2>. QED  BY <2>1 DEF RecordSample
<1>. HIDE DEF h, heard, seen, pushed, b
<1>3. IsApp(h) /\ h.series = a.series /\ h.providers = heard /\ h.status = "Live"
  BY <1>1 DEF IsApp
<1>4. LET g == [h EXCEPT !.series = pushed]
      IN IsApp(g) /\ g.series = pushed /\ g.providers = heard /\ g.status = "Live"
  BY <1>1 DEF IsApp
<1>. QED  BY <1>2, <1>3, <1>4 DEF heard, pushed, b

\* A series before its counter is heard from is that of an empty log.
LEMMA NothingShown == Shown(Picturing!Recent(<<>>, HistoryCapacity)) = <<>>
<1>. DEFINE r == Picturing!Recent(<<>>, HistoryCapacity)
<1>1. Fitting(Len(<<>>), HistoryCapacity) = 0
  BY HistoryAssumption DEF Fitting
<1>2. LET m == Fitting(Len(<<>>), HistoryCapacity)
      IN r = [i \in 1 .. m |-> <<>>[Len(<<>>) - m + i]]
  BY EmptySequence, HistoryAssumption, RecentOf
<1>3. DOMAIN r = {}
  <2>. HIDE DEF r
  <2>. QED  BY <1>1, <1>2
<1>4. DOMAIN Shown(r) = {}
  <2>. HIDE DEF r
  <2>. QED  BY <1>3 DEF Shown
<1>5. Shown(r) = [i \in DOMAIN r |-> Shown(r)[i]]
  <2>. HIDE DEF r
  <2>. QED  BY DEF Shown
<1>6. Shown(r) = <<>>
  <2>1. \A f : DOMAIN f = {} /\ f = [i \in {} |-> f[i]] => f = <<>>
    OBVIOUS
  <2>. HIDE DEF r
  <2>. QED  BY <1>3, <1>4, <1>5, <2>1
<1>. QED  BY <1>6

\* A log with one more reading.
LogWith(logs, key, entry) ==
  Put(logs, key, Append(IF key \in DOMAIN logs THEN logs[key] ELSE <<>>, entry))

\* Recording and logging a sample keep all the series what the logs say.
LEMMA RecordLogs ==
  ASSUME NEW a, NEW logs, SeriesAreLogged(a, logs), NEW sample, NEW at, NEW poll, NEW b,
         b.series = Put(a.series, KeyOf(sample), Push(SeriesOf(a, KeyOf(sample)), sample, at))
  PROVE  SeriesAreLogged(b, LogWith(logs, KeyOf(sample),
                                    [at |-> at, value |-> sample.value, poll |-> poll]))
<1>. DEFINE key == KeyOf(sample)
            log == IF key \in DOMAIN logs THEN logs[key] ELSE <<>>
            series == SeriesOf(a, key)
            pushed == Push(series, sample, at)
            entry == [at |-> at, value |-> sample.value, poll |-> poll]
            logs2 == LogWith(logs, key, entry)
<1>1. IsSequence(log) /\ series.history = Shown(Picturing!Recent(log, HistoryCapacity))
  <2>. HIDE DEF key
  <2>1. CASE key \in DOMAIN logs
    BY <2>1 DEF SeriesAreLogged, IsLogged, SeriesOf
  <2>2. CASE key \notin DOMAIN logs
    <3>1. series = NoSeries /\ log = <<>>
      BY <2>2 DEF SeriesAreLogged, SeriesOf
    <3>. HIDE DEF series, log
    <3>. QED  BY <3>1, NothingShown, EmptySequence DEF NoSeries
  <2>. QED  BY <2>1, <2>2
<1>2. IsLogged(pushed, Append(log, entry), key)
  <2>. HIDE DEF log, series
  <2>. QED  BY <1>1, PushIsLogged
<1>. HIDE DEF key, series, pushed, entry
<1>3. b.series = Put(a.series, key, pushed)
  BY DEF key, series, pushed
<1>4. logs2 = Put(logs, key, Append(log, entry))
  BY DEF LogWith
<1>. HIDE DEF log, logs2
<1>5. DOMAIN b.series = DOMAIN a.series \cup {key} /\ DOMAIN logs2 = DOMAIN logs \cup {key}
  BY <1>3, <1>4 DEF Put
<1>6. DOMAIN b.series = DOMAIN logs2
  BY <1>5 DEF SeriesAreLogged
<1>7. ASSUME NEW k \in DOMAIN logs2 PROVE IsLogged(b.series[k], logs2[k], k)
  <2>1. CASE k = key
    <3>1. b.series[k] = pushed /\ logs2[k] = Append(log, entry)
      BY <1>3, <1>4, <2>1 DEF Put
    <3>. QED  BY <1>2, <2>1, <3>1
  <2>2. CASE k # key
    <3>1. k \in DOMAIN logs
      BY <1>5, <2>2
    <3>2. b.series[k] = a.series[k] /\ logs2[k] = logs[k]
      BY <1>3, <1>4, <2>2, <3>1 DEF Put, SeriesAreLogged
    <3>. QED  BY <3>1, <3>2 DEF SeriesAreLogged
  <2>. QED  BY <2>1, <2>2
<1>. QED  BY <1>6, <1>7 DEF SeriesAreLogged, logs2, key, entry

----------------------------------------------------------------------------
(* Each step keeps the invariant.                                          *)

\* Nothing in the invariant changes.
LEMMA NothingChanges ==
  ASSUME IInv, UNCHANGED <<position, reader, app, kept, frame>>
  PROVE  IInv'
BY DEF IInv, reader

\* What is said of providers goes for more messages, and an App that has heard more.
LEMMA ProvidersStayHeard ==
  ASSUME NEW a, NEW sent, NEW messages, ProvidersHeard(a, sent, messages),
         NEW b, a.providers \subseteq b.providers,
         NEW more, Range(messages) \subseteq Range(more)
  PROVE  ProvidersHeard(b, sent, more)
BY DEF ProvidersHeard, OnTheirWay

\* An end is one message more.
LEMMA EndTold ==
  ASSUME IInv, NEW failed, End(failed), UNCHANGED <<delivered, app, kept, frame>>,
         position' \in Nat
  PROVE  IInv'
<1>. DEFINE m == SessionEnded(failed)
<1>1. channel' = Append(channel, m)
  BY DEF End
<1>2. IsSequence(channel') /\ Range(channel) \subseteq Range(channel')
  <2>. HIDE DEF m
  <2>1. IsSequence(Append(channel, m)) /\ Range(Append(channel, m)) = Range(channel) \cup {m}
    BY AppendSequence DEF IInv
  <2>. QED  BY <1>1, <2>1
<1>3. ProvidersHeard(app, delivered, channel')
  BY <1>2, ProvidersStayHeard DEF IInv
<1>. QED  BY <1>2, <1>3 DEF IInv

\* The reader reads the preamble, or ends.
LEMMA ReadPreambleKeeps == IInv /\ ReadPreamble => IInv'
<1>. SUFFICES ASSUME IInv, ReadPreamble PROVE IInv'
  OBVIOUS
<1>1. CASE End(TRUE) /\ UNCHANGED <<wire, position>>
  <2>1. position' \in Nat
    BY <1>1 DEF IInv
  <2>. QED  BY <1>1, <2>1, EndTold DEF ReadPreamble
<1>2. CASE position' = Len(Preamble) /\ UNCHANGED <<result, channel>>
  <2>1. Len(Preamble) \in Nat
    BY DEF Preamble
  <2>. QED  BY <1>2, <2>1 DEF ReadPreamble, IInv
<1>. QED  BY <1>1, <1>2 DEF ReadPreamble

\* The samples delivered are on their way.
LEMMA DeliverKeeps ==
  ASSUME IInv, NEW known, NEW rows, IsSequence(rows), Deliver(SamplesOf(known, rows)),
         UNCHANGED <<app, kept, frame>>, position' \in Nat
  PROVE  IInv'
<1>. DEFINE found == SamplesOf(known, rows).samples
            sent == [i \in DOMAIN found |-> Sample(found[i])]
            end == IF SamplesOf(known, rows).ok THEN <<>> ELSE <<SessionEnded(TRUE)>>
            n == Len(found)
<1>1. IsSequence(found) /\ n \in Nat /\ DOMAIN found = 1 .. n
  <2>1. IsSequence(found)
    BY SamplesAreASequence
  <2>. HIDE DEF found
  <2>. QED  BY <2>1 DEF IsSequence
<1>2. delivered' = delivered \o found /\ channel' = channel \o sent \o end
  BY DEF Deliver
<1>. HIDE DEF found
<1>3. IsSequence(sent)
  <2>1. sent = [i \in 1 .. n |-> sent[i]]
    BY <1>1
  <2>. HIDE DEF sent, n
  <2>. QED  BY <1>1, <2>1, NumberedSequence
<1>4. IsSequence(end)
  <2>1. IsSequence(<<>>)
    BY EmptySequence
  <2>2. IsSequence(<<SessionEnded(TRUE)>>)
    <3>. DEFINE m == SessionEnded(TRUE)
    <3>. HIDE DEF m
    <3>1. <<m>> \in Seq({m})
      OBVIOUS
    <3>. QED  BY <3>1, SequenceOver DEF m
  <2>. QED  BY <2>1, <2>2
<1>5. \A i \in DOMAIN found : sent[i] = Sample(found[i]) /\ i \in DOMAIN sent
  OBVIOUS
<1>. HIDE DEF sent, end
<1>6. IsSequence(delivered') /\ Range(delivered') = Range(delivered) \cup Range(found)
  BY <1>1, <1>2, ConcatSequence DEF IInv
<1>7. /\ IsSequence(channel')
      /\ Range(channel) \subseteq Range(channel') /\ Range(sent) \subseteq Range(channel')
  <2>. DEFINE c == channel \o sent
  <2>1. IsSequence(c) /\ Range(c) = Range(channel) \cup Range(sent)
    BY <1>3, ConcatSequence DEF IInv
  <2>. HIDE DEF c
  <2>2. IsSequence(c \o end) /\ Range(c \o end) = Range(c) \cup Range(end)
    BY <1>4, <2>1, ConcatSequence
  <2>. QED  BY <1>2, <2>1, <2>2 DEF c
<1>8. ASSUME NEW s \in Range(found) PROVE s.provider \in OnTheirWay(channel')
  <2>1. PICK i \in DOMAIN found : s = found[i]
    BY DEF Range
  <2>2. sent[i] \in Range(channel')
    BY <1>5, <1>7, <2>1 DEF Range
  <2>3. sent[i] = Sample(s)
    BY <1>5, <2>1
  <2>4. Sample(s).kind = "Sample" /\ Sample(s).sample = s
    BY DEF Sample
  <2>. QED  BY <2>2, <2>3, <2>4 DEF OnTheirWay
<1>9. ProvidersHeard(app, delivered, channel')
  BY <1>7, ProvidersStayHeard DEF IInv
<1>10. ProvidersHeard(app', delivered', channel')
  BY <1>6, <1>8, <1>9 DEF ProvidersHeard
<1>. QED  BY <1>6, <1>7, <1>10 DEF IInv

\* The reader sends the samples of an object.
LEMMA ReadObjectKeeps == IInv /\ ReadObject => IInv'
<1>. SUFFICES ASSUME IInv, ReadObject PROVE IInv'
  OBVIOUS
<1>. DEFINE object == NextObject(wire, position)
<1>1. IsObject(object)
  BY NextObjectIsObject DEF IInv
<1>2. Take(object) /\ UNCHANGED <<app, kept, frame>>
  BY DEF ReadObject
<1>. HIDE DEF object
<1>3. position' \in Nat
  BY <1>1, <1>2 DEF Take, IsObject, IInv
<1>4. CASE object.type \in {"Malformed", "End"}
  <2>1. PICK failed : End(failed) /\ UNCHANGED <<store, delivered>>
    BY <1>2, <1>4 DEF Take
  <2>. QED  BY <1>2, <1>3, <2>1, EndTold
<1>5. CASE object.type = "Skipped"
  <2>1. UNCHANGED <<channel, delivered>>
    BY <1>2, <1>5 DEF Take, reader
  <2>. QED  BY <1>2, <1>3, <2>1 DEF IInv
<1>6. CASE object.type = "MetadataBlock"
  <2>1. PICK records : StoreRecords(records)
    BY <1>2, <1>6 DEF Take
  <2>2. CASE UNCHANGED <<result, channel, delivered>>
    BY <1>2, <1>3, <2>2 DEF IInv
  <2>3. CASE End(TRUE) /\ UNCHANGED <<store, delivered>>
    BY <1>2, <1>3, <2>3, EndTold
  <2>. QED  BY <2>1, <2>2, <2>3 DEF StoreRecords
<1>7. CASE object.type = "EventBlock"
  <2>1. Deliver(SamplesOf(store, object.rows))
    BY <1>2, <1>7 DEF Take
  <2>2. IsSequence(object.rows)
    BY <1>1 DEF IsObject
  <2>. QED  BY <1>2, <1>3, <2>1, <2>2, DeliverKeeps
<1>. QED  BY <1>1, <1>4, <1>5, <1>6, <1>7 DEF IsObject

\* The message recorded leaves the channel; what its sample was is in the App.
LEMMA RecordKeeps == IInv /\ Record => IInv'
<1>. SUFFICES ASSUME IInv, Record PROVE IInv'
  OBVIOUS
<1>. DEFINE message == Head(channel)
            sample == message.sample
<1>1. /\ channel # <<>> /\ channel' = Tail(channel)
      /\ UNCHANGED <<position, delivered>>
      /\ frame' = [plot \in Picturing!Plots |-> Frame(app', plot, Width, Height)]
  BY DEF Record, stream
<1>2. IsSequence(channel') /\ Range(channel) = {message} \cup Range(channel')
  BY <1>1, TailSequence DEF IInv
<1>3. IsDrawnOf(frame', app')
  BY <1>1 DEF IsDrawnOf
<1>4. CASE message.kind = "SessionEnded"
  <2>1. app' = RecordEnd(app, message.failed) /\ kept' = kept
    BY <1>4 DEF Record
  <2>2. Keeps(app, app')
    BY <2>1, StatusKeeps DEF IInv
  <2>3. IsApp(app') /\ SeriesAreLogged(app', kept')
    BY <2>1, <2>2 DEF Keeps, SeriesAreLogged, IInv
  <2>4. ProvidersHeard(app', delivered', channel')
    <3>1. OnTheirWay(channel) = OnTheirWay(channel')
      BY <1>2, <1>4 DEF OnTheirWay
    <3>. QED  BY <1>1, <2>2, <3>1 DEF Keeps, ProvidersHeard, IInv
  <2>. QED  BY <1>1, <1>2, <1>3, <2>3, <2>4 DEF IInv
<1>5. CASE message.kind # "SessionEnded"
  <2>1. app' = RecordSample(app, sample, now) /\ kept' = IF app.paused THEN kept ELSE Log(message)
    BY <1>5 DEF Record
  <2>2. /\ IsApp(app')
        /\ app'.providers = app.providers \cup {sample.provider}
        /\ app'.series = IF app.paused THEN app.series
                         ELSE Put(app.series, KeyOf(sample),
                                  Push(SeriesOf(app, KeyOf(sample)), sample, now))
    <3>. HIDE DEF sample
    <3>. QED  BY <2>1, SampleRecorded DEF IInv
  <2>3. SeriesAreLogged(app', kept')
    <3>1. CASE app.paused
      BY <2>1, <2>2, <3>1 DEF SeriesAreLogged, IInv
    <3>2. CASE ~app.paused
      <4>1. kept' = LogWith(kept, KeyOf(sample),
                            [at |-> now, value |-> sample.value, poll |-> message.poll])
        BY <2>1, <3>2 DEF Log, LogWith, KeptOf
      <4>2. app'.series = Put(app.series, KeyOf(sample),
                              Push(SeriesOf(app, KeyOf(sample)), sample, now))
        BY <2>2, <3>2
      <4>. DEFINE poll == message.poll
      <4>. HIDE DEF sample, message, poll
      <4>3. kept' = LogWith(kept, KeyOf(sample),
                            [at |-> now, value |-> sample.value, poll |-> poll])
        BY <4>1 DEF poll
      <4>. QED  BY <4>2, <4>3, RecordLogs DEF IInv
    <3>. QED  BY <3>1, <3>2
  <2>4. ProvidersHeard(app', delivered', channel')
    <3>1. OnTheirWay(channel) \subseteq {sample.provider} \cup OnTheirWay(channel')
      BY <1>2 DEF OnTheirWay
    <3>. HIDE DEF sample
    <3>. QED  BY <1>1, <2>2, <3>1 DEF ProvidersHeard, IInv
  <2>. QED  BY <1>1, <1>2, <1>3, <2>2, <2>3, <2>4 DEF IInv
<1>. QED  BY <1>4, <1>5

\* An App that keeps its series and providers keeps all that is said of them.
LEMMA AppKeeps ==
  ASSUME IInv, Keeps(app, app'), UNCHANGED <<kept, frame>>,
         position' \in Nat, IsSequence(channel'), IsSequence(delivered'),
         ProvidersHeard(app, delivered', channel')
  PROVE  IInv'
<1>1. SeriesAreLogged(app', kept') /\ ProvidersHeard(app', delivered', channel')
  BY DEF Keeps, SeriesAreLogged, ProvidersHeard, IInv
<1>2. IsDrawnOf(frame', app')
  BY KeepsFrame DEF IInv
<1>. QED  BY <1>1, <1>2 DEF Keeps, IInv

\* The user pauses or resumes.
LEMMA PauseStepKeeps == IInv /\ Pause => IInv'
<1>. SUFFICES ASSUME IInv, Pause PROVE IInv'
  OBVIOUS
<1>1. app' = [app EXCEPT !.paused = ~@] /\ UNCHANGED <<position, channel, delivered, kept, frame>>
  BY DEF Pause, stream, reader
<1>2. Keeps(app, app')
  BY <1>1, PauseKeeps DEF IInv
<1>. QED  BY <1>1, <1>2, AppKeeps DEF IInv

\* The user changes the rate, and with it the session.
LEMMA ChangeRateKeeps == IInv /\ ChangeRate => IInv'
<1>. SUFFICES ASSUME IInv, ChangeRate PROVE IInv'
  OBVIOUS
<1>1. /\ \E interval : app' = ApplyInterval(app, interval)
      /\ position' = 0 /\ delivered' = <<>> /\ UNCHANGED <<channel, kept, frame>>
  BY DEF ChangeRate
<1>2. Keeps(app, app')
  BY <1>1, IntervalKeeps DEF IInv
<1>3. IsSequence(delivered') /\ ProvidersHeard(app, delivered', channel')
  BY <1>1, EmptySequence DEF ProvidersHeard
<1>. QED  BY <1>1, <1>2, <1>3, AppKeeps DEF IInv

\* The invariant is inductive.
LEMMA StepKeeps == IInv /\ [Next]_vars => IInv'
<1>. SUFFICES ASSUME IInv, [Next]_vars PROVE IInv'
  OBVIOUS
<1>1. CASE WritePoll \/ Finish \/ Exit \/ UNCHANGED vars
  <2>1. UNCHANGED <<position, reader, app, kept, frame>>
    BY <1>1 DEF WritePoll, Finish, Exit, vars, stream
  <2>. QED  BY <2>1, NothingChanges
<1>2. CASE ReadPreamble \/ ReadObject
  BY <1>2, ReadPreambleKeeps, ReadObjectKeeps
<1>3. CASE Record \/ Pause \/ ChangeRate
  BY <1>3, RecordKeeps, PauseStepKeeps, ChangeRateKeeps
<1>. QED  BY <1>1, <1>2, <1>3 DEF Next

\* What is kept of the samples, and what is drawn of that, at every step.
THEOREM Invariant == Spec => []IInv
BY InitIInv, StepKeeps, PTL DEF Spec

----------------------------------------------------------------------------
(* The stream as the reader finds it.                                      *)

\* The pieces of the plan that are left are on the wire, each where it is to come,
\* and then the end.
IsWhole(w, at, state, n, k, plan, pieces) ==
  LET tail == IF state = "stopped" THEN 1 ELSE 0
  IN /\ Len(w) = (plan[n].position - at) + tail
     /\ state = "stopped" => w[Len(w)] = NullReference
     /\ \A i \in k + 1 .. n : Lies(pieces[i], w, plan[i - 1].position - at)

\* Or what is left breaks off somewhere in the next of them.
IsCut(w, n, k, pieces) ==
  w = <<>> \/ (k < n /\ Agree(pieces[k + 1], w) /\ Len(w) <= Len(pieces[k + 1]))

\* The reader is k pieces into what the runtime has written.
IsAhead(n, k, plan, pieces) ==
  /\ IsPlan(n, plan, pieces) /\ k \in 0 .. n
  /\ plan[k].position = position /\ plan[k].store = store /\ plan[k].told = delivered
  /\ plan[n].told = reported
  /\ session.state = "streaming" => \A e \in announced : Knows(plan[n].store, e)
  /\ session.state \in {"streaming", "stopped"} =>
       IsWhole(wire, position, session.state, n, k, plan, pieces)
  /\ session.state = "exited" => IsCut(wire, n, k, pieces)

Ahead ==
  position > 0 /\ result = "Running" => \E n, k, plan, pieces : IsAhead(n, k, plan, pieces)

\* Before the first read there is the opening, or as much of it as there will be.
Fresh ==
  position = 0 =>
    /\ session.state # "stopped" /\ store = NewStore /\ announced = {}
    /\ delivered = <<>> /\ reported = <<>>
    /\ Agree(Opening, wire) /\ Len(wire) <= Len(Opening)
    /\ session.state = "streaming" => Len(wire) = Len(Opening)

\* What is sent is the beginning of what is reported, and all of it at an end.
Told ==
  /\ AreSamples(reported) /\ AreSamples(delivered) /\ Extends(delivered, reported)
  /\ result = "Ended" => session.state = "stopped" /\ delivered = reported
  /\ result = "Failed" => session.state = "exited"

Sessions == [number : 1 .. MaxSessions, state : {"streaming", "stopped", "exited"}]
Typed ==
  /\ session \in Sessions
  /\ announced \subseteq DOMAIN Events
  /\ position \in Nat /\ wire \in Seq(Nat)
  /\ DOMAIN store \subseteq DOMAIN Events
  /\ result \in {"Running", "Ended", "Failed"}
  /\ polls \in 0 .. Len(Polls)

\* The inductive invariant of the stream.
SInv == Typed /\ Told /\ Fresh /\ Ahead

\* What a session's stream begins with.
LEMMA OpeningIs ==
  /\ Preamble \in Seq(Nat) /\ Len(Preamble) = 3
  /\ WrittenTrace \in Seq(Nat) /\ Len(WrittenTrace) = 16
  /\ Opening \in Seq(Nat) /\ Len(Opening) = 19
  /\ \A i \in 1 .. 3 : Opening[i] = Preamble[i]
  /\ \A i \in 1 .. 16 : Opening[3 + i] = WrittenTrace[i]
<1>1. Preamble \in Seq(Nat) /\ Len(Preamble) = 3
  <2>1. Cell("Nettrace") \in Nat /\ Cell("!FastSerialization.1") \in Nat
    BY StreamAssumption, TextReadsBack
  <2>. QED  BY <2>1 DEF Preamble
<1>2. WrittenTrace \in Seq(Nat) /\ Len(WrittenTrace) = 16
  BY TraceIsLong
<1>. DEFINE p == Preamble
            t == WrittenTrace
            o == p \o t
<1>3. o \in Seq(Nat) /\ Len(o) = Len(p) + Len(t)
  <2>. HIDE DEF p, t
  <2>. QED  BY <1>1, <1>2, ConcatProperties DEF p, t
<1>4. Lies(p, o, 0) /\ Lies(t, o, Len(p))
  <2>1. p \in Seq(Nat) /\ t \in Seq(Nat)
    BY <1>1, <1>2
  <2>. HIDE DEF p, t
  <2>. QED  BY <2>1, LiesBetween
<1>5. Opening = o
  BY DEF Opening
<1>. HIDE DEF o
<1>6. \A i \in 1 .. 3 : o[0 + i] = p[i] /\ 0 + i = i
  BY <1>1, <1>4 DEF Lies
<1>7. \A i \in 1 .. 16 : o[3 + i] = t[i]
  BY <1>1, <1>2, <1>4 DEF Lies
<1>. QED  BY <1>1, <1>2, <1>3, <1>5, <1>6, <1>7

\* Cells agree with themselves.
LEMMA AgreesItself == \A s : Agree(s, s)
BY DEF Agree

\* Nothing told is the beginning of nothing.
LEMMA NothingTold == IsSequence(<<>>) /\ AreSamples(<<>>) /\ Extends(<<>>, <<>>)
<1>1. IsSequence(<<>>) /\ Range(<<>>) = {}
  BY EmptySequence
<1>. QED  BY <1>1, ExtendsItself DEF AreSamples

\* So it is at the start of a session,
LEMMA InitSInv == Init => SInv
<1>. SUFFICES ASSUME Init PROVE SInv
  OBVIOUS
<1>1. Typed
  <2>1. session \in Sessions
    BY ReadingsAssumption DEF Init, Sessions
  <2>2. wire \in Seq(Nat) /\ position \in Nat
    BY OpeningIs DEF Init
  <2>3. DOMAIN store = {}
    BY DEF Init, NewStore
  <2>4. polls \in 0 .. Len(Polls)
    BY LenProperties, StreamAssumption DEF Init
  <2>. QED  BY <2>1, <2>2, <2>3, <2>4 DEF Typed, Init
<1>2. Told
  <2>1. reported = <<>> /\ delivered = <<>> /\ result = "Running"
    BY DEF Init
  <2>. QED  BY <2>1, NothingTold DEF Told
<1>3. Fresh
  <2>1. Agree(Opening, wire) /\ Len(wire) <= Len(Opening) /\ Len(wire) = Len(Opening)
    <3>1. wire = Opening
      BY DEF Init
    <3>. QED  BY <3>1, AgreesItself, OpeningIs
  <2>2. session.state = "streaming"
    BY DEF Init
  <2>. QED  BY <2>1, <2>2 DEF Fresh, Init
<1>4. Ahead
  BY DEF Ahead, Init
<1>. QED  BY <1>1, <1>2, <1>3, <1>4 DEF SInv

\* and of the next one.
LEMMA ChangeRateGoesOn == SInv /\ ChangeRate => SInv'
<1>. SUFFICES ASSUME SInv, ChangeRate PROVE SInv'
  OBVIOUS
<1>1. /\ session.state = "streaming" /\ session.number < MaxSessions /\ result = "Running"
      /\ session' = [session EXCEPT !.number = @ + 1]
      /\ announced' = {} /\ wire' = Opening /\ position' = 0
      /\ store' = NewStore /\ reported' = <<>> /\ delivered' = <<>> /\ result' = result
      /\ polls' = polls
  BY DEF ChangeRate
<1>2. session' \in Sessions /\ session'.state = "streaming"
  <2>. DEFINE next == session.number + 1
  <2>1. session \in Sessions
    BY DEF SInv, Typed
  <2>2. next \in 1 .. MaxSessions
    BY <1>1, <2>1, ReadingsAssumption DEF Sessions
  <2>3. session' = [session EXCEPT !.number = next]
    BY <1>1
  <2>. HIDE DEF next
  <2>. QED  BY <1>1, <2>1, <2>2, <2>3 DEF Sessions
<1>3. Typed'
  <2>1. wire' \in Seq(Nat) /\ position' \in Nat
    BY <1>1, OpeningIs
  <2>2. DOMAIN store' = {}
    BY <1>1 DEF NewStore
  <2>. QED  BY <1>1, <1>2, <2>1, <2>2 DEF SInv, Typed
<1>4. Told'
  BY <1>1, NothingTold DEF Told
<1>5. Fresh'
  <2>1. Agree(Opening, wire') /\ Len(wire') <= Len(Opening) /\ Len(wire') = Len(Opening)
    BY <1>1, AgreesItself, OpeningIs
  <2>. QED  BY <1>1, <1>2, <2>1 DEF Fresh
<1>6. Ahead'
  BY <1>1 DEF Ahead
<1>. QED  BY <1>3, <1>4, <1>5, <1>6 DEF SInv

\* A step that leaves the stream alone,
LEMMA StreamUnchanged ==
  ASSUME SInv, UNCHANGED <<stream, store, result, delivered, reported, polls>>
  PROVE  SInv'
<1>1. UNCHANGED <<session, announced, wire, position, store, result, delivered, reported,
                 polls>>
  BY DEF stream
<1>2. Typed'
  BY <1>1 DEF SInv, Typed
<1>3. Told'
  BY <1>1 DEF SInv, Told
<1>4. Fresh'
  BY <1>1 DEF SInv, Fresh
<1>5. Ahead'
  <2>. SUFFICES ASSUME position > 0, result = "Running"
                PROVE  (\E n, k, plan, pieces : IsAhead(n, k, plan, pieces))'
    BY <1>1 DEF Ahead
  <2>1. PICK n, k, plan, pieces : IsAhead(n, k, plan, pieces)
    BY DEF SInv, Ahead
  <2>2. IsAhead(n, k, plan, pieces)'
    BY <1>1, <2>1 DEF IsAhead, Knows, IdOf
  <2>. QED  BY <2>2
<1>. QED  BY <1>2, <1>3, <1>4, <1>5 DEF SInv

\* While the session streams its reader runs,
LEMMA StreamingRuns ==
  ASSUME SInv, session.state = "streaming"
  PROVE  result = "Running"
BY DEF SInv, Typed, Told

\* and once it has read what there is it has told all, and knows what was announced.
LEMMA CaughtUp ==
  ASSUME SInv, session.state = "streaming", wire = <<>>, position > 0
  PROVE  delivered = reported /\ \A e \in announced : Knows(store, e)
<1>1. result = "Running"
  BY StreamingRuns
<1>2. PICK n, k, plan, pieces : IsAhead(n, k, plan, pieces)
  BY <1>1 DEF SInv, Ahead
<1>3. IsPlan(n, plan, pieces) /\ k \in 0 .. n /\ n \in Nat
  BY <1>2 DEF IsAhead, IsPlan
<1>4. n \in k .. n
  BY <1>3
<1>5. plan[n].position \in Nat /\ (k < n => plan[k].position < plan[n].position)
  BY <1>3, <1>4, PlanGoesOn
<1>6. plan[n].position = plan[k].position
  <2>1. IsWhole(wire, position, session.state, n, k, plan, pieces) /\ plan[k].position = position
    BY <1>2 DEF IsAhead
  <2>2. Len(wire) = 0
    BY EmptySeq
  <2>3. position \in Nat
    BY DEF SInv, Typed
  <2>. QED  BY <1>5, <2>1, <2>2, <2>3 DEF IsWhole
<1>7. k = n
  <2>1. ~(k < n)
    BY <1>5, <1>6
  <2>. QED  BY <1>3, <2>1
<1>. QED  BY <1>2, <1>7 DEF IsAhead

----------------------------------------------------------------------------
(* What the runtime does to the stream.                                    *)

\* All the pieces of a plan, one after another, are the whole of it.
LEMMA GrownIsWhole ==
  ASSUME NEW n \in Nat, NEW c, NEW pieces, IsGrowing(c, pieces, n), NEW at \in Nat,
         NEW plan, Follows(plan, at, c, n), NEW state, state # "stopped"
  PROVE  /\ plan[0].position = at /\ c[n] \in Seq(Nat)
         /\ IsWhole(c[n], at, state, n, 0, plan, pieces)
<1>1. AreIn(pieces, c, n)
  BY GrowingLies
<1>2. plan[0].position = at
  <2>1. Len(c[0]) = 0
    BY EmptySeq DEF IsGrowing
  <2>. QED  BY <2>1 DEF Follows
<1>3. c[n] \in Seq(Nat) /\ Len(c[n]) \in Nat
  BY <1>1, LenProperties DEF AreIn
<1>4. Len(c[n]) = (plan[n].position - at) + 0
  BY <1>3 DEF Follows
<1>5. ASSUME NEW i \in 0 + 1 .. n PROVE Lies(pieces[i], c[n], plan[i - 1].position - at)
  <2>1. i \in 1 .. n /\ i - 1 \in 0 .. n
    OBVIOUS
  <2>2. Lies(pieces[i], c[n], Len(c[i - 1])) /\ c[i - 1] \in Seq(Nat)
    BY <1>1, <2>1 DEF AreIn
  <2>3. plan[i - 1].position = at + Len(c[i - 1])
    BY <2>1 DEF Follows
  <2>4. Len(c[i - 1]) \in Nat
    BY <2>2, LenProperties
  <2>. DEFINE l == Len(c[i - 1])
  <2>5. (at + l) - at = l
    BY <2>4
  <2>. QED  BY <2>2, <2>3, <2>5
<1>6. IsWhole(c[n], at, state, n, 0, plan, pieces)
  BY <1>4, <1>5 DEF IsWhole
<1>. QED  BY <1>2, <1>3, <1>6

\* A poll is written where all before it has been read.
LEMMA WritePollGoesOn == SInv /\ WritePoll => SInv'
<1>. SUFFICES ASSUME SInv, WritePoll PROVE SInv'
  OBVIOUS
<1>1. /\ polls < Len(Polls) /\ polls' = polls + 1
      /\ session.state = "streaming" /\ wire = <<>> /\ position > 0
      /\ UNCHANGED <<session, position, store, result, delivered>>
  BY DEF WritePoll, reader
<1>2. PICK poll \in Polls[polls + 1] :
        /\ wire' = WrittenFrom(position, PollObjects(poll))
        /\ announced' = announced \cup Range(News(poll))
        /\ reported' = reported \o Meant(poll)
  BY DEF WritePoll
<1>3. polls \in Nat /\ Len(Polls) \in Nat /\ DOMAIN Polls = 1 .. Len(Polls)
  <2>1. Len(Polls) \in Nat /\ DOMAIN Polls = 1 .. Len(Polls)
    BY LenProperties, StreamAssumption
  <2>. QED  BY <2>1 DEF SInv, Typed
<1>4. poll \in UNION Range(Polls) /\ polls' \in 0 .. Len(Polls)
  <2>1. polls + 1 \in DOMAIN Polls /\ polls' \in 0 .. Len(Polls)
    BY <1>1, <1>3
  <2>2. Polls[polls + 1] \in Range(Polls)
    BY <2>1 DEF Range
  <2>. QED  BY <1>2, <2>1, <2>2
<1>5. /\ session \in Sessions /\ session.number \in Nat /\ announced \subseteq DOMAIN Events
      /\ position \in Nat /\ DOMAIN store \subseteq DOMAIN Events
      /\ result \in {"Running", "Ended", "Failed"}
      /\ AreSamples(delivered)
  <2>1. session \in Sessions
    BY DEF SInv, Typed
  <2>2. session.number \in Nat
    BY <2>1 DEF Sessions
  <2>. QED  BY <2>1, <2>2 DEF SInv, Typed, Told
<1>6. delivered = reported /\ (\A e \in announced : Knows(store, e)) /\ result = "Running"
  BY <1>1, CaughtUp, StreamingRuns
<1>7. PICK n, plan, pieces, c : IsPlanOf(poll, position, store, delivered, n, plan, pieces, c)
  BY <1>4, <1>5, <1>6, PollIsPlanned
<1>8. IsPlan(n, plan, pieces) /\ n \in Nat
  BY <1>7 DEF IsPlanOf, IsPlan
<1>9. /\ plan[0].position = position /\ wire' \in Seq(Nat)
      /\ IsWhole(wire', position, session.state, n, 0, plan, pieces)
  <2>1. IsGrowing(c, pieces, n) /\ Follows(plan, position, c, n) /\ wire' = c[n]
    BY <1>2, <1>7 DEF IsPlanOf
  <2>2. session.state # "stopped"
    BY <1>1
  <2>3. /\ plan[0].position = position /\ c[n] \in Seq(Nat)
        /\ IsWhole(c[n], position, session.state, n, 0, plan, pieces)
    BY <1>5, <1>8, <2>1, <2>2, GrownIsWhole
  <2>. QED  BY <2>1, <2>3
<1>10. /\ plan[0].store = store /\ plan[0].told = delivered /\ plan[n].told = reported'
       /\ \A e \in announced' : Knows(plan[n].store, e)
  BY <1>2, <1>6, <1>7 DEF IsPlanOf
<1>11. AreSamples(plan[n].told) /\ Extends(plan[0].told, plan[n].told)
  <2>1. 0 \in 0 .. n /\ n \in 0 .. n
    BY <1>8
  <2>2. AreSamples(plan[n].told)
    BY <1>8, <2>1, PlanGoesOn
  <2>3. \A j \in 0 .. n : Extends(plan[0].told, plan[j].told)
    BY <1>8, <2>1, PlanGoesOn
  <2>. QED  BY <2>1, <2>2, <2>3
<1>12. Typed'
  <2>1. announced' \subseteq DOMAIN Events
    <3>1. Range(News(poll)) \subseteq DOMAIN Events
      BY <1>4, <1>5, NewsAreKinds
    <3>. QED  BY <1>2, <1>5, <3>1
  <2>. QED  BY <1>1, <1>4, <1>5, <1>9, <2>1 DEF Typed
<1>13. Told'
  BY <1>1, <1>5, <1>6, <1>10, <1>11 DEF Told
<1>14. Fresh'
  BY <1>1 DEF Fresh
<1>15. Ahead'
  <2>1. \A e \in announced' : Knows(plan[n].store, e)'
    BY <1>1, <1>10 DEF Knows, IdOf
  <2>2. 0 \in 0 .. n /\ session.state # "exited"
    BY <1>1, <1>8
  <2>3. IsAhead(n, 0, plan, pieces)'
    BY <1>1, <1>8, <1>9, <1>10, <2>1, <2>2 DEF IsAhead
  <2>. QED  BY <2>3 DEF Ahead
<1>. QED  BY <1>12, <1>13, <1>14, <1>15 DEF SInv

\* A later piece of a plan comes further on.
LEMMA PieceIsLater ==
  ASSUME NEW n, NEW plan, NEW pieces, IsPlan(n, plan, pieces), NEW k \in 0 .. n,
         NEW i \in k + 1 .. n
  PROVE  /\ i \in 1 .. n /\ i - 1 \in k .. n /\ IsStage(plan[i - 1], pieces[i], plan[i])
         /\ pieces[i] \in Seq(Nat) /\ Len(pieces[i]) \in Nat
         /\ plan[k].position \in Nat /\ plan[i - 1].position - plan[k].position \in Nat
<1>1. n \in Nat /\ k \in Nat
  BY DEF IsPlan
<1>2. i \in 1 .. n /\ i - 1 \in k .. n /\ (k < i - 1 \/ k = i - 1)
  BY <1>1
<1>3. IsStage(plan[i - 1], pieces[i], plan[i])
  BY <1>2 DEF IsPlan
<1>4. pieces[i] \in Seq(Nat) /\ Len(pieces[i]) \in Nat
  BY <1>3, LenProperties DEF IsStage
<1>. DEFINE j == i - 1
            a == plan[k].position
            b == plan[j].position
<1>5. a \in Nat /\ b \in Nat /\ (k < j => a < b)
  <2>1. j \in k .. n
    BY <1>2
  <2>. HIDE DEF j
  <2>. QED  BY <2>1, PlanGoesOn
<1>6. b - a \in Nat
  <2>1. (k < j \/ k = j) /\ (k = j => a = b)
    BY <1>2
  <2>. HIDE DEF a, b, j
  <2>. QED  BY <1>5, <2>1
<1>. QED  BY <1>2, <1>3, <1>4, <1>5, <1>6

\* What lies in cells lies there with a cell more.
LEMMA LiesAppended ==
  ASSUME NEW c \in Seq(Nat), NEW x \in Nat, NEW s \in Seq(Nat), NEW at \in Nat, Lies(s, c, at)
  PROVE  Lies(s, Append(c, x), at)
<1>. DEFINE d == Append(c, x)
            l == Len(s)
            m == Len(c)
<1>1. l \in Nat /\ m \in Nat
  BY LenProperties
<1>2. Len(d) = m + 1 /\ \A k \in 1 .. m : d[k] = c[k]
  BY AppendProperties
<1>3. at + l <= m /\ \A k \in 1 .. l : c[at + k] = s[k]
  BY DEF Lies
<1>. HIDE DEF d, l, m
<1>4. at + l <= Len(d)
  BY <1>1, <1>2, <1>3
<1>5. ASSUME NEW k \in 1 .. l PROVE d[at + k] = s[k]
  <2>1. at + k \in 1 .. m
    BY <1>1, <1>3
  <2>. QED  BY <1>2, <1>3, <2>1
<1>6. Lies(s, d, at)
  BY <1>4, <1>5 DEF Lies, l
<1>. QED  BY <1>6 DEF d

\* The process ends the session in order.
LEMMA FinishGoesOn == SInv /\ Finish => SInv'
<1>. SUFFICES ASSUME SInv, Finish PROVE SInv'
  OBVIOUS
<1>1. /\ session.state = "streaming" /\ position > 0
      /\ session' = [session EXCEPT !.state = "stopped"]
      /\ wire' = Append(wire, NullReference)
      /\ UNCHANGED <<announced, position, store, result, delivered, reported, polls>>
  BY DEF Finish, reader
<1>2. session' \in Sessions /\ session'.state = "stopped"
  BY <1>1 DEF SInv, Typed, Sessions
<1>3. wire \in Seq(Nat) /\ NullReference \in Nat
  BY DEF SInv, Typed, NullReference
<1>4. wire' \in Seq(Nat) /\ Len(wire') = Len(wire) + 1 /\ Len(wire) \in Nat
      /\ wire'[Len(wire) + 1] = NullReference
  BY <1>1, <1>3, AppendProperties, LenProperties
<1>5. Typed'
  BY <1>1, <1>2, <1>4 DEF SInv, Typed
<1>6. result = "Running"
  BY <1>1, StreamingRuns
<1>7. Told'
  BY <1>1, <1>6 DEF SInv, Told
<1>8. Fresh'
  BY <1>1 DEF Fresh
<1>9. PICK n, k, plan, pieces : IsAhead(n, k, plan, pieces)
  BY <1>1, <1>6 DEF SInv, Ahead
<1>10. IsPlan(n, plan, pieces) /\ k \in 0 .. n /\ plan[k].position = position
  BY <1>9 DEF IsAhead
<1>11. IsWhole(wire, position, session.state, n, k, plan, pieces)
  BY <1>1, <1>9 DEF IsAhead
<1>12. IsWhole(wire', position, session'.state, n, k, plan, pieces)
  <2>1. Len(wire) = plan[n].position - position
    <3>1. Len(wire) = (plan[n].position - position) + 0
      BY <1>1, <1>11 DEF IsWhole
    <3>2. n \in k .. n
      BY <1>10 DEF IsPlan
    <3>3. plan[n].position \in Nat /\ position \in Nat
      BY <1>10, <3>2, PlanGoesOn
    <3>. QED  BY <3>1, <3>3
  <2>2. Len(wire') = (plan[n].position - position) + 1
    BY <1>4, <2>1
  <2>3. ASSUME NEW i \in k + 1 .. n PROVE Lies(pieces[i], wire', plan[i - 1].position - position)
    <3>1. Lies(pieces[i], wire, plan[i - 1].position - position)
      BY <1>11 DEF IsWhole
    <3>2. pieces[i] \in Seq(Nat) /\ plan[i - 1].position - position \in Nat
      BY <1>10, PieceIsLater
    <3>. QED  BY <1>1, <1>3, <3>1, <3>2, LiesAppended
  <2>. QED  BY <1>2, <1>4, <2>2, <2>3 DEF IsWhole
<1>13. Ahead'
  <2>1. IsAhead(n, k, plan, pieces)'
    BY <1>1, <1>2, <1>9, <1>12 DEF IsAhead
  <2>. QED  BY <2>1 DEF Ahead
<1>. QED  BY <1>5, <1>7, <1>8, <1>13 DEF SInv

\* The next piece is what the reader finds next,
LEMMA PieceIsNext ==
  ASSUME NEW n, NEW plan, NEW pieces, IsPlan(n, plan, pieces), NEW k \in 0 .. n, k < n,
         NEW w \in Seq(Nat), Agree(pieces[k + 1], w)
  PROVE  \E o : /\ o.at = Len(pieces[k + 1]) /\ Leads(o, plan[k], plan[k + 1])
                /\ NextObject(w, plan[k].position)
                     = IF Len(w) >= Len(pieces[k + 1]) THEN o ELSE Failed
<1>. DEFINE p == plan[k]
            q == plan[k + 1]
            piece == pieces[k + 1]
<1>1. k + 1 \in 1 .. n /\ (k + 1) - 1 = k
  BY DEF IsPlan
<1>2. IsStage(plan[(k + 1) - 1], pieces[k + 1], plan[k + 1])
  BY <1>1 DEF IsPlan
<1>3. IsStage(p, piece, q)
  BY <1>1, <1>2
<1>. HIDE DEF p, q
<1>4. PICK o : /\ o.at = Len(piece) /\ Leads(o, p, q)
               /\ \A v \in Seq(Nat) : Agree(piece, v) =>
                    NextObject(v, p.position) = IF Len(v) >= Len(piece) THEN o ELSE Failed
  BY <1>3 DEF IsStage
<1>5. NextObject(w, p.position) = IF Len(w) >= Len(piece) THEN o ELSE Failed
  BY <1>4
<1>. QED  BY <1>4, <1>5 DEF p, q

\* and lies where it is.
LEMMA PieceIsHere ==
  ASSUME NEW n, NEW plan, NEW pieces, IsPlan(n, plan, pieces), NEW k \in 0 .. n, k < n,
         NEW at, at = plan[k].position, NEW w \in Seq(Nat), NEW state,
         IsWhole(w, at, state, n, k, plan, pieces)
  PROVE  /\ pieces[k + 1] \in Seq(Nat) /\ Agree(pieces[k + 1], w)
         /\ Len(pieces[k + 1]) \in Nat /\ Len(w) \in Nat /\ Len(pieces[k + 1]) <= Len(w)
<1>1. k + 1 \in k + 1 .. n /\ (k + 1) - 1 = k
  BY DEF IsPlan
<1>2. pieces[k + 1] \in Seq(Nat) /\ Len(pieces[k + 1]) \in Nat /\ plan[k].position \in Nat
  BY <1>1, PieceIsLater
<1>3. Lies(pieces[k + 1], w, plan[(k + 1) - 1].position - at)
  BY <1>1 DEF IsWhole
<1>4. Lies(pieces[k + 1], w, 0)
  <2>1. plan[(k + 1) - 1].position - at = 0
    BY <1>1, <1>2
  <2>. QED  BY <1>3, <2>1
<1>5. Len(w) \in Nat
  BY LenProperties
<1>. QED  BY <1>2, <1>4, <1>5, LiesAgrees

\* What is further on, once l cells are gone.
LEMMA Further ==
  /\ \A a, b, l, m, t \in Nat : a + l <= b /\ m = (b - a) + t =>
       m - l = (b - (a + l)) + t /\ l + (m - l) = m /\ (t = 1 => m - l \in 1 .. m - l)
  /\ \A a, b, l \in Nat : b - (a + l) \in Nat =>
       b - a \in Nat /\ l <= b - a /\ (b - a) - l = b - (a + l)
OBVIOUS

\* What is left behind it is the rest of the plan.
LEMMA RestIsWhole ==
  ASSUME NEW n, NEW plan, NEW pieces, IsPlan(n, plan, pieces), NEW k \in 0 .. n, k < n,
         NEW w \in Seq(Nat), NEW state,
         IsWhole(w, plan[k].position, state, n, k, plan, pieces)
  PROVE  LET rest == SubSeq(w, Len(pieces[k + 1]) + 1, Len(w))
         IN /\ rest \in Seq(Nat)
            /\ plan[k + 1].position = plan[k].position + Len(pieces[k + 1])
            /\ IsWhole(rest, plan[k + 1].position, state, n, k + 1, plan, pieces)
<1>. DEFINE at == plan[k].position
            l == Len(pieces[k + 1])
            rest == SubSeq(w, l + 1, Len(w))
            last == plan[n].position
            m == Len(w)
            tail == IF state = "stopped" THEN 1 ELSE 0
<1>1. l \in Nat /\ m \in Nat /\ l <= m
  BY PieceIsHere
<1>2. n \in Nat /\ k \in Nat /\ k + 1 \in 0 .. n /\ k + 1 \in k + 1 .. n /\ (k + 1) - 1 = k
  BY DEF IsPlan
<1>3. at \in Nat /\ plan[k + 1].position = at + l
  <2>1. IsStage(plan[(k + 1) - 1], pieces[k + 1], plan[k + 1])
    BY <1>2, PieceIsLater
  <2>2. IsStage(plan[k], pieces[k + 1], plan[k + 1])
    BY <1>2, <2>1
  <2>. QED  BY <2>2 DEF IsStage
<1>4. rest \in Seq(Nat) /\ Len(rest) = m - l /\ \A j \in 1 .. m - l : rest[j] = w[l + j]
  BY <1>1, RestOf
<1>5. last \in Nat /\ at + l <= last
  <2>1. n \in k + 1 .. n
    BY <1>2
  <2>2. last \in Nat /\ (k + 1 < n => plan[k + 1].position < last)
    BY <1>2, <2>1, PlanGoesOn
  <2>3. k + 1 < n \/ k + 1 = n
    BY <1>2
  <2>4. k + 1 = n => plan[k + 1].position = last
    OBVIOUS
  <2>. HIDE DEF last
  <2>. QED  BY <1>1, <1>3, <2>2, <2>3, <2>4
<1>. HIDE DEF rest, last, m, at, l
<1>6. m = (last - at) + tail /\ tail \in Nat /\ (state = "stopped" => tail = 1)
  BY DEF IsWhole, last, m, at
<1>. HIDE DEF tail
<1>7. Len(rest) = (last - (at + l)) + tail
  <2>1. m - l = (last - (at + l)) + tail
    BY <1>1, <1>3, <1>5, <1>6, Further
  <2>. QED  BY <1>4, <2>1
<1>8. ASSUME state = "stopped" PROVE rest[Len(rest)] = NullReference
  <2>. DEFINE j == m - l
  <2>1. j \in 1 .. j /\ l + j = m
    <3>1. tail = 1
      BY <1>6, <1>8
    <3>. QED  BY <1>1, <1>3, <1>5, <1>6, <3>1, Further
  <2>2. w[m] = NullReference
    BY <1>8 DEF IsWhole, m
  <2>. HIDE DEF j
  <2>3. Len(rest) = j /\ rest[j] = w[l + j]
    BY <1>4, <2>1 DEF j
  <2>. QED  BY <1>4, <2>1, <2>2, <2>3
<1>9. ASSUME NEW i \in (k + 1) + 1 .. n
      PROVE  Lies(pieces[i], rest, plan[i - 1].position - (at + l))
  <2>1. i \in k + 1 .. n
    BY <1>2
  <2>2. pieces[i] \in Seq(Nat) /\ plan[i - 1].position - plan[k].position \in Nat
    BY <2>1, PieceIsLater
  <2>3. plan[i - 1].position - plan[k + 1].position \in Nat
    BY <1>2, PieceIsLater
  <2>4. Lies(pieces[i], w, plan[i - 1].position - at)
    BY <2>1 DEF IsWhole, at
  <2>. DEFINE d == plan[i - 1].position - at
              e == plan[i - 1].position - (at + l)
  <2>5. plan[i - 1].position \in Nat
    <3>1. i - 1 \in 0 .. n
      BY <1>2
    <3>2. i - 1 \in k .. n
      BY <1>2
    <3>. QED  BY <3>1, <3>2, PlanGoesOn
  <2>6. d \in Nat /\ l <= d /\ d - l = e
    <3>. DEFINE q == plan[i - 1].position
    <3>1. q \in Nat /\ q - at \in Nat /\ q - (at + l) \in Nat
      <4>1. q \in Nat /\ q - at \in Nat
        BY <2>2, <2>5 DEF at
      <4>2. q - plan[k + 1].position \in Nat
        BY <2>3
      <4>. QED  BY <1>3, <4>1, <4>2
    <3>. HIDE DEF q
    <3>2. q - at \in Nat /\ l <= q - at /\ (q - at) - l = q - (at + l)
      BY <1>1, <1>3, <3>1, Further
    <3>. QED  BY <3>2 DEF q
  <2>7. Lies(pieces[i], w, d)
    BY <2>4
  <2>. HIDE DEF d
  <2>8. Lies(pieces[i], rest, d - l)
    BY <1>1, <2>2, <2>6, <2>7, LiesLater DEF rest, m
  <2>. QED  BY <2>6, <2>8
<1>10. IsWhole(rest, at + l, state, n, k + 1, plan, pieces)
  BY <1>7, <1>8, <1>9 DEF IsWhole, last, tail
<1>11. IsWhole(rest, plan[k + 1].position, state, n, k + 1, plan, pieces)
  BY <1>3, <1>10
<1>. QED  BY <1>3, <1>4, <1>11 DEF rest, at, l

\* The process is gone, and the stream is cut in the next piece.
LEMMA ExitGoesOn == SInv /\ Exit => SInv'
<1>. SUFFICES ASSUME SInv, Exit PROVE SInv'
  OBVIOUS
<1>. DEFINE next == IF position = 0 THEN Len(wire) ELSE NextObject(wire, position).at
<1>1. /\ session.state = "streaming"
      /\ session' = [session EXCEPT !.state = "exited"]
      /\ UNCHANGED <<announced, position, store, result, delivered, reported, polls>>
  BY DEF Exit, reader
<1>2. PICK m \in 0 .. next : wire' = SubSeq(wire, 1, m)
  BY DEF Exit
<1>3. session' \in Sessions /\ session'.state = "exited"
  BY <1>1 DEF SInv, Typed, Sessions
<1>4. wire \in Seq(Nat) /\ Len(wire) \in Nat /\ position \in Nat
  BY LenProperties DEF SInv, Typed
<1>5. result = "Running"
  BY <1>1, StreamingRuns
<1>6. Told'
  BY <1>1, <1>3, <1>5 DEF SInv, Told
<1>7. CASE position = 0
  <2>1. m \in Nat /\ m <= Len(wire)
    BY <1>2, <1>4, <1>7
  <2>2. Agree(Opening, wire) /\ Len(wire) <= Len(Opening) /\ Len(Opening) \in Nat
    BY <1>7, OpeningIs DEF SInv, Fresh
  <2>3. Opening \in Seq(Nat)
    BY OpeningIs
  <2>4. wire' \in Seq(Nat) /\ Len(wire') = m /\ Agree(Opening, wire')
    BY <1>2, <1>4, <2>1, <2>2, <2>3, CutAgrees
  <2>5. Len(wire') <= Len(Opening)
    BY <1>4, <2>1, <2>2, <2>4
  <2>6. Typed'
    BY <1>1, <1>3, <2>4 DEF SInv, Typed
  <2>7. Fresh'
    BY <1>1, <1>3, <1>7, <2>4, <2>5 DEF SInv, Fresh
  <2>8. Ahead'
    BY <1>1, <1>7 DEF Ahead
  <2>. QED  BY <1>6, <2>6, <2>7, <2>8 DEF SInv
<1>8. CASE position > 0
  <2>1. PICK n, k, plan, pieces : IsAhead(n, k, plan, pieces)
    BY <1>5, <1>8 DEF SInv, Ahead
  <2>2. IsPlan(n, plan, pieces) /\ k \in 0 .. n /\ plan[k].position = position
    BY <2>1 DEF IsAhead
  <2>3. IsWhole(wire, position, session.state, n, k, plan, pieces)
    BY <1>1, <2>1 DEF IsAhead
  <2>4. next = NextObject(wire, position).at
    BY <1>4, <1>8
  <2>5. wire' \in Seq(Nat) /\ IsCut(wire', n, k, pieces)
    <3>1. CASE k < n
      <4>. DEFINE piece == pieces[k + 1]
      <4>1. /\ piece \in Seq(Nat) /\ Agree(piece, wire) /\ Len(piece) \in Nat
            /\ Len(piece) <= Len(wire)
        BY <1>4, <2>2, <2>3, <3>1, PieceIsHere
      <4>2. next = Len(piece)
        <5>1. PICK o : /\ o.at = Len(piece)
                       /\ NextObject(wire, plan[k].position)
                            = IF Len(wire) >= Len(piece) THEN o ELSE Failed
          BY <1>4, <2>2, <3>1, <4>1, PieceIsNext
        <5>. QED  BY <1>4, <2>2, <2>4, <4>1, <5>1
      <4>3. m \in Nat /\ m <= Len(piece) /\ m <= Len(wire)
        BY <1>2, <1>4, <4>1, <4>2
      <4>4. wire' \in Seq(Nat) /\ Len(wire') = m /\ Agree(piece, wire')
        BY <1>2, <1>4, <4>1, <4>3, CutAgrees
      <4>. QED  BY <3>1, <4>3, <4>4 DEF IsCut
    <3>2. CASE k = n
      <4>1. wire = <<>>
        <5>1. Len(wire) = (position - position) + 0
          BY <1>1, <2>2, <2>3, <3>2 DEF IsWhole
        <5>. QED  BY <1>4, <5>1, EmptySeq
      <4>2. next = 0
        BY <2>4, <4>1, EndReadsBack DEF Failed, Parsed
      <4>3. m = 0
        BY <1>2, <4>2
      <4>4. wire' = <<>>
        BY <1>2, <4>1, <4>3, SubSeqProperties, EmptySeq
      <4>5. <<>> \in Seq(Nat)
        OBVIOUS
      <4>. QED  BY <4>4, <4>5 DEF IsCut
    <3>. QED  BY <2>2, <3>1, <3>2 DEF IsPlan
  <2>6. Typed'
    BY <1>1, <1>3, <2>5 DEF SInv, Typed
  <2>7. Fresh'
    BY <1>1, <1>4, <1>8 DEF Fresh
  <2>8. Ahead'
    <3>1. IsAhead(n, k, plan, pieces)'
      BY <1>1, <1>3, <2>1, <2>5 DEF IsAhead
    <3>. QED  BY <3>1 DEF Ahead
  <2>. QED  BY <1>6, <2>6, <2>7, <2>8 DEF SInv
<1>. QED  BY <1>4, <1>7, <1>8

----------------------------------------------------------------------------
(* What the reader does.                                                   *)

\* The stream after its preamble, as planned: the trace object.
TracePlan ==
  [i \in 0 .. 1 |-> [position |-> IF i = 0 THEN 3 ELSE 19, store |-> NewStore, told |-> <<>>]]
TracePieces == [i \in 1 .. 1 |-> WrittenTrace]

\* It is one.
LEMMA TraceIsPlan ==
  /\ IsPlan(1, TracePlan, TracePieces) /\ TracePieces[1] = WrittenTrace
  /\ TracePlan[0].position = 3 /\ TracePlan[0].store = NewStore /\ TracePlan[0].told = <<>>
  /\ TracePlan[1].position = 19 /\ TracePlan[1].told = <<>>
<1>. DEFINE p == TracePlan[0]
            q == TracePlan[1]
<1>1. p = [position |-> 3, store |-> NewStore, told |-> <<>>]
  BY 0 \in 0 .. 1 DEF TracePlan
<1>2. q = [position |-> 19, store |-> NewStore, told |-> <<>>]
  BY 1 \in 0 .. 1 /\ 1 # 0 DEF TracePlan
<1>3. TracePieces[1] = WrittenTrace
  BY DEF TracePieces
<1>4. DOMAIN NewStore = {}
  BY DEF NewStore
<1>. HIDE DEF p, q
<1>5. p.position = 3 /\ p.store = NewStore /\ p.told = <<>>
  BY <1>1
<1>6. q.position = 19 /\ q.store = NewStore /\ q.told = <<>>
  BY <1>2
<1>7. IsStage(p, WrittenTrace, q)
  <2>1. p.position \in Nat /\ q.position = p.position + 16 /\ DOMAIN q.store \subseteq DOMAIN Events
    BY <1>4, <1>5, <1>6
  <2>. QED  BY <1>5, <1>6, <2>1, TraceIsStage
<1>8. ASSUME NEW i \in 1 .. 1
      PROVE  IsStage(TracePlan[i - 1], TracePieces[i], TracePlan[i])
  <2>1. i = 1 /\ i - 1 = 0
    OBVIOUS
  <2>. QED  BY <1>3, <1>7, <2>1 DEF p, q
<1>9. IsPlan(1, TracePlan, TracePieces)
  <2>1. DOMAIN p.store \subseteq DOMAIN Events /\ AreSamples(p.told) /\ p.position \in Nat
    BY <1>4, <1>5, NothingTold
  <2>. QED  BY <1>8, <2>1 DEF IsPlan, p
<1>. QED  BY <1>3, <1>5, <1>6, <1>9 DEF p, q

\* What is left of the opening behind the preamble is the trace object, or its beginning.
LEMMA OpeningGoesOn ==
  ASSUME NEW w \in Seq(Nat), Agree(Opening, w), 3 <= Len(w), Len(w) <= Len(Opening)
  PROVE  LET rest == SubSeq(w, 4, Len(w))
         IN /\ rest \in Seq(Nat) /\ Agree(WrittenTrace, rest) /\ Len(rest) <= 16
            /\ Len(w) = 19 => Len(rest) = 16 /\ Lies(WrittenTrace, rest, 0)
<1>. DEFINE rest == SubSeq(w, 4, Len(w))
            m == Len(w)
<1>1. m \in Nat /\ 3 <= m /\ m <= 19
  BY LenProperties, OpeningIs
<1>2. PICK l \in Nat : l = 3
  OBVIOUS
<1>3. rest \in Seq(Nat) /\ Len(rest) = m - 3 /\ \A k \in 1 .. m - 3 : rest[k] = w[3 + k]
  <2>. DEFINE s == SubSeq(w, l + 1, Len(w))
  <2>1. l <= Len(w)
    BY <1>2
  <2>2. s \in Seq(Nat) /\ Len(s) = m - l /\ \A k \in 1 .. m - l : s[k] = w[l + k]
    BY <2>1, RestOf
  <2>3. l + 1 = 4
    BY <1>2
  <2>4. s = rest
    BY <2>3
  <2>. HIDE DEF s, rest
  <2>. QED  BY <1>2, <2>2, <2>4
<1>. HIDE DEF rest
<1>4. ASSUME NEW k \in 1 .. 16, k <= m - 3 PROVE rest[k] = WrittenTrace[k]
  <2>1. 3 + k \in 1 .. 19 /\ 3 + k <= m /\ k \in 1 .. m - 3
    BY <1>1, <1>4
  <2>2. w[3 + k] = Opening[3 + k]
    BY <2>1, OpeningIs DEF Agree, m
  <2>3. rest[k] = w[3 + k]
    BY <1>3, <2>1
  <2>. QED  BY <2>2, <2>3, OpeningIs
<1>. HIDE DEF m
<1>5. rest \in Seq(Nat) /\ Len(rest) = m - 3 /\ Len(rest) <= 16
  BY <1>1, <1>3
<1>6. Agree(WrittenTrace, rest)
  BY <1>4, <1>5, TraceIsLong DEF Agree
<1>7. ASSUME m = 19 PROVE Len(rest) = 16 /\ Lies(WrittenTrace, rest, 0)
  <2>1. Len(rest) = 16
    BY <1>5, <1>7
  <2>2. ASSUME NEW k \in 1 .. 16 PROVE rest[0 + k] = WrittenTrace[k]
    <3>1. 0 + k = k /\ k <= m - 3
      BY <1>7
    <3>. QED  BY <1>4, <3>1
  <2>. QED  BY <2>1, <2>2, TraceIsLong DEF Lies
<1>. QED  BY <1>5, <1>6, <1>7 DEF rest, m

\* All of the opening begins with the preamble.
LEMMA OpeningBegins ==
  ASSUME NEW w \in Seq(Nat), Agree(Opening, w), Len(w) = 19
  PROVE  SubSeq(w, 1, 3) = Preamble
<1>. DEFINE s == SubSeq(w, 1, 3)
<1>1. s \in Seq(Nat) /\ Len(s) = 3 /\ \A k \in 1 .. 3 : s[k] = w[k]
  <2>1. Agree(w, w) /\ 3 \in Nat /\ 3 <= Len(w)
    BY AgreesItself
  <2>2. s \in Seq(Nat) /\ Len(s) = 3 /\ Agree(w, s)
    BY <2>1, CutAgrees
  <2>. HIDE DEF s
  <2>3. \A k \in 1 .. 3 : k \in 1 .. 19 /\ k <= 3
    OBVIOUS
  <2>. QED  BY <2>2, <2>3 DEF Agree
<1>2. \A k \in 1 .. 3 : k \in 1 .. 19 /\ w[k] = Opening[k] /\ Opening[k] = Preamble[k]
  BY OpeningIs, SMTT(30) DEF Agree
<1>3. Preamble \in Seq(Nat) /\ Len(Preamble) = 3
  BY OpeningIs
<1>. HIDE DEF s
<1>. QED  BY <1>1, <1>2, <1>3, SeqEqual DEF s

\* The preamble is read.
LEMMA PreambleReadGoesOn ==
  ASSUME SInv, position = 0, result = "Running", 3 <= Len(wire),
         wire' = SubSeq(wire, 4, Len(wire)), position' = 3,
         UNCHANGED <<session, announced, store, result, delivered, reported, polls>>
  PROVE  SInv'
<1>. DEFINE rest == SubSeq(wire, 4, Len(wire))
<1>1. wire \in Seq(Nat) /\ Len(wire) \in Nat /\ session \in Sessions
  BY LenProperties DEF SInv, Typed
<1>2. /\ session.state # "stopped" /\ store = NewStore /\ announced = {}
      /\ delivered = <<>> /\ reported = <<>>
      /\ Agree(Opening, wire) /\ Len(wire) <= Len(Opening)
      /\ session.state = "streaming" => Len(wire) = Len(Opening)
  BY DEF SInv, Fresh
<1>3. /\ rest \in Seq(Nat) /\ Agree(WrittenTrace, rest) /\ Len(rest) <= 16
      /\ Len(wire) = 19 => Len(rest) = 16 /\ Lies(WrittenTrace, rest, 0)
  BY <1>1, <1>2, OpeningGoesOn
<1>4. wire' = rest
  OBVIOUS
<1>. HIDE DEF rest
<1>5. Typed'
  BY <1>3, <1>4 DEF SInv, Typed
<1>6. Told'
  BY DEF SInv, Told
<1>7. Fresh'
  BY DEF Fresh
<1>8. ASSUME session.state = "streaming"
      PROVE  IsWhole(rest, 3, session.state, 1, 0, TracePlan, TracePieces)
  <2>1. Len(rest) = 16 /\ Lies(WrittenTrace, rest, 0)
    BY <1>2, <1>3, <1>8, OpeningIs
  <2>2. Len(rest) = (TracePlan[1].position - 3) + 0
    BY <2>1, TraceIsPlan
  <2>3. ASSUME NEW i \in 0 + 1 .. 1
        PROVE  Lies(TracePieces[i], rest, TracePlan[i - 1].position - 3)
    <3>1. i = 1 /\ i - 1 = 0
      OBVIOUS
    <3>2. TracePlan[i - 1].position - 3 = 0
      BY <3>1, TraceIsPlan
    <3>. QED  BY <2>1, <3>1, <3>2, TraceIsPlan
  <2>. QED  BY <1>8, <2>2, <2>3 DEF IsWhole
<1>9. IsCut(rest, 1, 0, TracePieces)
  <2>1. 0 + 1 = 1 /\ 0 < 1
    OBVIOUS
  <2>2. Agree(TracePieces[0 + 1], rest) /\ Len(rest) <= Len(TracePieces[0 + 1])
    BY <1>3, <2>1, TraceIsPlan, TraceIsLong
  <2>. QED  BY <2>1, <2>2 DEF IsCut
<1>10. Ahead'
  <2>1. /\ IsPlan(1, TracePlan, TracePieces) /\ 0 \in 0 .. 1
        /\ TracePlan[0].position = 3 /\ TracePlan[0].store = store
        /\ TracePlan[0].told = delivered /\ TracePlan[1].told = reported
    BY <1>2, TraceIsPlan
  <2>2. (\A e \in announced : Knows(TracePlan[1].store, e))'
    BY <1>2
  <2>3. session.state \in {"streaming", "stopped"} =>
          IsWhole(rest, 3, session.state, 1, 0, TracePlan, TracePieces)
    BY <1>2, <1>8
  <2>4. IsAhead(1, 0, TracePlan, TracePieces)'
    BY <1>4, <1>9, <2>1, <2>2, <2>3 DEF IsAhead
  <2>. QED  BY <2>4 DEF Ahead
<1>. QED  BY <1>5, <1>6, <1>7, <1>10 DEF SInv

\* A reader that fails does so on a stream that broke off.
LEMMA FailureGoesOn ==
  ASSUME SInv, session.state = "exited", result' = "Failed",
         wire' \in Seq(Nat), position' \in Nat, position = 0 => wire' = wire /\ position' = 0,
         position > 0 => position' > 0,
         UNCHANGED <<session, announced, store, delivered, reported, polls>>
  PROVE  SInv'
<1>1. position \in Nat
  BY DEF SInv, Typed
<1>2. Typed'
  BY DEF SInv, Typed
<1>3. Told'
  BY DEF SInv, Told
<1>4. Fresh'
  BY <1>1 DEF SInv, Fresh
<1>5. Ahead'
  BY DEF Ahead
<1>. QED  BY <1>2, <1>3, <1>4, <1>5 DEF SInv

\* The preamble is there as long as the session streams.
LEMMA ReadPreambleGoesOn == SInv /\ ReadPreamble => SInv'
<1>. SUFFICES ASSUME SInv, ReadPreamble PROVE SInv'
  OBVIOUS
<1>1. /\ result = "Running" /\ position = 0
      /\ UNCHANGED <<session, announced, store, delivered, reported, polls>>
  BY DEF ReadPreamble
<1>2. Len(Preamble) = 3
  BY OpeningIs
<1>3. CASE Len(wire) >= Len(Preamble) /\ SubSeq(wire, 1, Len(Preamble)) = Preamble
  <2>1. wire' = SubSeq(wire, Len(Preamble) + 1, Len(wire)) /\ position' = Len(Preamble)
        /\ UNCHANGED result
    BY <1>3 DEF ReadPreamble
  <2>2. 3 + 1 = 4
    OBVIOUS
  <2>3. wire' = SubSeq(wire, 4, Len(wire)) /\ position' = 3
    BY <1>2, <2>1, <2>2
  <2>4. 3 <= Len(wire)
    <3>1. Len(wire) \in Nat
      BY LenProperties DEF SInv, Typed
    <3>. QED  BY <1>2, <1>3, <3>1
  <2>. QED  BY <1>1, <2>1, <2>3, <2>4, PreambleReadGoesOn
<1>4. CASE ~(Len(wire) >= Len(Preamble) /\ SubSeq(wire, 1, Len(Preamble)) = Preamble)
  <2>1. End(TRUE) /\ UNCHANGED <<wire, position>>
    BY <1>4 DEF ReadPreamble
  <2>2. result' = "Failed"
    BY <2>1 DEF End
  <2>3. wire \in Seq(Nat) /\ position \in Nat /\ session \in Sessions
    BY DEF SInv, Typed
  <2>4. session.state # "stopped" /\ Agree(Opening, wire)
        /\ (session.state = "streaming" => Len(wire) = Len(Opening))
    BY <1>1 DEF SInv, Fresh
  <2>5. session.state # "streaming"
    <3>. SUFFICES ASSUME session.state = "streaming" PROVE FALSE
      OBVIOUS
    <3>1. Len(wire) = 19
      BY <2>4, OpeningIs
    <3>2. SubSeq(wire, 1, 3) = Preamble
      BY <2>3, <2>4, <3>1, OpeningBegins
    <3>. QED  BY <1>2, <1>4, <3>1, <3>2
  <2>6. session.state = "exited"
    BY <2>3, <2>4, <2>5 DEF Sessions
  <2>. QED  BY <1>1, <2>1, <2>2, <2>3, <2>6, FailureGoesOn
<1>. QED  BY <1>3, <1>4

\* What an object of the plan makes of the reader.
LEMMA LedTakes ==
  ASSUME NEW o, NEW p, NEW q, Leads(o, p, q), p.store = store, p.told = delivered, Take(o)
  PROVE  /\ wire' = SubSeq(wire, o.at + 1, Len(wire)) /\ position' = position + o.at
         /\ store' = q.store /\ delivered' = q.told /\ result' = result
<1>1. wire' = SubSeq(wire, o.at + 1, Len(wire)) /\ position' = position + o.at
  BY DEF Take
<1>2. CASE o.type = "Skipped"
  <2>1. q.store = p.store /\ q.told = p.told
    BY <1>2 DEF Leads
  <2>2. UNCHANGED reader
    BY <1>2 DEF Take
  <2>. QED  BY <1>1, <2>1, <2>2 DEF reader
<1>3. CASE o.type = "MetadataBlock"
  <2>1. /\ q.told = p.told /\ \A i \in DOMAIN RecordsIn(o.rows) : RecordsIn(o.rows)[i].ok
        /\ q.store = FoldLeft(Insert, p.store, RecordsIn(o.rows))
    BY <1>3 DEF Leads
  <2>2. StoreRecords([i \in DOMAIN o.rows |-> ParseMetadata(o.rows[i].payload)])
    BY <1>3 DEF Take
  <2>3. StoreRecords(RecordsIn(o.rows))
    BY <2>2 DEF RecordsIn
  <2>. DEFINE records == RecordsIn(o.rows)
  <2>. HIDE DEF records
  <2>4. StoreRecords(records) /\ \A i \in DOMAIN records : records[i].ok
    BY <2>1, <2>3 DEF records
  <2>5. store' = FoldLeft(Insert, store, records) /\ UNCHANGED <<result, channel, delivered>>
    BY <2>4 DEF StoreRecords
  <2>6. q.store = FoldLeft(Insert, store, records)
    BY <2>1 DEF records
  <2>. QED  BY <1>1, <2>1, <2>5, <2>6
<1>4. CASE o.type = "EventBlock"
  <2>. DEFINE found == SamplesOf(store, o.rows)
  <2>1. q.store = p.store /\ found.ok /\ q.told = p.told \o found.samples
    BY <1>4 DEF Leads
  <2>2. Deliver(found)
    BY <1>4 DEF Take
  <2>. HIDE DEF found
  <2>3. delivered' = delivered \o found.samples /\ result' = result /\ store' = store
    BY <2>1, <2>2 DEF Deliver
  <2>. QED  BY <1>1, <2>1, <2>3
<1>. QED  BY <1>2, <1>3, <1>4 DEF Leads

\* A piece of the plan is read.
LEMMA StageGoesThrough ==
  ASSUME SInv, result = "Running", position > 0,
         NEW n, NEW k, NEW plan, NEW pieces, IsAhead(n, k, plan, pieces), k < n,
         Agree(pieces[k + 1], wire), Len(pieces[k + 1]) <= Len(wire),
         wire' = SubSeq(wire, Len(pieces[k + 1]) + 1, Len(wire)),
         position' = position + Len(pieces[k + 1]),
         store' = plan[k + 1].store, delivered' = plan[k + 1].told,
         UNCHANGED <<session, announced, result, reported, polls>>
  PROVE  SInv'
<1>. DEFINE l == Len(pieces[k + 1])
            p == plan[k]
            q == plan[k + 1]
<1>1. IsPlan(n, plan, pieces) /\ k \in 0 .. n /\ n \in Nat
  BY DEF IsAhead, IsPlan
<1>2. /\ p.position = position /\ plan[n].told = reported
      /\ session.state = "streaming" => \A e \in announced : Knows(plan[n].store, e)
      /\ session.state \in {"streaming", "stopped"} =>
           IsWhole(wire, position, session.state, n, k, plan, pieces)
      /\ session.state = "exited" => IsCut(wire, n, k, pieces)
  BY DEF IsAhead
<1>3. k + 1 \in 0 .. n /\ k + 1 \in k + 1 .. n /\ (k + 1) - 1 = k /\ n \in k + 1 .. n
  BY <1>1
<1>4. wire \in Seq(Nat) /\ Len(wire) \in Nat /\ position \in Nat /\ session \in Sessions
  BY LenProperties DEF SInv, Typed
<1>5. l \in Nat
  BY <1>1, <1>3, PieceIsLater
<1>6. wire' \in Seq(Nat) /\ Len(wire') = Len(wire) - l
  BY <1>4, <1>5, RestOf
<1>7. q.position = position' /\ DOMAIN q.store \subseteq DOMAIN Events
  <2>1. IsStage(plan[(k + 1) - 1], pieces[k + 1], q)
    BY <1>1, <1>3, PieceIsLater
  <2>2. IsStage(p, pieces[k + 1], q)
    BY <1>3, <2>1
  <2>. HIDE DEF p, q
  <2>. QED  BY <1>2, <2>2 DEF IsStage
<1>8. AreSamples(q.told) /\ Extends(q.told, plan[n].told)
  <2>1. AreSamples(plan[k + 1].told)
    BY <1>1, <1>3, PlanGoesOn
  <2>2. \A j \in k + 1 .. n : Extends(plan[k + 1].told, plan[j].told)
    <3>. DEFINE i == k + 1
    <3>1. i \in 0 .. n
      BY <1>3
    <3>. HIDE DEF i
    <3>2. \A j \in i .. n : Extends(plan[i].told, plan[j].told)
      BY <1>1, <3>1, PlanGoesOn
    <3>. QED  BY <3>2 DEF i
  <2>3. Extends(plan[k + 1].told, plan[n].told)
    BY <1>3, <2>2
  <2>. QED  BY <2>1, <2>3
<1>9. Typed'
  <2>1. position' \in Nat
    BY <1>4, <1>5
  <2>2. DOMAIN store' \subseteq DOMAIN Events
    BY <1>7
  <2>. QED  BY <1>6, <2>1, <2>2 DEF SInv, Typed
<1>10. Told'
  BY <1>2, <1>8 DEF SInv, Told
<1>11. Fresh'
  <2>1. position' # 0
    BY <1>4, <1>5
  <2>. QED  BY <2>1 DEF Fresh
<1>12. ASSUME session.state \in {"streaming", "stopped"}
       PROVE  IsWhole(wire', position', session.state, n, k + 1, plan, pieces)
  <2>1. IsWhole(wire, plan[k].position, session.state, n, k, plan, pieces)
    BY <1>2, <1>12
  <2>. DEFINE rest == SubSeq(wire, Len(pieces[k + 1]) + 1, Len(wire))
  <2>2. IsWhole(rest, plan[k + 1].position, session.state, n, k + 1, plan, pieces)
    BY <1>1, <1>4, <2>1, RestIsWhole
  <2>. QED  BY <1>7, <2>2
<1>13. ASSUME session.state = "exited" PROVE IsCut(wire', n, k + 1, pieces)
  <2>1. wire = <<>> \/ Len(wire) <= l
    BY <1>2, <1>13 DEF IsCut
  <2>2. Len(wire) <= l
    BY <1>4, <1>5, <2>1, EmptySeq
  <2>3. Len(wire') = 0
    BY <1>4, <1>5, <1>6, <2>2
  <2>4. wire' = <<>>
    BY <1>6, <2>3, EmptySeq
  <2>. QED  BY <2>4 DEF IsCut
<1>14. Ahead'
  <2>1. (session.state = "streaming" => \A e \in announced : Knows(plan[n].store, e))'
    BY <1>2 DEF Knows, IdOf
  <2>2. IsAhead(n, k + 1, plan, pieces)'
    BY <1>1, <1>2, <1>3, <1>7, <1>12, <1>13, <2>1 DEF IsAhead
  <2>. QED  BY <2>2 DEF Ahead
<1>. QED  BY <1>9, <1>10, <1>11, <1>14 DEF SInv

\* A read that fails does so on a stream that broke off.
LEMMA BrokenOffGoesOn ==
  ASSUME SInv, position > 0, session.state = "exited", NextObject(wire, position) = Failed,
         Take(NextObject(wire, position)), UNCHANGED <<session, announced, reported, polls>>
  PROVE  SInv'
<1>1. /\ Failed.type = "Malformed" /\ Failed.at = 0
  BY DEF Failed, Parsed
<1>2. wire \in Seq(Nat) /\ position \in Nat /\ Len(wire) \in Nat
  BY LenProperties DEF SInv, Typed
<1>3. Take(Failed)
  OBVIOUS
<1>4. wire' = SubSeq(wire, Failed.at + 1, Len(wire)) /\ position' = position + Failed.at
  BY <1>3 DEF Take
<1>5. End(TRUE) /\ UNCHANGED <<store, delivered>>
  <2>. DEFINE f == Failed
  <2>1. Take(f) /\ f.type = "Malformed"
    BY <1>1, <1>3
  <2>. HIDE DEF f
  <2>. QED  BY <2>1 DEF Take
<1>6. result' = "Failed"
  BY <1>5 DEF End
<1>7. wire' \in Seq(Nat)
  <2>1. Failed.at \in Nat /\ Failed.at <= Len(wire)
    BY <1>1, <1>2
  <2>. QED  BY <1>2, <1>4, <2>1, RestOf
<1>8. position' = position
  BY <1>1, <1>2, <1>4
<1>. QED  BY <1>2, <1>5, <1>6, <1>7, <1>8, FailureGoesOn

\* The end of a stream that was stopped is read when all of it has been.
LEMMA EndGoesOn ==
  ASSUME SInv, position > 0, session.state = "stopped", wire = <<NullReference>>,
         delivered = reported,
         Take(NextObject(wire, position)), UNCHANGED <<session, announced, reported, polls>>
  PROVE  SInv'
<1>. DEFINE o == Parsed("End", <<>>, 1)
<1>1. o.type = "End" /\ o.at = 1
  BY DEF Parsed
<1>2. wire \in Seq(Nat) /\ position \in Nat /\ Len(wire) = 1
  BY DEF SInv, Typed
<1>3. Take(o)
  BY EndReadsBack
<1>. HIDE DEF o
<1>4. wire' = SubSeq(wire, o.at + 1, Len(wire)) /\ position' = position + o.at
  BY <1>3 DEF Take
<1>5. End(FALSE) /\ UNCHANGED <<store, delivered>>
  <2>1. o.type # "Malformed"
    BY <1>1
  <2>2. End(o.type = "Malformed") /\ UNCHANGED <<store, delivered>>
    BY <1>1, <1>3 DEF Take
  <2>. QED  BY <2>1, <2>2 DEF End
<1>6. result' = "Ended"
  BY <1>5 DEF End
<1>7. wire' \in Seq(Nat)
  <2>1. o.at \in Nat /\ o.at <= Len(wire)
    BY <1>1, <1>2
  <2>. QED  BY <1>2, <1>4, <2>1, RestOf
<1>8. position' \in Nat /\ position' # 0
  BY <1>1, <1>2, <1>4
<1>9. Typed'
  BY <1>5, <1>6, <1>7, <1>8 DEF SInv, Typed
<1>10. Told'
  BY <1>5, <1>6 DEF SInv, Told
<1>11. Fresh'
  BY <1>8 DEF Fresh
<1>12. Ahead'
  BY <1>6 DEF Ahead
<1>. QED  BY <1>9, <1>10, <1>11, <1>12 DEF SInv

\* A cell is left of a stopped stream that has been read up to its end.
LEMMA OneCellLeft ==
  ASSUME NEW w \in Seq(Nat), Len(w) = 1, w[1] = NullReference
  PROVE  w = <<NullReference>>
<1>. DEFINE s == <<NullReference>>
<1>1. s \in Seq(Nat) /\ Len(s) = 1 /\ s[1] = NullReference
  BY DEF NullReference
<1>. HIDE DEF s
<1>2. \A i \in 1 .. 1 : w[i] = s[i]
  BY <1>1
<1>3. w = s
  BY <1>1, <1>2, SeqEqual
<1>. QED  BY <1>3 DEF s

\* An object is read, or what there is of one.
LEMMA ReadObjectGoesOn == SInv /\ ReadObject => SInv'
<1>. SUFFICES ASSUME SInv, ReadObject PROVE SInv'
  OBVIOUS
<1>. DEFINE o == NextObject(wire, position)
<1>1. /\ result = "Running" /\ position > 0 /\ (wire # <<>> \/ session.state # "streaming")
      /\ Take(o) /\ UNCHANGED <<session, announced, reported, polls>>
  BY DEF ReadObject
<1>2. PICK n, k, plan, pieces : IsAhead(n, k, plan, pieces)
  BY <1>1 DEF SInv, Ahead
<1>3. /\ IsPlan(n, plan, pieces) /\ k \in 0 .. n /\ n \in Nat
      /\ plan[k].position = position /\ plan[k].store = store /\ plan[k].told = delivered
      /\ plan[n].told = reported
      /\ session.state \in {"streaming", "stopped"} =>
           IsWhole(wire, position, session.state, n, k, plan, pieces)
      /\ session.state = "exited" => IsCut(wire, n, k, pieces)
  BY <1>2 DEF IsAhead, IsPlan
<1>4. wire \in Seq(Nat) /\ Len(wire) \in Nat /\ position \in Nat
      /\ session.state \in {"streaming", "stopped", "exited"}
  <2>1. session \in Sessions
    BY DEF SInv, Typed
  <2>2. session.state \in {"streaming", "stopped", "exited"}
    BY <2>1 DEF Sessions
  <2>. QED  BY <2>2, LenProperties DEF SInv, Typed
<1>5. CASE wire = <<>> /\ session.state = "exited"
  <2>1. o = Failed
    BY <1>5, EndReadsBack
  <2>. QED  BY <1>1, <1>5, <2>1, BrokenOffGoesOn
<1>6. CASE k < n /\ ~(wire = <<>> /\ session.state = "exited")
  <2>. DEFINE piece == pieces[k + 1]
  <2>1. Agree(piece, wire) /\ (session.state # "exited" => Len(piece) <= Len(wire))
    <3>1. CASE session.state = "exited"
      BY <1>3, <1>6, <3>1 DEF IsCut
    <3>2. CASE session.state # "exited"
      <4>1. IsWhole(wire, position, session.state, n, k, plan, pieces)
        BY <1>3, <1>4, <3>2
      <4>. QED  BY <1>3, <1>4, <1>6, <4>1, PieceIsHere
    <3>. QED  BY <3>1, <3>2
  <2>2. Len(piece) \in Nat
    <3>1. k + 1 \in k + 1 .. n
      BY <1>3, <1>6
    <3>. QED  BY <1>3, <3>1, PieceIsLater
  <2>3. PICK q : /\ q.at = Len(piece) /\ Leads(q, plan[k], plan[k + 1])
                 /\ NextObject(wire, plan[k].position)
                      = IF Len(wire) >= Len(piece) THEN q ELSE Failed
    BY <1>3, <1>4, <1>6, <2>1, PieceIsNext
  <2>4. o = IF Len(wire) >= Len(piece) THEN q ELSE Failed
    BY <1>3, <2>3
  <2>. HIDE DEF o
  <2>5. CASE Len(piece) <= Len(wire)
    <3>1. Take(q)
      BY <1>1, <1>4, <2>2, <2>4, <2>5
    <3>2. /\ wire' = SubSeq(wire, q.at + 1, Len(wire)) /\ position' = position + q.at
          /\ store' = plan[k + 1].store /\ delivered' = plan[k + 1].told /\ result' = result
      BY <1>3, <2>3, <3>1, LedTakes
    <3>3. wire' = SubSeq(wire, Len(piece) + 1, Len(wire)) /\ position' = position + Len(piece)
      BY <2>3, <3>2
    <3>. QED  BY <1>1, <1>2, <1>6, <2>1, <2>5, <3>2, <3>3, StageGoesThrough
  <2>6. CASE ~(Len(piece) <= Len(wire))
    <3>1. o = Failed
      BY <1>4, <2>2, <2>4, <2>6
    <3>2. session.state = "exited"
      BY <2>1, <2>6
    <3>. QED  BY <1>1, <3>1, <3>2, BrokenOffGoesOn DEF o
  <2>. QED  BY <2>5, <2>6
<1>7. CASE k = n /\ ~(wire = <<>> /\ session.state = "exited")
  <2>1. session.state # "exited"
    BY <1>3, <1>7 DEF IsCut
  <2>2. IsWhole(wire, position, session.state, n, k, plan, pieces)
    BY <1>3, <1>4, <2>1
  <2>3. plan[n].position = position
    BY <1>3, <1>7
  <2>4. session.state = "stopped"
    <3>. SUFFICES ASSUME session.state # "stopped" PROVE FALSE
      OBVIOUS
    <3>1. Len(wire) = (position - position) + 0
      BY <2>2, <2>3 DEF IsWhole
    <3>2. wire = <<>>
      BY <1>4, <3>1, EmptySeq
    <3>. QED  BY <1>1, <1>4, <2>1, <3>2
  <2>5. Len(wire) = 1 /\ wire[Len(wire)] = NullReference
    <3>1. Len(wire) = (position - position) + 1 /\ wire[Len(wire)] = NullReference
      BY <2>2, <2>3, <2>4 DEF IsWhole
    <3>. QED  BY <1>4, <3>1
  <2>6. wire = <<NullReference>>
    BY <1>4, <2>5, OneCellLeft
  <2>7. delivered = reported
    BY <1>3, <1>7
  <2>. QED  BY <1>1, <2>4, <2>6, <2>7, EndGoesOn
<1>. QED  BY <1>3, <1>5, <1>6, <1>7

\* The inductive invariant of the stream is one.
LEMMA StreamGoesOn == SInv /\ [Next]_vars => SInv'
<1>. SUFFICES ASSUME SInv, [Next]_vars PROVE SInv'
  OBVIOUS
<1>1. CASE WritePoll
  BY <1>1, WritePollGoesOn
<1>2. CASE Finish
  BY <1>2, FinishGoesOn
<1>3. CASE Exit
  BY <1>3, ExitGoesOn
<1>4. CASE ReadPreamble
  BY <1>4, ReadPreambleGoesOn
<1>5. CASE ReadObject
  BY <1>5, ReadObjectGoesOn
<1>6. CASE Record
  <2>1. UNCHANGED <<stream, store, result, delivered, reported, polls>>
    BY <1>6 DEF Record
  <2>. QED  BY <2>1, StreamUnchanged
<1>7. CASE Pause
  <2>1. UNCHANGED <<stream, store, result, delivered, reported, polls>>
    BY <1>7 DEF Pause, reader
  <2>. QED  BY <2>1, StreamUnchanged
<1>8. CASE ChangeRate
  BY <1>8, ChangeRateGoesOn
<1>9. CASE UNCHANGED vars
  <2>1. UNCHANGED <<stream, store, result, delivered, reported, polls>>
    BY <1>9 DEF vars, reader
  <2>. QED  BY <2>1, StreamUnchanged
<1>. QED  BY <1>1, <1>2, <1>3, <1>4, <1>5, <1>6, <1>7, <1>8, <1>9 DEF Next

----------------------------------------------------------------------------
(* The readings are numbers.                                               *)

\* So are those of the samples on their way.
AreNumbers(messages) == \A m \in Range(messages) : m.kind # "SessionEnded" => m.sample.value \in Nat

\* What is kept is a number, and the App is in a state that it can be in.
NInv ==
  /\ AreNumbers(channel) /\ ReadingsAreNumbers
  /\ app.status \in {"Connecting", "Live", "Ended", "Failed"}
  /\ toggles \in 0 .. MaxToggles

\* At first nothing is kept.
LEMMA InitNInv == Init => NInv
<1>. SUFFICES ASSUME Init PROVE NInv
  OBVIOUS
<1>1. AreNumbers(channel)
  BY EmptySequence DEF AreNumbers, Init
<1>2. ReadingsAreNumbers
  <2>1. kept = <<>> /\ DOMAIN kept = {}
    BY DEF Init
  <2>. QED  BY <2>1 DEF ReadingsAreNumbers
<1>3. app.status = "Connecting"
  BY DEF Init, NewCounters
<1>4. toggles \in 0 .. MaxToggles
  BY ReadingsAssumption DEF Init
<1>. QED  BY <1>1, <1>2, <1>3, <1>4 DEF NInv

\* It is enough to look at the messages if nothing else changes.
LEMMA MessagesGoOn ==
  ASSUME NInv, AreNumbers(channel'), UNCHANGED <<kept, app, toggles>>
  PROVE  NInv'
BY DEF NInv, ReadingsAreNumbers

\* What the reader adds to the messages: ends, and samples that it sends.
JustSent(m) == m.kind = "SessionEnded" \/ \E s \in Range(delivered') : m = Sample(s)

\* An end is added,
LEMMA EndIsSent ==
  ASSUME IsSequence(channel), NEW failed, End(failed)
  PROVE  \A m \in Range(channel') : m \in Range(channel) \/ JustSent(m)
<1>. DEFINE end == SessionEnded(failed)
<1>1. channel' = Append(channel, end) /\ end.kind = "SessionEnded"
  BY DEF End, SessionEnded
<1>. HIDE DEF end
<1>2. Range(channel') = Range(channel) \cup {end}
  BY <1>1, AppendSequence
<1>. QED  BY <1>1, <1>2 DEF JustSent

\* and the samples delivered are.
LEMMA DeliveredAreSent ==
  ASSUME IsSequence(channel), IsSequence(delivered), NEW found, IsSequence(found.samples),
         Deliver(found)
  PROVE  \A m \in Range(channel') : m \in Range(channel) \/ JustSent(m)
<1>. DEFINE samples == found.samples
            sent == [i \in DOMAIN samples |-> Sample(samples[i])]
            end == IF found.ok THEN <<>> ELSE <<SessionEnded(TRUE)>>
            n == Len(samples)
<1>1. n \in Nat /\ DOMAIN samples = 1 .. n
  BY DEF IsSequence
<1>2. delivered' = delivered \o samples /\ channel' = channel \o sent \o end
  BY DEF Deliver
<1>3. IsSequence(sent) /\ \A m \in Range(sent) : \E s \in Range(samples) : m = Sample(s)
  <2>1. sent = [i \in 1 .. n |-> sent[i]]
    BY <1>1
  <2>2. \A m \in Range(sent) : \E i \in DOMAIN samples : m = Sample(samples[i])
    BY DEF Range
  <2>. HIDE DEF sent, n
  <2>3. IsSequence(sent)
    BY <1>1, <2>1, NumberedSequence
  <2>. QED  BY <2>2, <2>3 DEF Range
<1>4. IsSequence(end) /\ \A m \in Range(end) : m.kind = "SessionEnded"
  <2>1. IsSequence(<<>>) /\ Range(<<>>) = {}
    BY EmptySequence
  <2>. DEFINE m == SessionEnded(TRUE)
  <2>2. m.kind = "SessionEnded"
    BY DEF SessionEnded
  <2>. HIDE DEF m
  <2>3. <<m>> \in Seq({m}) /\ \A x \in Range(<<m>>) : x = m
    BY DEF Range
  <2>4. IsSequence(<<m>>)
    BY <2>3, SequenceOver
  <2>5. end = <<>> \/ end = <<m>>
    BY DEF m
  <2>. HIDE DEF end
  <2>. QED  BY <2>1, <2>2, <2>3, <2>4, <2>5
<1>. HIDE DEF sent, end
<1>5. Range(samples) \subseteq Range(delivered')
  <2>1. Range(delivered \o samples) = Range(delivered) \cup Range(samples)
    BY ConcatSequence
  <2>. QED  BY <1>2, <2>1
<1>6. Range(channel') = (Range(channel) \cup Range(sent)) \cup Range(end)
  <2>. DEFINE c == channel \o sent
  <2>1. IsSequence(c) /\ Range(c) = Range(channel) \cup Range(sent)
    BY <1>3, ConcatSequence
  <2>. HIDE DEF c
  <2>2. Range(c \o end) = Range(c) \cup Range(end)
    BY <1>4, <2>1, ConcatSequence
  <2>. QED  BY <1>2, <2>1, <2>2 DEF c
<1>. QED  BY <1>3, <1>4, <1>5, <1>6 DEF JustSent

\* Nothing else is, whatever is read.
LEMMA ReaderAdds ==
  ASSUME IInv, ReadPreamble \/ ReadObject
  PROVE  \A m \in Range(channel') : m \in Range(channel) \/ JustSent(m)
<1>1. IsSequence(channel) /\ IsSequence(delivered)
  BY DEF IInv
<1>2. CASE UNCHANGED channel
  BY <1>2
<1>3. CASE \E failed : End(failed)
  BY <1>1, <1>3, EndIsSent
<1>4. CASE ReadPreamble
  <2>1. End(TRUE) \/ UNCHANGED channel
    BY <1>4 DEF ReadPreamble
  <2>. QED  BY <1>2, <1>3, <2>1
<1>5. CASE ReadObject
  <2>. DEFINE object == NextObject(wire, position)
  <2>1. IsObject(object)
    BY NextObjectIsObject DEF IInv
  <2>2. Take(object)
    BY <1>5 DEF ReadObject
  <2>. HIDE DEF object
  <2>3. CASE object.type \in {"Malformed", "End"}
    <3>1. \E failed : End(failed)
      BY <2>2, <2>3 DEF Take
    <3>. QED  BY <1>3, <3>1
  <2>4. CASE object.type = "Skipped"
    <3>1. UNCHANGED channel
      BY <2>2, <2>4 DEF Take, reader
    <3>. QED  BY <1>2, <3>1
  <2>5. CASE object.type = "MetadataBlock"
    <3>1. PICK records : StoreRecords(records)
      BY <2>2, <2>5 DEF Take
    <3>2. UNCHANGED channel \/ End(TRUE)
      BY <3>1 DEF StoreRecords
    <3>. QED  BY <1>2, <1>3, <3>2
  <2>6. CASE object.type = "EventBlock"
    <3>1. Deliver(SamplesOf(store, object.rows))
      BY <2>2, <2>6 DEF Take
    <3>2. IsSequence(object.rows)
      BY <2>1 DEF IsObject
    <3>3. IsSequence(SamplesOf(store, object.rows).samples)
      BY <3>2, SamplesAreASequence
    <3>. QED  BY <1>1, <3>1, <3>3, DeliveredAreSent
  <2>. QED  BY <2>1, <2>3, <2>4, <2>5, <2>6 DEF IsObject
<1>. QED  BY <1>4, <1>5

\* So what is read leaves numbers on their way.
LEMMA ReaderSendsNumbers == IInv /\ SInv' /\ NInv /\ (ReadPreamble \/ ReadObject) => NInv'
<1>. SUFFICES ASSUME IInv, SInv', NInv, ReadPreamble \/ ReadObject PROVE NInv'
  OBVIOUS
<1>1. UNCHANGED <<kept, app, toggles>>
  BY DEF ReadPreamble, ReadObject
<1>2. AreSamples(delivered')
  BY DEF SInv, Told
<1>3. ASSUME NEW m \in Range(channel'), m.kind # "SessionEnded" PROVE m.sample.value \in Nat
  <2>1. CASE m \in Range(channel)
    BY <1>3, <2>1 DEF NInv, AreNumbers
  <2>2. CASE JustSent(m)
    <3>1. PICK s \in Range(delivered') : m = Sample(s)
      BY <1>3, <2>2 DEF JustSent
    <3>2. m.sample = s
      BY <3>1 DEF Sample
    <3>. QED  BY <1>2, <3>2 DEF AreSamples
  <2>. QED  BY <2>1, <2>2, ReaderAdds
<1>. QED  BY <1>1, <1>3, MessagesGoOn DEF AreNumbers

\* A log with one more reading that is a number,
LEMMA LogsAreNumbers ==
  ASSUME IInv, ReadingsAreNumbers, NEW key, NEW entry, entry.value \in Nat,
         kept' = LogWith(kept, key, entry)
  PROVE  ReadingsAreNumbers'
<1>. DEFINE log == IF key \in DOMAIN kept THEN kept[key] ELSE <<>>
            more == Append(log, entry)
<1>1. IsSequence(log)
  BY EmptySequence DEF IInv, SeriesAreLogged, IsLogged
<1>2. \A x \in Range(log) : x.value \in Nat
  BY EmptySequence DEF ReadingsAreNumbers, Range
<1>3. kept' = Put(kept, key, more)
  BY DEF LogWith
<1>. HIDE DEF log
<1>4. \A x \in Range(more) : x.value \in Nat
  BY <1>1, <1>2, AppendSequence
<1>. HIDE DEF more
<1>5. ASSUME NEW k \in DOMAIN kept', NEW i \in DOMAIN kept'[k] PROVE kept'[k][i].value \in Nat
  <2>1. CASE k = key
    <3>1. kept'[k] = more
      BY <1>3, <2>1 DEF Put
    <3>. QED  BY <1>4, <3>1 DEF Range
  <2>2. CASE k # key
    <3>1. k \in DOMAIN kept /\ kept'[k] = kept[k]
      BY <1>3, <2>2 DEF Put
    <3>. QED  BY <3>1 DEF ReadingsAreNumbers
  <2>. QED  BY <2>1, <2>2
<1>. QED  BY <1>5 DEF ReadingsAreNumbers

\* so what is recorded is one.
LEMMA RecordNumbers == IInv /\ NInv /\ Record => NInv'
<1>. SUFFICES ASSUME IInv, NInv, Record PROVE NInv'
  OBVIOUS
<1>. DEFINE message == Head(channel)
            sample == message.sample
<1>1. channel # <<>> /\ channel' = Tail(channel) /\ UNCHANGED toggles
  BY DEF Record
<1>2. Range(channel) = {message} \cup Range(channel')
  BY <1>1, TailSequence DEF IInv
<1>3. AreNumbers(channel')
  BY <1>2 DEF NInv, AreNumbers
<1>4. CASE message.kind = "SessionEnded"
  <2>1. app' = RecordEnd(app, message.failed) /\ kept' = kept
    BY <1>4 DEF Record
  <2>. DEFINE new == IF message.failed THEN "Failed" ELSE "Ended"
  <2>2. app' = [app EXCEPT !.status = new] /\ new \in {"Failed", "Ended"}
    BY <2>1 DEF RecordEnd
  <2>. HIDE DEF new
  <2>3. app'.status = new
    BY <2>2 DEF IInv, IsApp
  <2>. QED  BY <1>1, <1>3, <2>1, <2>2, <2>3 DEF NInv, ReadingsAreNumbers
<1>5. CASE message.kind # "SessionEnded"
  <2>1. app' = RecordSample(app, sample, now) /\ kept' = IF app.paused THEN kept ELSE Log(message)
    BY <1>5 DEF Record
  <2>2. app'.status = "Live"
    <3>. HIDE DEF sample
    <3>. QED  BY <2>1, SampleRecorded DEF IInv
  <2>3. ReadingsAreNumbers'
    <3>1. CASE app.paused
      <4>1. kept' = kept
        BY <2>1, <3>1
      <4>. QED  BY <4>1 DEF NInv, ReadingsAreNumbers
    <3>2. CASE ~app.paused
      <4>. DEFINE entry == [at |-> now, value |-> sample.value, poll |-> message.poll]
      <4>1. kept' = LogWith(kept, KeyOf(sample), entry)
        BY <2>1, <3>2 DEF Log, LogWith, KeptOf
      <4>2. entry.value \in Nat
        BY <1>2, <1>5 DEF NInv, AreNumbers
      <4>. HIDE DEF entry
      <4>. QED  BY <4>1, <4>2, LogsAreNumbers DEF NInv
    <3>. QED  BY <3>1, <3>2
  <2>. QED  BY <1>1, <1>3, <2>2, <2>3 DEF NInv
<1>. QED  BY <1>4, <1>5

\* What the user does leaves them.
LEMMA UserLeavesNumbers == IInv /\ NInv /\ (Pause \/ ChangeRate) => NInv'
<1>. SUFFICES ASSUME IInv, NInv, Pause \/ ChangeRate PROVE NInv'
  OBVIOUS
<1>1. UNCHANGED <<channel, kept>>
  BY DEF Pause, ChangeRate, reader
<1>2. ReadingsAreNumbers'
  BY <1>1 DEF NInv, ReadingsAreNumbers
<1>3. app'.status = app.status
  <2>1. CASE Pause
    <3>. DEFINE no == ~app.paused
    <3>1. app' = [app EXCEPT !.paused = no]
      BY <2>1 DEF Pause
    <3>. HIDE DEF no
    <3>. QED  BY <3>1 DEF IInv, IsApp
  <2>2. CASE ChangeRate
    <3>1. PICK rate : app' = [app EXCEPT !.interval = rate]
      BY <2>2 DEF ChangeRate, ApplyInterval
    <3>. QED  BY <3>1 DEF IInv, IsApp
  <2>. QED  BY <2>1, <2>2
<1>4. toggles' \in 0 .. MaxToggles
  <2>1. toggles \in Nat /\ toggles <= MaxToggles
    BY DEF NInv
  <2>2. CASE Pause
    <3>1. toggles < MaxToggles /\ toggles' = toggles + 1
      BY <2>2 DEF Pause
    <3>. QED  BY <2>1, <3>1, ReadingsAssumption
  <2>3. CASE ChangeRate
    BY <2>3 DEF ChangeRate, NInv
  <2>. QED  BY <2>2, <2>3
<1>. QED  BY <1>1, <1>2, <1>3, <1>4 DEF NInv

\* Every step leaves them numbers.
LEMMA NumbersGoOn == IInv /\ SInv' /\ NInv /\ [Next]_vars => NInv'
<1>. SUFFICES ASSUME IInv, SInv', NInv, [Next]_vars PROVE NInv'
  OBVIOUS
<1>1. CASE WritePoll \/ Finish \/ Exit \/ UNCHANGED vars
  <2>1. UNCHANGED <<channel, kept, app, toggles>>
    BY <1>1 DEF WritePoll, Finish, Exit, vars, reader
  <2>. QED  BY <2>1, MessagesGoOn DEF NInv
<1>2. CASE ReadPreamble \/ ReadObject
  BY <1>2, ReaderSendsNumbers
<1>3. CASE Record
  BY <1>3, RecordNumbers
<1>4. CASE Pause \/ ChangeRate
  BY <1>4, UserLeavesNumbers
<1>. QED  BY <1>1, <1>2, <1>3, <1>4 DEF Next

----------------------------------------------------------------------------
(* The providers are those of counters that were polled.                   *)

\* The samples that the rows of a poll stand for are a sequence.
LEMMA MeantIsSequence ==
  ASSUME NEW poll \in UNION Range(Polls)
  PROVE  IsSequence(Meant(poll))
<1>. DEFINE seqs == [b \in DOMAIN poll |-> MeantBy(poll[b].rows)]
            n == Len(poll)
            f == CHOOSE g : IsFlattening(g, seqs)
<1>1. n \in Nat /\ DOMAIN poll = 1 .. n
  BY PollsAreReports DEF IsSequence
<1>2. \A b \in 1 .. n : IsSequence(seqs[b])
  <2>. SUFFICES ASSUME NEW b \in DOMAIN poll PROVE IsSequence(MeantBy(poll[b].rows))
    BY <1>1
  <2>. DEFINE rows == poll[b].rows
  <2>1. AreReports(rows)
    BY PollsAreReports
  <2>. HIDE DEF rows
  <2>2. AreSamples(MeantBy(rows))
    BY <2>1, MeantAreSamples
  <2>. QED  BY <2>2 DEF AreSamples, rows
<1>3. seqs = [b \in 1 .. n |-> seqs[b]]
  BY <1>1
<1>4. Meant(poll) = FlattenSeq(seqs)
  BY DEF Meant
<1>. HIDE DEF seqs, n
<1>5. IsSequence(seqs) /\ Len(seqs) = n
  BY <1>1, <1>3, NumberedSequence
<1>6. IsFlattening(f, seqs)
  <2>. HIDE DEF f
  <2>1. \E g : IsFlattening(g, seqs)
    BY <1>1, <1>5, FlatteningExists
  <2>. QED  BY <2>1 DEF f
<1>7. FlattenSeq(seqs) = IF n = 0 THEN seqs ELSE f[n]
  BY <1>5 DEF FlattenSeq, IsFlattening
<1>. HIDE DEF f
<1>8. \A k \in 1 .. n : f[k] = IF k = 1 THEN seqs[k] ELSE f[k - 1] \o seqs[k]
  BY <1>5, <1>6, Zenon DEF IsFlattening
<1>. DEFINE good == {k \in Nat : k \in 1 .. n => IsSequence(f[k])}
<1>9. 0 \in good
  OBVIOUS
<1>10. ASSUME NEW k \in Nat, k \in good PROVE k + 1 \in good
  <2>. SUFFICES ASSUME k + 1 \in 1 .. n PROVE IsSequence(f[k + 1])
    OBVIOUS
  <2>1. k # 0 => k \in 1 .. n
    BY <1>1
  <2>2. (k + 1) - 1 = k /\ (k + 1 = 1 <=> k = 0)
    OBVIOUS
  <2>3. f[k + 1] = IF k = 0 THEN seqs[k + 1] ELSE f[k] \o seqs[k + 1]
    BY <1>8, <2>2
  <2>4. IsSequence(seqs[k + 1])
    BY <1>2
  <2>. QED  BY <1>10, <2>1, <2>3, <2>4, ConcatSequence
<1>11. Nat \subseteq good
  <2>. HIDE DEF good
  <2>. QED  BY <1>9, <1>10, NumbersByInduction
<1>12. n # 0 => n \in 1 .. n
  BY <1>1
<1>. QED  BY <1>1, <1>4, <1>5, <1>7, <1>11, <1>12

\* Nobody is heard from who has not been polled.
PInv ==
  /\ \A s \in Range(reported) : s.provider \in Polled
  /\ \A m \in Range(channel) : m.kind # "SessionEnded" => m.sample.provider \in Polled
  /\ app.providers \subseteq Polled

\* At first nobody is.
LEMMA InitPInv == Init => PInv
BY EmptySequence DEF Init, PInv, NewCounters

\* Another poll adds to those polled.
LEMMA PollAdds == IInv /\ SInv /\ PInv /\ WritePoll => PInv'
<1>. SUFFICES ASSUME IInv, SInv, PInv, WritePoll PROVE PInv'
  OBVIOUS
<1>1. /\ polls < Len(Polls) /\ polls' = polls + 1 /\ UNCHANGED <<channel, app>>
      /\ \E poll \in Polls[polls + 1] : reported' = reported \o Meant(poll)
  BY DEF WritePoll, reader
<1>2. PICK poll \in Polls[polls + 1] : reported' = reported \o Meant(poll)
  BY <1>1
<1>3. polls \in Nat /\ polls + 1 \in DOMAIN Polls
  <2>1. Len(Polls) \in Nat /\ DOMAIN Polls = 1 .. Len(Polls)
    BY LenProperties, StreamAssumption
  <2>2. polls \in 0 .. Len(Polls)
    BY DEF SInv, Typed
  <2>. QED  BY <1>1, <2>1, <2>2
<1>4. poll \in UNION Range(Polls)
  BY <1>3 DEF Range
<1>. DEFINE before == UNION {Polls[i] : i \in 1 .. polls}
            after == UNION {Polls[i] : i \in 1 .. polls + 1}
<1>5. before \subseteq after /\ poll \in after
  <2>1. 1 .. polls \subseteq 1 .. polls + 1 /\ polls + 1 \in 1 .. polls + 1
    BY <1>3
  <2>. QED  BY <2>1
<1>. DEFINE of(some) == {sample.provider : sample \in UNION {Range(Meant(q)) : q \in some}}
<1>6. Polled = of(before) /\ Polled' = of(after)
  BY <1>1 DEF Polled
<1>. HIDE DEF before, after
<1>7. of(before) \subseteq of(after) /\ \A s \in Range(Meant(poll)) : s.provider \in of(after)
  BY <1>5
<1>. HIDE DEF of
<1>8. Range(reported') = Range(reported) \cup Range(Meant(poll))
  <2>1. IsSequence(reported)
    BY DEF SInv, Told, AreSamples
  <2>2. IsSequence(Meant(poll))
    BY <1>4, MeantIsSequence
  <2>. DEFINE m == Meant(poll)
  <2>. HIDE DEF m
  <2>3. IsSequence(m) => Range(reported \o m) = Range(reported) \cup Range(m)
    BY <2>1, ConcatSequence
  <2>. QED  BY <1>2, <2>2, <2>3 DEF m
<1>. QED  BY <1>1, <1>6, <1>7, <1>8 DEF PInv

\* The reader sends what was polled.
LEMMA ReaderSendsPolled == IInv /\ SInv' /\ PInv /\ (ReadPreamble \/ ReadObject) => PInv'
<1>. SUFFICES ASSUME IInv, SInv', PInv, ReadPreamble \/ ReadObject PROVE PInv'
  OBVIOUS
<1>1. UNCHANGED <<app, reported, polls>>
  BY DEF ReadPreamble, ReadObject
<1>2. Polled' = Polled
  BY <1>1 DEF Polled
<1>3. Range(delivered') \subseteq Range(reported')
  <2>1. IsSequence(delivered') /\ \E m : IsSequence(m) /\ reported' = delivered' \o m
    BY DEF SInv, Told, AreSamples, Extends
  <2>. QED  BY <2>1, ConcatSequence
<1>4. ASSUME NEW m \in Range(channel'), m.kind # "SessionEnded" PROVE m.sample.provider \in Polled
  <2>1. CASE m \in Range(channel)
    BY <1>4, <2>1 DEF PInv
  <2>2. CASE JustSent(m)
    <3>1. PICK s \in Range(delivered') : m = Sample(s)
      BY <1>4, <2>2 DEF JustSent
    <3>2. m.sample = s
      BY <3>1 DEF Sample
    <3>. QED  BY <1>1, <1>3, <3>2 DEF PInv
  <2>. QED  BY <2>1, <2>2, ReaderAdds
<1>. QED  BY <1>1, <1>2, <1>4 DEF PInv

\* What is recorded was polled.
LEMMA RecordedWasPolled == IInv /\ PInv /\ Record => PInv'
<1>. SUFFICES ASSUME IInv, PInv, Record PROVE PInv'
  OBVIOUS
<1>. DEFINE message == Head(channel)
            sample == message.sample
<1>1. channel # <<>> /\ channel' = Tail(channel) /\ UNCHANGED <<reported, polls>>
  BY DEF Record
<1>2. Range(channel) = {message} \cup Range(channel')
  BY <1>1, TailSequence DEF IInv
<1>3. Polled' = Polled
  BY <1>1 DEF Polled
<1>4. app'.providers \subseteq Polled
  <2>1. CASE message.kind = "SessionEnded"
    <3>1. app' = RecordEnd(app, message.failed)
      BY <2>1 DEF Record
    <3>2. Keeps(app, app')
      BY <3>1, StatusKeeps DEF IInv
    <3>. QED  BY <3>2 DEF Keeps, PInv
  <2>2. CASE message.kind # "SessionEnded"
    <3>1. app' = RecordSample(app, sample, now)
      BY <2>2 DEF Record
    <3>2. sample.provider \in Polled
      BY <1>2, <2>2 DEF PInv
    <3>. HIDE DEF sample
    <3>3. app'.providers = app.providers \cup {sample.provider}
      BY <3>1, SampleRecorded DEF IInv
    <3>. QED  BY <3>2, <3>3 DEF PInv
  <2>. QED  BY <2>1, <2>2
<1>. QED  BY <1>1, <1>2, <1>3, <1>4 DEF PInv

\* The user changes nothing about it.
LEMMA UserLeavesPolled == IInv /\ PInv /\ (Pause \/ ChangeRate) => PInv'
<1>. SUFFICES ASSUME IInv, PInv, Pause \/ ChangeRate PROVE PInv'
  OBVIOUS
<1>1. UNCHANGED <<channel, polls>> /\ (reported' = reported \/ reported' = <<>>)
  BY DEF Pause, ChangeRate, reader
<1>2. Polled' = Polled
  BY <1>1 DEF Polled
<1>3. Keeps(app, app')
  <2>1. CASE Pause
    BY <2>1, PauseKeeps DEF IInv, Pause
  <2>2. CASE ChangeRate
    BY <2>2, IntervalKeeps DEF IInv, ChangeRate
  <2>. QED  BY <2>1, <2>2
<1>4. \A s \in Range(reported') : s.provider \in Polled
  BY <1>1, EmptySequence DEF PInv
<1>. QED  BY <1>1, <1>2, <1>3, <1>4 DEF Keeps, PInv

\* Every step leaves them those of what was polled.
LEMMA PolledGoesOn == IInv /\ SInv /\ SInv' /\ PInv /\ [Next]_vars => PInv'
<1>. SUFFICES ASSUME IInv, SInv, SInv', PInv, [Next]_vars PROVE PInv'
  OBVIOUS
<1>1. CASE WritePoll
  BY <1>1, PollAdds
<1>2. CASE Finish \/ Exit \/ UNCHANGED vars
  <2>1. UNCHANGED <<channel, app, reported, polls>>
    BY <1>2 DEF Finish, Exit, vars, reader
  <2>. QED  BY <2>1 DEF PInv, Polled
<1>3. CASE ReadPreamble \/ ReadObject
  BY <1>3, ReaderSendsPolled
<1>4. CASE Record
  BY <1>4, RecordedWasPolled
<1>5. CASE Pause \/ ChangeRate
  BY <1>5, UserLeavesPolled
<1>. QED  BY <1>1, <1>2, <1>3, <1>4, <1>5 DEF Next

\* All that is known of the stream, the App and the readings.
Inv == IInv /\ SInv /\ NInv /\ PInv

\* What a runtime may write, what its reader makes of it and what is kept of that
\* stay as they were planned, whatever the order of steps.
THEOREM StreamIsRead == Spec => []Inv
<1>1. Init => Inv
  BY InitIInv, InitSInv, InitNInv, InitPInv DEF Inv
<1>2. Inv /\ [Next]_vars => Inv'
  <2>1. Inv /\ [Next]_vars => IInv' /\ SInv'
    BY StepKeeps, StreamGoesOn DEF Inv
  <2>2. Inv /\ SInv' /\ [Next]_vars => NInv'
    BY NumbersGoOn DEF Inv
  <2>3. Inv /\ SInv' /\ [Next]_vars => PInv'
    BY PolledGoesOn DEF Inv
  <2>. QED  BY <2>1, <2>2, <2>3 DEF Inv
<1>. QED  BY <1>1, <1>2, PTL DEF Spec

----------------------------------------------------------------------------
(* What follows for the histories.                                         *)

\* A history is what its log says, for the counters there are logs of.
LEMMA HistoryOfLog ==
  ASSUME IInv, NEW key, key \in DOMAIN kept \cup DOMAIN app.series
  PROVE  /\ IsLogged(app.series[key], kept[key], key)
         /\ KeptOf(key) = kept[key]
         /\ History(app, key) = app.series[key].history
         /\ Latest(app, key) = app.series[key].latest
BY DEF IInv, SeriesAreLogged, KeptOf, History, Latest, SeriesOf

\* A history is the latest readings that were not paused away, in order, each
\* with the time it arrived; the value shown is the newest one's (app.rs:120).
THEOREM HistoriesAreLatest == Spec => []HistoryIsLatest
<1>1. IInv => HistoryIsLatest
  <2>. SUFFICES ASSUME IInv, NEW key \in DOMAIN kept \cup DOMAIN app.series
                PROVE  LET log == Picturing!Recent(KeptOf(key), HistoryCapacity)
                       IN /\ History(app, key) = Shown(log)
                          /\ Latest(app, key).value = log[Len(log)].value
    BY DEF HistoryIsLatest, Shown
  <2>. QED  BY HistoryOfLog DEF IsLogged
<1>. QED  BY <1>1, Invariant, PTL

----------------------------------------------------------------------------
(* What follows for the stream.                                            *)

\* A history is of one reading at least, and of no more than are kept.
LEMMA HistoryIsBounded ==
  ASSUME IInv, NEW key \in DOMAIN app.series
  PROVE  Len(app.series[key].history) \in 1 .. HistoryCapacity
<1>. DEFINE log == kept[key]
            n == Len(log)
            m == Fitting(n, HistoryCapacity)
            f == [i \in 1 .. m |-> [at |-> log[n - m + i].at, value |-> log[n - m + i].value]]
<1>1. /\ IsSequence(log) /\ log # <<>>
      /\ app.series[key].history = Shown(Picturing!Recent(log, HistoryCapacity))
  BY HistoryOfLog DEF IsLogged
<1>2. app.series[key].history = f
  BY <1>1, ShownRecent
<1>3. n \in Nat \ {0}
  <2>. HIDE DEF log
  <2>. QED  BY <1>1, EmptySeq DEF IsSequence
<1>4. m \in 1 .. HistoryCapacity
  <2>. HIDE DEF n
  <2>. QED  BY <1>3, HistoryAssumption DEF Fitting
<1>. HIDE DEF log, n, m
<1>5. Len(f) = m
  <2>1. m \in Nat
    BY <1>4, HistoryAssumption
  <2>. QED  BY <2>1, NumberedSequence
<1>. QED  BY <1>2, <1>4, <1>5

\* The states of the reader and the App, the metadata known and the readings kept
\* are what the code takes them for (session.rs, app.rs:120).
THEOREM TypesAreOK == Spec => []TypeOK
<1>1. Inv => TypeOK
  <2>. SUFFICES ASSUME Inv PROVE TypeOK
    OBVIOUS
  <2>1. session \in [number : 1 .. MaxSessions, state : {"streaming", "stopped", "exited"}]
    BY DEF Inv, SInv, Typed, Sessions
  <2>2. DOMAIN store \subseteq 1 .. Len(Events)
    <3>1. DOMAIN Events = 1 .. Len(Events)
      BY LenProperties, StreamAssumption
    <3>. QED  BY <3>1 DEF Inv, SInv, Typed
  <2>3. \A key \in DOMAIN app.series : Len(app.series[key].history) \in 1 .. HistoryCapacity
    BY HistoryIsBounded DEF Inv
  <2>. QED  BY <2>1, <2>2, <2>3 DEF Inv, SInv, Typed, NInv, TypeOK
<1>. QED  BY <1>1, StreamIsRead, PTL

\* Whatever is written and wherever it is cut, the samples sent are the first of
\* those the runtime polled, in its order, and all of them once the stream is read
\* (nettrace/event.rs:39, reader.rs:200, metadata.rs).
THEOREM SamplesAreRead == Spec => []SamplesAreTheRuntimes
<1>1. Inv => SamplesAreTheRuntimes
  <2>. SUFFICES ASSUME Inv PROVE SamplesAreTheRuntimes
    OBVIOUS
  <2>1. IsPrefix(delivered, reported)
    <3>1. IsSequence(delivered) /\ Extends(delivered, reported)
      BY DEF Inv, SInv, Told, AreSamples
    <3>. QED  BY <3>1, ExtendsSays
  <2>2. ASSUME session.state = "streaming", wire = <<>> PROVE delivered = reported
    <3>1. CASE position = 0
      BY <3>1 DEF Inv, SInv, Fresh
    <3>2. CASE position > 0
      BY <2>2, <3>2, CaughtUp DEF Inv
    <3>3. position \in Nat
      BY DEF Inv, SInv, Typed
    <3>. QED  BY <3>1, <3>2, <3>3
  <2>3. session.state = "streaming" => result # "Failed"
    BY DEF Inv, SInv, Told
  <2>. QED  BY <2>1, <2>2, <2>3 DEF SamplesAreTheRuntimes
<1>. QED  BY <1>1, StreamIsRead, PTL

\* A stream that breaks off anywhere is an error; one the runtime ended is not, and
\* has been read in full (nettrace/fastserial.rs:55).
THEOREM EndsAreTold == Spec => []EndIsTold
<1>1. Inv => EndIsTold
  BY DEF Inv, SInv, Told, EndIsTold
<1>. QED  BY <1>1, StreamIsRead, PTL

----------------------------------------------------------------------------
(* What follows for the panels.                                            *)

\* There is room in a chart, and what is inside its border is as code and model say.
LEMMA InnerSize ==
  /\ InnerWidth \in Nat \ {0} /\ InnerHeight \in Nat \ {0}
  /\ Max({Width - 2, 0}) = InnerWidth /\ Max({Height - 2, 0}) = InnerHeight
  /\ Picturing!Max({Width - 2, 0}) = InnerWidth /\ Picturing!Max({Height - 2, 0}) = InnerHeight
<1>1. Width \in Nat /\ Width > 2 /\ Height \in Nat /\ Height > 2
  BY ReadingsAssumption
<1>2. InnerWidth = Width - 2 /\ InnerHeight = Height - 2
  BY DEF InnerWidth, InnerHeight
<1>3. Max({Width - 2, 0}) = Width - 2 /\ Max({Height - 2, 0}) = Height - 2
  BY <1>1, MaxOfTwo
<1>4. Picturing!Max({Width - 2, 0}) = Width - 2 /\ Picturing!Max({Height - 2, 0}) = Height - 2
  BY <1>1 DEF Picturing!Max
<1>. QED  BY <1>1, <1>2, <1>3, <1>4

\* A chart is drawn of readings.
IsChart(chart, readings, key, plot) ==
  LET values == Picturing!Values(readings)
  IN /\ chart.max = Picturing!FullScale(values, ScaleOf(key))
     /\ chart.span = Picturing!SpanLabel(readings, plot, InnerWidth)
     /\ chart.label = Picturing!LabelOf(FormatOf(key), chart.max, InnerWidth, InnerHeight)
     /\ chart.picture
          = Picturing!Beneath(Picturing!Picture(values, chart.max, plot, InnerWidth, InnerHeight),
                              chart.label)

\* A chart says why no readings are drawn; else it is drawn of those there are.
LEMMA NoteOfChart ==
  ASSUME NEW a, NEW key, NEW plot
  PROVE  LET chart == ChartOf(a, key, plot, Width, Height)
         IN /\ chart.note = "silent" => SilentProvider(a, key[1])
            /\ chart.note = "" =>
                 History(a, key) # <<>> /\ IsChart(chart, Charting(a, key), key, plot)
<1>. DEFINE chart == ChartOf(a, key, plot, Width, Height)
            readings == Charting(a, key)
            drawn == Picturing!TimeSeries(readings, ScaleOf(key), FormatOf(key), plot, Width, Height)
<1>1. CASE History(a, key) = <<>>
  <2>1. chart = Placeholder(a, key)
    BY <1>1 DEF ChartOf
  <2>2. /\ Placeholder(a, key).note \in {"silent", "waiting"}
        /\ Placeholder(a, key).note = "silent" => SilentProvider(a, key[1])
    BY DEF Placeholder
  <2>3. chart.note # "" /\ (chart.note = "silent" => SilentProvider(a, key[1]))
    <3>. HIDE DEF chart
    <3>. QED  BY <2>1, <2>2
  <2>. QED  BY <2>3
<1>2. CASE History(a, key) # <<>>
  <2>1. chart = [note |-> "", max |-> drawn.max, span |-> drawn.span, label |-> drawn.label,
                 picture |-> drawn.picture]
    BY <1>2 DEF ChartOf
  <2>. DEFINE max == Picturing!FullScale(Picturing!Values(readings), ScaleOf(key))
              span == Picturing!SpanLabel(readings, plot, InnerWidth)
              label == Picturing!LabelOf(FormatOf(key), max, InnerWidth, InnerHeight)
              whole == Picturing!Picture(Picturing!Values(readings), max, plot,
                                         InnerWidth, InnerHeight)
              picture == Picturing!Beneath(whole, label)
  <2>2. drawn.max = max /\ drawn.span = span /\ drawn.label = label /\ drawn.picture = picture
    <3>1. drawn = [max |-> max, span |-> span, label |-> label, picture |-> picture]
      <4>. DEFINE inner == <<Picturing!Max({Width - 2, 0}), Picturing!Max({Height - 2, 0})>>
      <4>1. inner[1] = InnerWidth /\ inner[2] = InnerHeight
        BY InnerSize
      <4>. HIDE DEF readings, inner
      <4>2. drawn = [max |-> max, span |-> Picturing!SpanLabel(readings, plot, inner[1]),
                     label |-> Picturing!LabelOf(FormatOf(key), max, inner[1], inner[2]),
                     picture |-> Picturing!Beneath(
                        Picturing!Picture(Picturing!Values(readings), max, plot, inner[1], inner[2]),
                        Picturing!LabelOf(FormatOf(key), max, inner[1], inner[2]))]
        BY DEF Picturing!TimeSeries, inner
      <4>. QED  BY <4>1, <4>2
    <3>. HIDE DEF drawn, max, span, label, picture
    <3>. QED  BY <3>1
  <2>3. /\ chart.note = "" /\ chart.max = max /\ chart.span = span /\ chart.label = label
        /\ chart.picture = picture
    <3>. HIDE DEF chart, drawn, max, span, label, picture
    <3>. QED  BY <2>1, <2>2
  <2>4. IsChart(chart, readings, key, plot)
    <3>. HIDE DEF chart, readings
    <3>. QED  BY <2>3 DEF IsChart
  <2>. HIDE DEF chart
  <2>5. chart.note = "" /\ IsChart(chart, readings, key, plot)
    BY <2>3, <2>4
  <2>. QED  BY <1>2, <2>5 DEF chart
<1>. QED  BY <1>1, <1>2

\* The dashboard is that of an ASP.NET process once a counter of hosting or of
\* Kestrel has been recorded, and of no process that reported none; a chart calls
\* its provider silent only if nothing has come from it (app.rs:304,
\* dashboard.rs:327, dashboard.rs:441).
THEOREM PanelsFollow == Spec => []PanelsFollowProviders
<1>1. IInv /\ PInv => PanelsFollowProviders
  <2>. DEFINE heard == {sample.provider : sample \in Range(delivered)}
                         \ {m.sample.provider : m \in {n \in Range(channel) : n.kind = "Sample"}}
              web == {AspNetHosting, Kestrel}
  <2>. SUFFICES ASSUME IInv, PInv, NEW plot \in Picturing!Plots
                PROVE  /\ web \cap heard # {} => frame[plot].aspnet
                       /\ frame[plot].aspnet => web \cap Polled # {}
                       /\ \A key \in DOMAIN frame[plot].charts :
                            frame[plot].charts[key].note = "silent" => key[1] \notin heard
    BY DEF PanelsFollowProviders
  <2>1. heard \subseteq app.providers
    BY DEF IInv, ProvidersHeard, OnTheirWay
  <2>2. PICK b : /\ b.series = app.series /\ b.providers = app.providers
                 /\ frame = [p \in Picturing!Plots |-> Frame(b, p, Width, Height)]
    BY DEF IInv, IsDrawnOf
  <2>3. frame[plot] = Frame(b, plot, Width, Height)
    BY <2>2
  <2>4. /\ frame[plot].aspnet = IsAspNet(b)
        /\ frame[plot].charts = [key \in Charted(b) |-> ChartOf(b, key, plot, Width, Height)]
    BY <2>3 DEF Frame
  <2>. HIDE DEF heard
  <2>5. frame[plot].aspnet <=> web \cap app.providers # {}
    BY <2>2, <2>4 DEF IsAspNet, HasProvider
  <2>6. ASSUME NEW key \in DOMAIN frame[plot].charts, frame[plot].charts[key].note = "silent"
        PROVE  key[1] \notin heard
    <3>1. ChartOf(b, key, plot, Width, Height).note = "silent"
      BY <2>4, <2>6
    <3>2. SilentProvider(b, key[1])
      BY <3>1, NoteOfChart
    <3>. QED  BY <2>1, <2>2, <3>2 DEF SilentProvider, HasProvider
  <2>7. app.providers \subseteq Polled
    BY DEF PInv
  <2>. HIDE DEF web
  <2>. QED  BY <2>1, <2>5, <2>6, <2>7
<1>2. Inv => IInv /\ PInv
  BY DEF Inv
<1>. QED  BY <1>1, <1>2, StreamIsRead, PTL

----------------------------------------------------------------------------
(* What follows for the charts.                                            *)

\* A counter that is charted has a log, and the chart is of what is kept of it.
LEMMA OnScreenIsKept ==
  ASSUME IInv, NEW plot \in Picturing!Plots, NEW key \in OnScreen(plot)
  PROVE  /\ key \in DOMAIN kept
         /\ IsChart(frame[plot].charts[key], Charting(app, key), key, plot)
<1>1. PICK b : /\ b.series = app.series /\ b.providers = app.providers
               /\ frame = [p \in Picturing!Plots |-> Frame(b, p, Width, Height)]
  BY DEF IInv, IsDrawnOf
<1>2. frame[plot] = Frame(b, plot, Width, Height)
  BY <1>1
<1>3. frame[plot].charts = [k \in Charted(b) |-> ChartOf(b, k, plot, Width, Height)]
  BY <1>2 DEF Frame
<1>4. key \in DOMAIN frame[plot].charts /\ frame[plot].charts[key].note = ""
  BY DEF OnScreen
<1>5. frame[plot].charts[key] = ChartOf(b, key, plot, Width, Height)
  BY <1>3, <1>4
<1>6. History(b, key) # <<>> /\ IsChart(frame[plot].charts[key], Charting(b, key), key, plot)
  <2>. HIDE DEF OnScreen
  <2>. QED  BY <1>4, <1>5, NoteOfChart
<1>7. SeriesOf(b, key) = SeriesOf(app, key)
  BY <1>1 DEF SeriesOf
<1>8. Charting(b, key) = Charting(app, key)
  BY <1>7 DEF Charting, History, Latest
<1>9. key \in DOMAIN kept
  <2>1. key \in DOMAIN app.series
    <3>1. History(b, key) = SeriesOf(app, key).history
      BY <1>7 DEF History
    <3>2. NoSeries.history = <<>>
      BY DEF NoSeries
    <3>. QED  BY <1>6, <3>1, <3>2 DEF SeriesOf
  <2>. QED  BY <2>1 DEF IInv, SeriesAreLogged
<1>. QED  BY <1>6, <1>8, <1>9

\* The readings charted are the newest of the log.
LEMMA ChartingIsOfLog ==
  ASSUME IInv, NEW key \in DOMAIN kept
  PROVE  LET log == kept[key]
             n == Len(log)
             m == Fitting(n, HistoryCapacity)
             scale == IF key = HeapSize THEN Max({ByteScale(Latest(app, key)), 1}) ELSE 1
         IN /\ n \in Nat /\ m \in Nat /\ m <= n /\ m >= 1
            /\ Len(History(app, key)) = m /\ Len(Charting(app, key)) = m
            /\ DOMAIN Charting(app, key) = 1 .. m
            /\ \A i \in 1 .. m :
                 /\ Charting(app, key)[i].at = log[n - m + i].at
                 /\ Charting(app, key)[i].value = Times(log[n - m + i].value, scale)
            /\ Latest(app, key).value = log[n].value
            /\ KeyOf(Latest(app, key)) = key
<1>. DEFINE log == kept[key]
            n == Len(log)
            m == Fitting(n, HistoryCapacity)
            scale == IF key = HeapSize THEN Max({ByteScale(Latest(app, key)), 1}) ELSE 1
            entry(i) == [at |-> log[n - m + i].at, value |-> log[n - m + i].value]
            h == History(app, key)
            ch == Charting(app, key)
            latest == Latest(app, key)
<1>1. IsLogged(app.series[key], log, key) /\ h = app.series[key].history
      /\ latest = app.series[key].latest
  BY HistoryOfLog
<1>2. n \in Nat /\ n >= 1 /\ m \in Nat /\ m <= n /\ m >= 1
  <2>1. IsSequence(log) /\ log # <<>>
    BY <1>1 DEF IsLogged
  <2>. HIDE DEF log
  <2>2. n \in Nat /\ n >= 1
    BY <2>1 DEF IsSequence
  <2>. HIDE DEF n
  <2>. QED  BY <2>2, HistoryAssumption DEF Fitting
<1>3. h = [i \in 1 .. m |-> entry(i)]
  <2>1. IsSequence(log) /\ h = Shown(Picturing!Recent(log, HistoryCapacity))
    BY <1>1 DEF IsLogged
  <2>. HIDE DEF h, log
  <2>. QED  BY <2>1, ShownRecent
<1>4. latest.value = log[n].value /\ KeyOf(latest) = key
  <2>. DEFINE r == Picturing!Recent(log, HistoryCapacity)
  <2>1. latest.value = r[Len(r)].value /\ KeyOf(latest) = key /\ IsSequence(log)
    <3>. HIDE DEF latest, log
    <3>. QED  BY <1>1 DEF IsLogged
  <2>2. r = [i \in 1 .. m |-> log[n - m + i]] /\ Len(r) = m
    <3>. HIDE DEF log
    <3>. QED  BY <2>1, RecentOf, HistoryAssumption
  <2>3. r[m] = log[n]
    <3>1. m \in 1 .. m /\ n - m + m = n
      <4>. HIDE DEF m, n
      <4>. QED  BY <1>2
    <3>. HIDE DEF r, m, n, log
    <3>. QED  BY <2>2, <3>1
  <2>. HIDE DEF r, m, n, log, latest
  <2>. QED  BY <2>1, <2>2, <2>3
<1>5. ch = [i \in DOMAIN h |-> [h[i] EXCEPT !.value = Times(h[i].value, scale)]]
  BY DEF Charting
<1>. HIDE DEF h, ch, m, n, log, latest, scale
<1>6. h = [i \in 1 .. m |-> h[i]] /\ DOMAIN h = 1 .. m
  BY <1>3
<1>7. Len(h) = m
  BY <1>2, <1>6, NumberedSequence
<1>8. ch = [i \in 1 .. m |-> ch[i]] /\ DOMAIN ch = 1 .. m
  BY <1>5, <1>6
<1>9. Len(ch) = m
  BY <1>2, <1>8, NumberedSequence
<1>10. ASSUME NEW i \in 1 .. m
       PROVE  ch[i].at = log[n - m + i].at /\ ch[i].value = Times(log[n - m + i].value, scale)
  <2>. DEFINE x == log[n - m + i].at
              y == log[n - m + i].value
              z == Times(y, scale)
  <2>1. h[i] = [at |-> x, value |-> y]
    BY <1>3
  <2>. HIDE DEF x, y, z
  <2>2. ch[i] = [h[i] EXCEPT !.value = z]
    <3>1. h[i].value = y
      BY <2>1
    <3>. QED  BY <1>5, <1>6, <3>1 DEF z
  <2>3. ch[i] = [at |-> x, value |-> z]
    BY <2>1, <2>2
  <2>4. ch[i].at = x /\ ch[i].value = z
    BY <2>3
  <2>. QED  BY <2>4 DEF x, y, z
<1>. QED  BY <1>2, <1>4, <1>7, <1>8, <1>9, <1>10 DEF h, ch, m, n, log, latest, scale

\* A chart has a last column.
LEMMA LastColumn ==
  ASSUME NEW plot
  PROVE  LET last == Picturing!Capacity(plot, InnerWidth)
         IN last \in Nat \ {0} /\ Columns(plot) = 1 .. last /\ Newest(plot) = last
<1>. DEFINE last == Picturing!Capacity(plot, InnerWidth)
<1>1. last \in Nat \ {0}
  BY InnerSize DEF Picturing!Capacity, Picturing!SamplesPerCell
<1>2. Columns(plot) = 1 .. last /\ Newest(plot) = last
  BY DEF Columns, Newest
<1>. HIDE DEF last
<1>3. last \in Nat \ {0} /\ Columns(plot) = 1 .. last /\ Newest(plot) = last
  BY <1>1, <1>2
<1>. QED  BY <1>3 DEF last

\* A chart's span is the time between the oldest and the newest reading in it,
\* whatever rates they were polled at (app.rs:101, chart.rs:98).
THEOREM SpansAreTimes == Spec => []SpanIsTime
<1>1. IInv => SpanIsTime
  <2>. DEFINE shown(key, plot) == {c \in Columns(plot) : PlaceOf(key, plot, c) >= 1}
  <2>. SUFFICES ASSUME IInv, NEW plot \in Picturing!Plots, NEW key \in OnScreen(plot)
                PROVE  LET log == KeptOf(key)
                           count == Cardinality(shown(key, plot))
                       IN frame[plot].charts[key].span =
                            IF count < 2 THEN -1
                            ELSE log[Len(log)].at - log[Len(log) - count + 1].at
    BY DEF SpanIsTime
  <2>. DEFINE log == kept[key]
              n == Len(log)
              m == Fitting(n, HistoryCapacity)
              last == Picturing!Capacity(plot, InnerWidth)
              k == Fitting(m, last)
              ch == Charting(app, key)
              span == frame[plot].charts[key].span
  <2>1. key \in DOMAIN kept /\ KeptOf(key) = log
        /\ span = Picturing!SpanLabel(ch, plot, InnerWidth)
    BY OnScreenIsKept DEF KeptOf, IsChart
  <2>2. /\ n \in Nat /\ m \in Nat /\ m <= n /\ m >= 1
        /\ Len(History(app, key)) = m /\ Len(ch) = m
        /\ \A i \in 1 .. m : ch[i].at = log[n - m + i].at
    BY <2>1, ChartingIsOfLog
  <2>3. last \in Nat \ {0} /\ Columns(plot) = 1 .. last /\ Newest(plot) = last
    BY LastColumn
  <2>. HIDE DEF m, n, log, ch, last
  <2>4. k \in Nat /\ k >= 1 /\ k <= m /\ k <= last
    BY <2>2, <2>3 DEF Fitting
  <2>5. Cardinality(shown(key, plot)) = k
    <3>1. shown(key, plot) = last - k + 1 .. last
      <4>1. \A c \in 1 .. last : (m - (last - c) >= 1) <=> c \in last - k + 1 .. last
        BY <2>2, <2>3, <2>4 DEF Fitting
      <4>2. shown(key, plot) = {c \in 1 .. last : m - (last - c) >= 1}
        BY <2>2, <2>3 DEF PlaceOf
      <4>3. last - k + 1 .. last \subseteq 1 .. last
        <5>. HIDE DEF k
        <5>. QED  BY <2>3, <2>4
      <4>. HIDE DEF k, shown
      <4>. QED  BY <4>1, <4>2, <4>3
    <3>2. last - k + 1 \in Int /\ last \in Int /\ last - (last - k + 1) + 1 = k
          /\ last - k + 1 <= last
      <4>. HIDE DEF k
      <4>. QED  BY <2>3, <2>4
    <3>. HIDE DEF k, shown
    <3>. DEFINE a == last - k + 1
    <3>3. Cardinality(a .. last) = IF a > last THEN 0 ELSE last - a + 1
      <4>1. a \in Int /\ last \in Int
        BY <3>2
      <4>. HIDE DEF a
      <4>. QED  BY <4>1, FS_Interval
    <3>4. ~(a > last)
      BY <3>2
    <3>. QED  BY <3>1, <3>2, <3>3, <3>4
  <2>6. span = IF k < 2 THEN -1 ELSE ch[m].at - ch[m - k + 1].at
    <3>1. Picturing!Min({m, last}) = k
      BY <2>2, <2>3, MinOfTwo DEF Picturing!Min, Min, Fitting
    <3>2. Picturing!SpanLabel(ch, plot, InnerWidth)
            = IF k < 2 THEN -1 ELSE ch[m].at - ch[m - k + 1].at
      <4>. HIDE DEF k
      <4>. QED  BY <2>2, <3>1 DEF Picturing!SpanLabel, last
    <3>. HIDE DEF span
    <3>. QED  BY <2>1, <3>2
  <2>7. ch[m].at = log[n].at /\ ch[m - k + 1].at = log[n - k + 1].at
    <3>. HIDE DEF k
    <3>1. m \in 1 .. m /\ n - m + m = n
      BY <2>2
    <3>2. m - k + 1 \in 1 .. m /\ n - m + (m - k + 1) = n - k + 1
      BY <2>2, <2>4
    <3>. QED  BY <2>2, <3>1, <3>2
  <2>8. span = IF k < 2 THEN -1 ELSE log[n].at - log[n - k + 1].at
    <3>. HIDE DEF k, span
    <3>. QED  BY <2>6, <2>7
  <2>9. Len(KeptOf(key)) = n
    BY <2>1 DEF n
  <2>. HIDE DEF k, shown
  <2>. QED  BY <2>1, <2>5, <2>8, <2>9
<1>. QED  BY <1>1, Invariant, PTL

\* The memory chart, drawn in bytes, and the panel beside it agree on the newest
\* reading, however the runtime reports the counter (dashboard.rs:392, catalog.rs:97).
THEOREM ChartsAgree == Spec => []ChartAgreesWithPanel
<1>1. IInv => ChartAgreesWithPanel
  <2>. SUFFICES ASSUME IInv, NEW plot \in Picturing!Plots, HeapSize \in OnScreen(plot)
                PROVE  FormatSample(Latest(app, HeapSize))
                         = <<ReadingAt(HeapSize, plot, Newest(plot)), "bytes">>
    BY DEF ChartAgreesWithPanel
  <2>. DEFINE log == kept[HeapSize]
              n == Len(log)
              m == Fitting(n, HistoryCapacity)
              last == Picturing!Capacity(plot, InnerWidth)
              ch == Charting(app, HeapSize)
              latest == Latest(app, HeapSize)
              scale == Max({ByteScale(latest), 1})
  <2>1. HeapSize \in DOMAIN kept
    BY OnScreenIsKept
  <2>2. /\ n \in Nat /\ m \in Nat /\ m <= n /\ m >= 1
        /\ Len(History(app, HeapSize)) = m
        /\ \A i \in 1 .. m : ch[i].value = Times(log[n - m + i].value, scale)
        /\ latest.value = log[n].value /\ KeyOf(latest) = HeapSize
    BY <2>1, ChartingIsOfLog
  <2>3. last \in Nat \ {0} /\ Newest(plot) = last
    BY LastColumn
  <2>4. latest.provider = SystemRuntime /\ latest.name = "gc-heap-size"
    <3>. HIDE DEF latest
    <3>. QED  BY <2>2 DEF KeyOf, HeapSize
  <2>5. ByteScale(latest) = Mega
    <3>. HIDE DEF latest
    <3>. QED  BY <2>4 DEF ByteScale, MegabyteCounters
  <2>6. scale = Mega
    <3>. HIDE DEF latest
    <3>. QED  BY <2>5, MaxOfTwo DEF Mega
  <2>7. ReadingAt(HeapSize, plot, last) = ch[m].value
    <3>. HIDE DEF m, n, last, ch
    <3>1. PlaceOf(HeapSize, plot, last) = m
      BY <2>2, <2>3 DEF PlaceOf
    <3>. QED  BY <2>2, <3>1 DEF ReadingAt, ch
  <2>8. ch[m].value = Times(latest.value, Mega)
    <3>. HIDE DEF m, n, last, ch, latest, scale
    <3>1. m \in 1 .. m /\ n - m + m = n
      BY <2>2
    <3>. QED  BY <2>2, <2>6, <3>1
  <2>9. FormatSample(latest) = <<Times(latest.value, Mega), "bytes">>
    <3>. HIDE DEF latest
    <3>. QED  BY <2>5 DEF FormatSample, Mega
  <2>. HIDE DEF latest, ch, last, m
  <2>10. FormatSample(latest) = <<ReadingAt(HeapSize, plot, Newest(plot)), "bytes">>
    BY <2>3, <2>7, <2>8, <2>9
  <2>. QED  BY <2>10 DEF latest
<1>. QED  BY <1>1, Invariant, PTL

----------------------------------------------------------------------------
(* Rounding.                                                               *)

\* A product grows with its first factor.
LEMMA TimesGrows ==
  ASSUME NEW m \in Int, NEW n \in Int, NEW b \in Nat, m <= n
  PROVE  m * b <= n * b
OBVIOUS

\* A quotient rounded is within half the divisor.
LEMMA Rounded ==
  ASSUME NEW a \in Nat, NEW b \in Nat \ {0}
  PROVE  LET q == Picturing!RoundDiv(a, b)
         IN q \in Nat /\ 2 * (q * b) <= 2 * a + b /\ 2 * a < 2 * (q * b) + b
<1>. DEFINE n == 2 * a + b
            d == 2 * b
            q == n \div d
<1>1. n \in Nat /\ d \in Nat /\ d > 0
  OBVIOUS
<1>2. q \in Nat /\ d * q <= n /\ n < d * q + d
  <2>. HIDE DEF n, d
  <2>. QED  BY <1>1
<1>3. d * q = 2 * (q * b)
  <2>. HIDE DEF q
  <2>. QED  BY <1>2
<1>. HIDE DEF q
<1>4. q \in Nat /\ 2 * (q * b) <= 2 * a + b /\ 2 * a < 2 * (q * b) + b
  BY <1>2, <1>3
<1>. QED  BY <1>4 DEF q, Picturing!RoundDiv

\* More is rounded to no less.
LEMMA RoundedGrows ==
  ASSUME NEW a \in Nat, NEW e \in Nat, a <= e, NEW b \in Nat \ {0}
  PROVE  Picturing!RoundDiv(a, b) <= Picturing!RoundDiv(e, b)
<1>. DEFINE q == Picturing!RoundDiv(a, b)
            r == Picturing!RoundDiv(e, b)
            x == q * b
            y == r * b
            z == (r + 1) * b
<1>1. q \in Nat /\ 2 * x <= 2 * a + b
  BY Rounded
<1>2. r \in Nat /\ 2 * e < 2 * y + b
  BY Rounded
<1>. HIDE DEF q, r
<1>3. z = y + b
  BY <1>2
<1>4. ASSUME r + 1 <= q PROVE FALSE
  <2>1. z <= x
    BY <1>1, <1>2, <1>4, TimesGrows
  <2>. HIDE DEF x, y, z
  <2>2. x \in Int /\ y \in Int
    BY <1>1, <1>2 DEF x, y
  <2>. QED  BY <1>1, <1>2, <1>3, <2>1, <2>2
<1>5. q <= r
  BY <1>1, <1>2, <1>4
<1>. QED  BY <1>5 DEF q, r

----------------------------------------------------------------------------
(* A column is solid up to its height.                                     *)

\* The size of a plot in columns and steps, by its kind.
LEMMA SizeOfPlot ==
  ASSUME NEW plot
  PROVE  /\ InnerWidth \in Nat \ {0} /\ InnerHeight \in Nat \ {0}
         /\ SubRows(plot) \in Nat \ {0}
         /\ plot = "block" => Columns(plot) = 1 .. InnerWidth /\ SubRows(plot) = InnerHeight * 8
         /\ plot # "block" => Columns(plot) = 1 .. InnerWidth * 2 /\ SubRows(plot) = InnerHeight * 4
<1>1. InnerWidth \in Nat \ {0} /\ InnerHeight \in Nat \ {0}
  BY InnerSize
<1>2. Columns(plot) = 1 .. InnerWidth * Picturing!SamplesPerCell(plot)
      /\ SubRows(plot) = InnerHeight * Picturing!RowsPerCell(plot)
  BY DEF Columns, Newest, SubRows, Picturing!Capacity
<1>3. Picturing!SamplesPerCell(plot) = (IF plot = "block" THEN 1 ELSE 2)
      /\ Picturing!RowsPerCell(plot) = (IF plot = "block" THEN 8 ELSE 4)
  BY DEF Picturing!SamplesPerCell, Picturing!RowsPerCell
<1>. QED  BY <1>1, <1>2, <1>3

\* What Lit says of a picture drawn from heights.
Drawn(heights, plot) ==
  LET subRows == InnerHeight * Picturing!RowsPerCell(plot)
      symbol(p) == IF plot = "block" THEN Picturing!BlockSymbol(heights, subRows, p[1], p[2])
                   ELSE Picturing!DotSymbol(heights, subRows, p[1], p[2])
  IN [p \in {q \in Picturing!Area(InnerWidth, InnerHeight) : ~Picturing!IsBlank(plot, symbol(q))}
        |-> symbol(p)]

\* Eighths, a column to a cell.
LEMMA BlocksAreSolid ==
  ASSUME NEW heights, \A d \in 1 .. InnerWidth : heights[d] \in 0 .. InnerHeight * 8,
         NEW c \in 1 .. InnerWidth, NEW h \in 1 .. InnerHeight * 8
  PROVE  Lit(Drawn(heights, "block"), "block", c, h) <=> h <= heights[c]
<1>. DEFINE k == (h - 1) \div 8
            m == (h - 1) % 8
            y == InnerHeight - 1 - k
            cell == <<c - 1, y>>
            picture == Drawn(heights, "block")
            eighths(a, b) == Picturing!BlockSymbol(heights, InnerHeight * 8, a, b)
            full == heights[c] - 8 * k
            s == IF full <= 0 THEN 0 ELSE IF full <= 8 THEN full ELSE 8
<1>0. InnerWidth \in Nat \ {0} /\ InnerHeight \in Nat \ {0}
  BY InnerSize
<1>1. k \in 0 .. InnerHeight - 1 /\ m \in 0 .. 7 /\ h = 8 * k + m + 1
  BY <1>0
<1>. HIDE DEF k, m
<1>2. /\ Picturing!RowsPerCell("block") = 8 /\ Picturing!SamplesPerCell("block") = 1
  BY DEF Picturing!RowsPerCell, Picturing!SamplesPerCell
<1>3. picture = [p \in {q \in Picturing!Area(InnerWidth, InnerHeight) : ~(eighths(q[1], q[2]) = 0)}
                   |-> eighths(p[1], p[2])]
  BY <1>2 DEF Drawn, Picturing!IsBlank
<1>4. cell \in Picturing!Area(InnerWidth, InnerHeight)
  BY <1>0, <1>1 DEF Picturing!Area
<1>5. eighths(c - 1, y) = s
  <2>1. eighths(c - 1, y) = Picturing!Min({Picturing!Max({full, 0}), 8})
    <3>1. c - 1 + 1 = c /\ heights[c] - (InnerHeight * 8 - (y + 1) * 8) = full
      BY <1>0, <1>1
    <3>. HIDE DEF y, full
    <3>. QED  BY <3>1 DEF Picturing!BlockSymbol
  <2>2. full \in Int
    BY <1>0, <1>1
  <2>. HIDE DEF full, eighths, y
  <2>3. Picturing!Max({full, 0}) = IF full <= 0 THEN 0 ELSE full
    BY <2>2 DEF Picturing!Max
  <2>4. Picturing!Min({IF full <= 0 THEN 0 ELSE full, 8}) = s
    BY <2>2 DEF Picturing!Min
  <2>. QED  BY <2>1, <2>3, <2>4
<1>6. Lit(picture, "block", c, h) <=> cell \in DOMAIN picture /\ m < picture[cell]
  <2>1. (c - 1) \div 1 = c - 1
    OBVIOUS
  <2>. HIDE DEF picture
  <2>. QED  BY <1>2, <2>1 DEF Lit, k, m, y
<1>7. Lit(picture, "block", c, h) <=> s # 0 /\ m < s
  <2>1. cell[1] = c - 1 /\ cell[2] = y
    OBVIOUS
  <2>2. cell \in DOMAIN picture <=> s # 0
    <3>. HIDE DEF cell, eighths, s, y
    <3>. QED  BY <1>3, <1>4, <1>5, <2>1
  <2>3. cell \in DOMAIN picture => picture[cell] = s
    <3>. HIDE DEF cell, eighths, s, y
    <3>. QED  BY <1>3, <1>5, <2>1
  <2>. HIDE DEF picture, cell, s
  <2>. QED  BY <1>6, <2>2, <2>3
<1>8. s # 0 /\ m < s <=> h <= heights[c]
  BY <1>0, <1>1
<1>. HIDE DEF s, picture
<1>9. Lit(picture, "block", c, h) <=> h <= heights[c]
  BY <1>7, <1>8
<1>. QED  BY <1>9 DEF picture

\* Dots, two columns to a cell.
LEMMA DotsAreSolid ==
  ASSUME NEW plot \in {"braille", "octant"},
         NEW heights, \A d \in 1 .. InnerWidth * 2 : heights[d] \in 0 .. InnerHeight * 4,
         NEW c \in 1 .. InnerWidth * 2, NEW h \in 1 .. InnerHeight * 4
  PROVE  Lit(Drawn(heights, plot), plot, c, h) <=> h <= heights[c]
<1>. DEFINE k == (h - 1) \div 4
            m == (h - 1) % 4
            x == (c - 1) \div 2
            z == (c - 1) % 2
            y == InnerHeight - 1 - k
            cell == <<x, y>>
            dot == <<3 - m, z>>
            picture == Drawn(heights, plot)
            dots(a, b) == Picturing!DotSymbol(heights, InnerHeight * 4, a, b)
<1>0. InnerWidth \in Nat \ {0} /\ InnerHeight \in Nat \ {0}
  BY InnerSize
<1>1. k \in 0 .. InnerHeight - 1 /\ m \in 0 .. 3 /\ h = 4 * k + m + 1
  BY <1>0
<1>2. x \in 0 .. InnerWidth - 1 /\ z \in 0 .. 1 /\ c = 2 * x + z + 1
  BY <1>0
<1>. HIDE DEF k, m, x, z
<1>3. /\ Picturing!RowsPerCell(plot) = 4 /\ Picturing!SamplesPerCell(plot) = 2
      /\ plot # "block"
  BY DEF Picturing!RowsPerCell, Picturing!SamplesPerCell
<1>4. picture = [p \in {q \in Picturing!Area(InnerWidth, InnerHeight) : ~(dots(q[1], q[2]) = {})}
                   |-> dots(p[1], p[2])]
  BY <1>3 DEF Drawn, Picturing!IsBlank
<1>5. cell \in Picturing!Area(InnerWidth, InnerHeight) /\ cell[1] = x /\ cell[2] = y
  BY <1>0, <1>1, <1>2 DEF Picturing!Area
<1>6. dot \in dots(x, y) <=> h <= heights[c]
  <2>1. dot \in (0 .. 3) \X (0 .. 1) /\ dot[1] = 3 - m /\ dot[2] = z
    BY <1>1, <1>2
  <2>2. 2 * x + dot[2] + 1 = c /\ InnerHeight * 4 - (y * 4 + dot[1]) = h
    <3>. HIDE DEF dot
    <3>. QED  BY <1>0, <1>1, <1>2, <2>1
  <2>3. dot \in dots(x, y) <=> heights[2 * x + dot[2] + 1] >= InnerHeight * 4 - (y * 4 + dot[1])
    <3>. HIDE DEF dot, y
    <3>. QED  BY <2>1 DEF Picturing!DotSymbol
  <2>. HIDE DEF dot, dots, y
  <2>. QED  BY <2>2, <2>3
<1>7. Lit(picture, plot, c, h) <=> cell \in DOMAIN picture /\ dot \in picture[cell]
  <2>1. 4 - 1 - m = 3 - m
    BY <1>1
  <2>. HIDE DEF picture
  <2>. QED  BY <1>3, <2>1 DEF Lit, k, m, x, z, y
<1>. HIDE DEF picture, dots, cell, dot, y
<1>8. cell \in DOMAIN picture <=> dots(x, y) # {}
  BY <1>4, <1>5
<1>9. cell \in DOMAIN picture => picture[cell] = dots(x, y)
  BY <1>4, <1>5
<1>10. Lit(picture, plot, c, h) <=> h <= heights[c]
  BY <1>6, <1>7, <1>8, <1>9
<1>. QED  BY <1>10 DEF picture

\* How high a reading is drawn: within half a step, but at least a step.
LEMMA HeightOfReading ==
  ASSUME NEW v \in Nat, IsFinite(v), v > 0, NEW max, max[1] \in Nat \ {0}, max[2] \in Nat \ {0},
         v * max[2] <= max[1], NEW rows \in Nat \ {0}
  PROVE  LET n == Picturing!SubRowsFor(v, max, rows)
         IN /\ n \in 1 .. rows
            /\ n * max[1] - v * rows * max[2] < max[1]
            /\ v * rows * max[2] - n * max[1] < max[1]
            /\ n = Picturing!Max({Picturing!RoundDiv(v * rows * max[2], max[1]), 1})
<1>. DEFINE b == max[1]
            d == max[2]
            a == v * rows * d
            q == Picturing!RoundDiv(a, b)
            n == IF q = 0 THEN 1 ELSE q
            qb == q * b
            top == rows * b
            over == (rows + 1) * b
<1>1. a \in Nat /\ a > 0 /\ a <= top
  <2>. DEFINE e == v * d
  <2>1. d \in Nat /\ d > 0 /\ b \in Nat
    OBVIOUS
  <2>. HIDE DEF d, b
  <2>2. e \in Nat /\ e > 0
    BY <2>1
  <2>3. a = rows * e
    BY <2>1
  <2>4. e <= b
    BY DEF b, d
  <2>. HIDE DEF a, e
  <2>5. rows * e \in Nat /\ rows * e > 0
    BY <2>2
  <2>6. rows * e <= rows * b
    BY <2>1, <2>2, <2>4
  <2>. QED  BY <2>3, <2>5, <2>6
<1>2. b \in Nat \ {0}
  OBVIOUS
<1>3. q \in Nat /\ 2 * qb <= 2 * a + b /\ 2 * a < 2 * qb + b
  <2>. HIDE DEF a, b
  <2>. QED  BY <1>1, <1>2, Rounded
<1>. HIDE DEF a, b, q
<1>4. qb \in Nat /\ top \in Nat /\ over = top + b
  BY <1>2, <1>3
<1>5. q <= rows
  <2>1. ASSUME rows + 1 <= q PROVE FALSE
    <3>1. over <= qb
      BY <1>2, <1>3, <2>1, TimesGrows
    <3>. HIDE DEF over, qb, top
    <3>. QED  BY <1>1, <1>2, <1>3, <1>4, <3>1
  <2>. QED  BY <1>3, <2>1
<1>6. n \in 1 .. rows
  BY <1>3, <1>5
<1>7. n * b - a < b /\ a - n * b < b
  <2>1. CASE q = 0
    <3>1. qb = 0 /\ n * b = b
      BY <1>2, <2>1
    <3>. HIDE DEF qb, n
    <3>. QED  BY <1>1, <1>2, <1>3, <3>1
  <2>2. CASE q # 0
    <3>1. n * b = qb
      BY <2>2
    <3>. HIDE DEF qb, n
    <3>. QED  BY <1>1, <1>2, <1>3, <1>4, <3>1
  <2>. QED  BY <2>1, <2>2
<1>8. Picturing!Max({q, 1}) = n
  BY <1>3 DEF Picturing!Max
<1>9. Picturing!SubRowsFor(v, max, rows) = Picturing!Max({Picturing!Min({q, rows}), 1})
  BY DEF Picturing!SubRowsFor, q, a, b
<1>10. Picturing!Min({q, rows}) = q
  BY <1>3, <1>5 DEF Picturing!Min
<1>. HIDE DEF n
<1>11. /\ Picturing!SubRowsFor(v, max, rows) = n
       /\ n = Picturing!Max({Picturing!RoundDiv(v * rows * max[2], max[1]), 1})
  BY <1>8, <1>9, <1>10 DEF q, a, b
<1>. QED  BY <1>6, <1>7, <1>11 DEF a, b

----------------------------------------------------------------------------
(* The scale of a chart.                                                   *)

\* Finitely many integers have a largest one.
LEMMA MaxOfFinite ==
  ASSUME NEW S, IsFiniteSet(S), S \subseteq Int, S # {}
  PROVE  Max(S) \in S /\ \A x \in S : x <= Max(S)
<1>. DEFINE topped == {U \in SUBSET S : U = {} \/ \E x \in U : \A y \in U : x >= y}
<1>1. ASSUME NEW U \in SUBSET S, \A x \in U : U \ {x} \in topped PROVE U \in topped
  <2>1. CASE U = {}
    BY <2>1
  <2>2. CASE U # {}
    <3>1. PICK x \in U : TRUE
      BY <2>2
    <3>. DEFINE V == U \ {x}
    <3>2. V = {} \/ \E z \in V : \A y \in V : z >= y
      BY <1>1, <3>1
    <3>3. CASE V = {}
      <4>1. \A y \in U : y = x
        BY <3>3
      <4>2. x \in Int
        BY <3>1
      <4>. QED  BY <3>1, <4>1, <4>2
    <3>4. CASE \E z \in V : \A y \in V : z >= y
      <4>1. PICK z \in V : \A y \in V : z >= y
        BY <3>4
      <4>2. x \in Int /\ z \in Int /\ z \in U /\ U \subseteq Int
        BY <3>1, <4>1
      <4>3. \A y \in U : y = x \/ y \in V
        OBVIOUS
      <4>. HIDE DEF V
      <4>4. CASE x >= z
        <5>1. \A y \in U : x >= y
          BY <4>1, <4>2, <4>3, <4>4
        <5>. QED  BY <3>1, <5>1
      <4>5. CASE z >= x
        <5>1. \A y \in U : z >= y
          BY <4>1, <4>2, <4>3, <4>5
        <5>. QED  BY <4>2, <5>1
      <4>. QED  BY <4>2, <4>4, <4>5
    <3>. QED  BY <3>2, <3>3, <3>4
  <2>. QED  BY <2>1, <2>2
<1>2. S \in topped
  <2>1. Hereditary(topped, S)
    <3>. HIDE DEF topped
    <3>. QED  BY <1>1 DEF Hereditary
  <2>. HIDE DEF topped
  <2>. QED  BY <2>1, SubsetsByInduction
<1>3. \E x \in S : \A y \in S : x >= y
  BY <1>2
<1>4. Max(S) \in S /\ \A y \in S : Max(S) >= y
  BY <1>3 DEF Max
<1>. QED  BY <1>4

\* A sequence of numbers.
OfNumbers(values) == IsSequence(values) /\ Range(values) \subseteq Nat

\* The peak of some readings is above each that is a number.
LEMMA PeakIsAbove ==
  ASSUME NEW values, OfNumbers(values)
  PROVE  LET peak == Picturing!Peak(values)
         IN peak \in Nat /\ \A v \in Range(values) : IsFinite(v) => v <= peak
<1>. DEFINE S == {0} \cup {v \in Range(values) : IsFinite(v)}
<1>1. IsFiniteSet(S)
  <2>. DEFINE n == Len(values)
              T == {0} \cup Range(values)
  <2>1. n \in Nat /\ DOMAIN values = 1 .. n
    BY DEF OfNumbers, IsSequence
  <2>2. IsFiniteSet(1 .. n)
    <3>1. n \in Int /\ 1 \in Int
      BY <2>1
    <3>. HIDE DEF n
    <3>. QED  BY <3>1, FS_Interval
  <2>3. IsFiniteSet(Range(values))
    <3>1. Range(values) = {values[i] : i \in 1 .. n}
      BY <2>1 DEF Range
    <3>. HIDE DEF n
    <3>2. values \in [1 .. n -> Range(values)]
      BY <2>1 DEF OfNumbers, IsSequence, Range
    <3>3. values \in Surjection(1 .. n, Range(values))
      BY <3>1, <3>2 DEF Surjection
    <3>. QED  BY <2>2, <3>3, FS_Surjection
  <2>4. IsFiniteSet(T)
    BY <2>3, FS_AddElement
  <2>5. S \subseteq T
    OBVIOUS
  <2>. HIDE DEF S, T
  <2>. QED  BY <2>4, <2>5, FS_Subset
<1>2. S \subseteq Int /\ S \subseteq Nat /\ S # {}
  BY DEF OfNumbers
<1>3. Picturing!Peak(values) = Max(S)
  BY DEF Picturing!Peak, Picturing!Max, Picturing!Range, Max, Range
<1>4. \A v \in Range(values) : IsFinite(v) => v \in S
  OBVIOUS
<1>. HIDE DEF S
<1>5. Max(S) \in S /\ \A x \in S : x <= Max(S)
  BY <1>1, <1>2, MaxOfFinite
<1>. QED  BY <1>2, <1>3, <1>4, <1>5

\* The top of a chart is above each reading that is a number.
LEMMA ScaleIsAbove ==
  ASSUME NEW values, OfNumbers(values), NEW key
  PROVE  LET max == Picturing!FullScale(values, ScaleOf(key))
         IN /\ max[1] \in Nat \ {0} /\ max[2] \in Nat \ {0}
            /\ \A v \in Range(values) : IsFinite(v) => v * max[2] <= max[1]
<1>. DEFINE peak == Picturing!Peak(values)
            max == Picturing!FullScale(values, ScaleOf(key))
            higher == Picturing!Max({100, peak})
<1>1. peak \in Nat /\ \A v \in Range(values) : IsFinite(v) => v <= peak
  BY PeakIsAbove
<1>2. Range(values) \subseteq Nat
  BY DEF OfNumbers
<1>. HIDE DEF peak
<1>3. higher = IF peak >= 100 THEN peak ELSE 100
  BY <1>1 DEF Picturing!Max
<1>. HIDE DEF higher
<1>4. max = IF key = CpuUsage THEN <<higher, 1>>
            ELSE IF peak > 0 THEN <<peak * 108, 100>> ELSE <<1, 1>>
  BY DEF Picturing!FullScale, ScaleOf, Picturing!FixedAt, Picturing!Auto, peak, higher
<1>. HIDE DEF max
<1>5. CASE max = <<higher, 1>>
  BY <1>1, <1>2, <1>3, <1>5 DEF max
<1>6. CASE max = <<peak * 108, 100>> /\ peak > 0
  BY <1>1, <1>2, <1>6 DEF max
<1>7. CASE max = <<1, 1>> /\ peak = 0
  BY <1>1, <1>2, <1>7 DEF max
<1>. QED  BY <1>1, <1>4, <1>5, <1>6, <1>7 DEF max

----------------------------------------------------------------------------
(* The heights of the columns.                                             *)

\* The reading that is put into a column, counted from the newest.
InColumn(values, columns, c) ==
  LET i == Len(values) - (columns - c) IN IF i >= 1 THEN values[i] ELSE -1

\* What Aligned puts in a column: a reading, or a blank where there is none yet.
LEMMA AlignedAt ==
  ASSUME NEW values, IsSequence(values), NEW columns \in Nat
  PROVE  LET aligned == Picturing!Aligned(values, columns)
         IN /\ DOMAIN aligned = 1 .. columns
            /\ \A c \in 1 .. columns : aligned[c] = InColumn(values, columns, c)
<1>. DEFINE n == Len(values)
            m == Fitting(n, columns)
            recent == Picturing!Recent(values, columns)
            blanks == [i \in 1 .. columns - m |-> Picturing!Blank]
            aligned == blanks \o recent
            k == columns - m
<1>1. n \in Nat
  BY DEF IsSequence
<1>2. /\ m \in Nat /\ m <= n /\ m <= columns
      /\ recent = [i \in 1 .. m |-> values[n - m + i]] /\ Len(recent) = m
  BY RecentOf
<1>3. Picturing!Aligned(values, columns) = aligned
  <2>. HIDE DEF recent, m
  <2>. QED  BY <1>2 DEF Picturing!Aligned, recent
<1>4. k \in Nat /\ m = Fitting(n, columns)
  <2>. HIDE DEF m
  <2>1. k \in Nat
    BY <1>2
  <2>. QED  BY <2>1 DEF m
<1>. HIDE DEF recent, n, m
<1>5. blanks = [i \in 1 .. k |-> -1]
  BY DEF Picturing!Blank
<1>. HIDE DEF blanks, k
<1>6. IsSequence(blanks) /\ Len(blanks) = k /\ DOMAIN blanks = 1 .. k
  <2>1. blanks = [i \in 1 .. k |-> blanks[i]] /\ DOMAIN blanks = 1 .. k
    BY <1>5
  <2>. QED  BY <1>4, <2>1, NumberedSequence
<1>7. IsSequence(recent) /\ DOMAIN recent = 1 .. m
  <2>1. recent = [i \in 1 .. m |-> recent[i]] /\ DOMAIN recent = 1 .. m
    BY <1>2
  <2>. QED  BY <1>2, <2>1, NumberedSequence
<1>8. /\ DOMAIN aligned = 1 .. k + m
      /\ \A i \in 1 .. k : aligned[i] = blanks[i]
      /\ \A i \in 1 .. m : aligned[k + i] = recent[i]
  <2>. DEFINE T == Range(blanks) \cup Range(recent)
  <2>1. blanks \in Seq(T) /\ recent \in Seq(T)
    BY <1>6, <1>7 DEF IsSequence
  <2>. HIDE DEF T
  <2>. QED  BY <1>2, <1>6, <2>1
<1>. HIDE DEF aligned
<1>9. DOMAIN aligned = 1 .. columns
  BY <1>2, <1>8 DEF k
<1>10. ASSUME NEW c \in 1 .. columns PROVE aligned[c] = InColumn(values, columns, c)
  <2>. DEFINE i == n - (columns - c)
  <2>1. InColumn(values, columns, c) = IF i >= 1 THEN values[i] ELSE -1
    BY DEF InColumn, n
  <2>2. CASE c <= k
    <3>1. ~(i >= 1)
      BY <1>1, <1>2, <1>4, <2>2 DEF k, Fitting
    <3>2. aligned[c] = -1
      BY <1>4, <1>5, <1>8, <2>2
    <3>. QED  BY <2>1, <3>1, <3>2
  <2>3. CASE ~(c <= k)
    <3>. DEFINE j == c - k
    <3>1. j \in 1 .. m /\ k + j = c /\ n - m + j = i /\ i >= 1
      BY <1>1, <1>2, <2>3 DEF k
    <3>. HIDE DEF i, j
    <3>2. aligned[c] = recent[j] /\ recent[j] = values[i]
      BY <1>2, <1>8, <3>1
    <3>. QED  BY <2>1, <3>1, <3>2
  <2>. QED  BY <2>2, <2>3
<1>. QED  BY <1>3, <1>9, <1>10

\* How high a column is drawn.
HeightOf(v, max, plot) == Picturing!SubRowsFor(v, max, SubRows(plot))

\* A picture shows each reading in its column, solid up to its height.
LEMMA PictureShows ==
  ASSUME NEW values, IsSequence(values), NEW max, max[1] \in Nat \ {0},
         NEW plot \in Picturing!Plots,
         \A c \in Columns(plot) :
           HeightOf(InColumn(values, Newest(plot), c), max, plot) \in 0 .. SubRows(plot)
  PROVE  \A c \in Columns(plot) :
           LitSteps(Picturing!Picture(values, max, plot, InnerWidth, InnerHeight), plot, c)
             = 1 .. HeightOf(InColumn(values, Newest(plot), c), max, plot)
<1>. DEFINE picture == Picturing!Picture(values, max, plot, InnerWidth, InnerHeight)
            heights == Picturing!Heights(values, max, plot, InnerWidth, InnerHeight)
            last == Newest(plot)
            high(c) == HeightOf(InColumn(values, last, c), max, plot)
<1>1. last \in Nat /\ last = Picturing!Capacity(plot, InnerWidth) /\ Columns(plot) = 1 .. last
  BY LastColumn
<1>2. \A c \in Columns(plot) : heights[c] = high(c)
  <2>. DEFINE aligned == Picturing!Aligned(values, last)
  <2>1. DOMAIN aligned = 1 .. last /\ \A c \in 1 .. last : aligned[c] = InColumn(values, last, c)
    <3>. HIDE DEF last
    <3>. QED  BY <1>1, AlignedAt
  <2>2. heights = [c \in DOMAIN aligned |-> Picturing!SubRowsFor(aligned[c], max, SubRows(plot))]
    <3>. HIDE DEF last
    <3>. QED  BY <1>1 DEF Picturing!Heights, SubRows
  <2>. HIDE DEF last, aligned, heights
  <2>. QED  BY <1>1, <2>1, <2>2 DEF HeightOf
<1>3. picture = Drawn(heights, plot)
  <2>1. Picturing!Drawable(InnerWidth, InnerHeight, max)
    BY InnerSize DEF Picturing!Drawable
  <2>. HIDE DEF heights
  <2>. QED  BY <2>1 DEF Picturing!Picture, Drawn, heights
<1>. HIDE DEF picture, heights, high, last
<1>4. \A c \in Columns(plot) : heights[c] \in 0 .. SubRows(plot)
  BY <1>2 DEF high, last
<1>5. ASSUME NEW c \in Columns(plot), NEW h \in 1 .. SubRows(plot)
      PROVE  Lit(picture, plot, c, h) <=> h <= heights[c]
  <2>1. CASE plot = "block"
    <3>1. Columns(plot) = 1 .. InnerWidth /\ SubRows(plot) = InnerHeight * 8
      BY <2>1, SizeOfPlot
    <3>. QED  BY <1>3, <1>4, <2>1, <3>1, BlocksAreSolid
  <2>2. CASE plot \in {"braille", "octant"}
    <3>1. Columns(plot) = 1 .. InnerWidth * 2 /\ SubRows(plot) = InnerHeight * 4
      BY <2>2, SizeOfPlot
    <3>. QED  BY <1>3, <1>4, <2>2, <3>1, DotsAreSolid
  <2>. QED  BY <2>1, <2>2 DEF Picturing!Plots
<1>6. SubRows(plot) \in Nat
  BY SizeOfPlot
<1>7. ASSUME NEW c \in Columns(plot) PROVE LitSteps(picture, plot, c) = 1 .. high(c)
  <2>. DEFINE n == heights[c]
              rows == SubRows(plot)
  <2>1. n \in 0 .. rows /\ rows \in Nat /\ n = high(c)
    BY <1>2, <1>4, <1>6
  <2>2. LitSteps(picture, plot, c) = {h \in 1 .. rows : h <= n}
    <3>. HIDE DEF n
    <3>. QED  BY <1>5 DEF LitSteps, n
  <2>. HIDE DEF n, rows
  <2>3. {h \in 1 .. rows : h <= n} = 1 .. n
    BY <2>1
  <2>. QED  BY <2>1, <2>2, <2>3
<1>. QED  BY <1>7 DEF picture, high, last

----------------------------------------------------------------------------
(* What follows for the pictures.                                          *)

\* What a chart is expected to show of a reading, if anything.
ShownOf(v) == IF IsFinite(v) THEN Max({v, 0}) ELSE 0

\* The readings that a chart is drawn of, all of them under its top.
Fits(v, max) == v \in Nat \cup {-1} /\ (IsFinite(v) /\ v > 0 => v * max[2] <= max[1])
IsScale(max) == max[1] \in Nat \ {0} /\ max[2] \in Nat \ {0}

\* Nothing is to be shown of a blank or of what is not finite.
LEMMA ShownIs ==
  ASSUME NEW v \in Nat \cup {-1}
  PROVE  ShownOf(v) = IF IsFinite(v) /\ v > 0 THEN v ELSE 0
<1>1. Max({v, 0}) = IF v >= 0 THEN v ELSE 0
  BY MaxOfTwo
<1>. QED  BY <1>1 DEF ShownOf

\* A plot has steps.
LEMMA RowsOfPlot ==
  ASSUME NEW plot
  PROVE  SubRows(plot) \in Nat \ {0}
BY SizeOfPlot

\* A reading has a height when there is something to show of it.
LEMMA HeightFits ==
  ASSUME NEW plot, NEW max, IsScale(max), NEW v, Fits(v, max)
  PROVE  /\ HeightOf(v, max, plot) \in 0 .. SubRows(plot)
         /\ HeightOf(v, max, plot) = 0 <=> ShownOf(v) = 0
<1>. DEFINE rows == SubRows(plot)
            n == HeightOf(v, max, plot)
<1>1. rows \in Nat \ {0}
  BY RowsOfPlot
<1>2. CASE IsFinite(v) /\ v > 0
  <2>1. v \in Nat /\ v * max[2] <= max[1]
    BY <1>2 DEF Fits
  <2>2. n \in 1 .. rows
    <3>. HIDE DEF rows
    <3>. QED  BY <1>1, <1>2, <2>1, HeightOfReading DEF HeightOf, IsScale, rows
  <2>3. ShownOf(v) = v
    BY <1>2, <2>1, ShownIs
  <2>. HIDE DEF n, rows
  <2>4. n \in 0 .. rows /\ (n = 0 <=> ShownOf(v) = 0)
    BY <1>1, <1>2, <2>1, <2>2, <2>3
  <2>. QED  BY <2>4 DEF n, rows
<1>3. CASE ~(IsFinite(v) /\ v > 0)
  <2>1. ~IsFinite(v) \/ v <= 0
    BY <1>3 DEF Fits
  <2>2. n = 0
    BY <2>1 DEF HeightOf, Picturing!SubRowsFor
  <2>3. ShownOf(v) = 0
    BY <1>3, ShownIs DEF Fits
  <2>. HIDE DEF n, rows
  <2>4. n \in 0 .. rows /\ (n = 0 <=> ShownOf(v) = 0)
    BY <1>1, <2>2, <2>3
  <2>. QED  BY <2>4 DEF n, rows
<1>. QED  BY <1>2, <1>3

\* More to show is drawn no lower.
LEMMA HeightGrows ==
  ASSUME NEW plot, NEW max, IsScale(max), NEW v, Fits(v, max), NEW w, Fits(w, max),
         ShownOf(v) <= ShownOf(w)
  PROVE  HeightOf(v, max, plot) <= HeightOf(w, max, plot)
<1>. DEFINE rows == SubRows(plot)
            m == HeightOf(v, max, plot)
            n == HeightOf(w, max, plot)
<1>1. rows \in Nat \ {0}
  BY RowsOfPlot
<1>2. m \in 0 .. rows /\ n \in 0 .. rows /\ (m = 0 <=> ShownOf(v) = 0)
  BY HeightFits
<1>3. CASE ShownOf(v) = 0
  <2>. HIDE DEF m, n, rows
  <2>1. m <= n
    BY <1>1, <1>2, <1>3
  <2>. QED  BY <2>1 DEF m, n
<1>4. CASE ShownOf(v) # 0
  <2>1. IsFinite(v) /\ v > 0 /\ v \in Nat /\ ShownOf(v) = v
    BY <1>4, ShownIs DEF Fits
  <2>2. IsFinite(w) /\ w > 0 /\ w \in Nat /\ ShownOf(w) = w
    BY <2>1, ShownIs DEF Fits
  <2>3. v <= w /\ v * max[2] <= max[1] /\ w * max[2] <= max[1]
    BY <2>1, <2>2 DEF Fits
  <2>. DEFINE a == v * rows * max[2]
              e == w * rows * max[2]
              q == Picturing!RoundDiv(a, max[1])
              r == Picturing!RoundDiv(e, max[1])
  <2>4. m = Picturing!Max({q, 1}) /\ n = Picturing!Max({r, 1})
    <3>. HIDE DEF rows, q, r, m, n
    <3>1. Picturing!SubRowsFor(v, max, rows) = Picturing!Max({q, 1})
      BY <1>1, <2>1, <2>3, HeightOfReading DEF IsScale, q
    <3>2. Picturing!SubRowsFor(w, max, rows) = Picturing!Max({r, 1})
      BY <1>1, <2>2, <2>3, HeightOfReading DEF IsScale, r
    <3>. QED  BY <3>1, <3>2 DEF m, n, rows, HeightOf
  <2>5. a \in Nat /\ e \in Nat /\ a <= e
    <3>. DEFINE d == max[2]
                k == rows * d
    <3>1. d \in Nat
      BY DEF IsScale
    <3>. HIDE DEF rows, d
    <3>2. k \in Nat /\ a = v * k /\ e = w * k
      BY <1>1, <2>1, <2>2, <3>1 DEF d
    <3>. HIDE DEF k, a, e
    <3>3. v * k <= w * k
      BY <2>1, <2>2, <2>3, <3>2, TimesGrows
    <3>4. v * k \in Nat /\ w * k \in Nat
      BY <2>1, <2>2, <3>2
    <3>. QED  BY <3>2, <3>3, <3>4
  <2>. HIDE DEF a, e
  <2>6. q <= r /\ q \in Nat /\ r \in Nat
    <3>. DEFINE b == max[1]
    <3>1. b \in Nat \ {0}
      BY DEF IsScale
    <3>. HIDE DEF b
    <3>2. Picturing!RoundDiv(a, b) <= Picturing!RoundDiv(e, b)
          /\ Picturing!RoundDiv(a, b) \in Nat /\ Picturing!RoundDiv(e, b) \in Nat
      BY <2>5, <3>1, Rounded, RoundedGrows
    <3>. QED  BY <3>2 DEF b
  <2>. HIDE DEF q, r, m, n
  <2>7. m <= n
    BY <2>4, <2>6 DEF Picturing!Max
  <2>. QED  BY <2>7 DEF m, n
<1>. QED  BY <1>3, <1>4

----------------------------------------------------------------------------
(* What the label of a chart leaves to be seen.                            *)

\* A label has so many characters, and its chart a column beyond them.
LEMMA LabelFits ==
  ASSUME NEW format, NEW max
  PROVE  LET n == Picturing!LabelOf(format, max, InnerWidth, InnerHeight)
         IN n \in Nat /\ n < InnerWidth
<1>1. ASSUME NEW n PROVE Picturing!Digits(n) \in Nat
  <2>. DEFINE S == {k \in 1 .. 9 : n >= 10 ^ k}
  <2>1. IsFiniteSet(1 .. 9)
    <3>1. \A k \in Nat : IsFiniteSet(1 .. k)
      BY FS_Interval
    <3>. QED  BY <3>1
  <2>2. S \subseteq 1 .. 9
    OBVIOUS
  <2>3. Picturing!Digits(n) = 1 + Cardinality(S)
    BY DEF Picturing!Digits, Picturing!Cardinality, Cardinality
  <2>. HIDE DEF S
  <2>4. Cardinality(S) \in Nat
    BY <2>1, <2>2, FS_Subset, FS_CardinalityType
  <2>. QED  BY <2>3, <2>4
<1>2. ASSUME NEW v, NEW decimals \in Nat PROVE Picturing!Printed(v, decimals) \in Nat
  <2>. DEFINE n == Picturing!RoundDiv(v[1] * 10 ^ decimals, v[2]) \div 10 ^ decimals
  <2>1. Picturing!Printed(v, decimals)
          = Picturing!Digits(n) + (IF decimals = 0 THEN 0 ELSE decimals + 1)
    BY DEF Picturing!Printed
  <2>. HIDE DEF n
  <2>2. Picturing!Digits(n) \in Nat
    BY <1>1
  <2>. QED  BY <2>1, <2>2
<1>3. Picturing!Chars(format, max) \in Nat
  <2>. DEFINE scaled == Picturing!InUnits(max)
  <2>1. Picturing!Chars(format, max) \in
          {Picturing!Printed(max, 1) + 1, Picturing!Printed(max, 0) + 2,
           Picturing!Printed(scaled, 1) + 4, Picturing!Printed(scaled, 2) + 4}
    <3>. HIDE DEF scaled
    <3>. QED  BY DEF Picturing!Chars, scaled
  <2>. HIDE DEF scaled
  <2>2. /\ Picturing!Printed(max, 0) \in Nat /\ Picturing!Printed(max, 1) \in Nat
        /\ Picturing!Printed(scaled, 1) \in Nat /\ Picturing!Printed(scaled, 2) \in Nat
    BY <1>2
  <2>. QED  BY <2>1, <2>2
<1>. QED  BY <1>3, InnerSize DEF Picturing!LabelOf

\* The lower of two heights, and the height up to which a column can be seen.
Lower(m, n) == IF m <= n THEN m ELSE n
Reach(chart, plot, c) ==
  IF (c - 1) \div Picturing!SamplesPerCell(plot) < chart.label
  THEN SubRows(plot) - Picturing!RowsPerCell(plot) ELSE SubRows(plot)

\* The label takes a cell off the top of a column, and never of the last.
LEMMA SeenUpTo ==
  ASSUME NEW plot, NEW chart, chart.label \in Nat, chart.label < InnerWidth,
         NEW c \in Columns(plot)
  PROVE  /\ Seen(chart, plot, c) = 1 .. Reach(chart, plot, c)
         /\ Reach(chart, plot, c) \in 0 .. SubRows(plot)
         /\ c = Newest(plot) => Reach(chart, plot, c) = SubRows(plot)
<1>. DEFINE all == SubRows(plot)
            cell == Picturing!RowsPerCell(plot)
            reach == Reach(chart, plot, c)
            under == (c - 1) \div Picturing!SamplesPerCell(plot) < chart.label
<1>1. all \in Nat /\ cell \in Nat /\ all - cell \in Nat
  <2>1. cell \in {4, 8} /\ all = InnerHeight * cell
    BY DEF Picturing!RowsPerCell, SubRows
  <2>. QED  BY <2>1, InnerSize
<1>2. reach = IF under THEN all - cell ELSE all
  BY DEF Reach
<1>3. Seen(chart, plot, c) = {h \in 1 .. all : ~(under /\ h > all - cell)}
  BY DEF Seen
<1>. HIDE DEF all, cell, reach
<1>4. {h \in 1 .. all : ~(under /\ h > all - cell)} = 1 .. reach
  <2>. HIDE DEF under
  <2>1. CASE under
    BY <1>1, <1>2, <2>1
  <2>2. CASE ~under
    BY <1>1, <1>2, <2>2
  <2>. QED  BY <2>1, <2>2
<1>5. reach \in 0 .. all
  BY <1>1, <1>2
<1>6. ASSUME c = Newest(plot) PROVE reach = all
  <2>1. (c - 1) \div Picturing!SamplesPerCell(plot) = InnerWidth - 1
    <3>1. CASE plot = "block"
      <4>1. c = InnerWidth
        BY <1>6, <3>1, InnerSize DEF Newest, Picturing!Capacity, Picturing!SamplesPerCell
      <4>. QED  BY <3>1, <4>1, InnerSize DEF Picturing!SamplesPerCell
    <3>2. CASE plot # "block"
      <4>1. c = InnerWidth * 2
        BY <1>6, <3>2, InnerSize DEF Newest, Picturing!Capacity, Picturing!SamplesPerCell
      <4>. QED  BY <3>2, <4>1, InnerSize DEF Picturing!SamplesPerCell
    <3>. QED  BY <3>1, <3>2
  <2>. QED  BY <1>2, <2>1, InnerSize
<1>. QED  BY <1>3, <1>4, <1>5, <1>6 DEF all, reach

\* Of the steps drawn those that can be seen are left.
LEMMA LitBeneath ==
  ASSUME NEW plot, NEW picture, NEW chart, chart.label \in Nat,
         chart.picture = Picturing!Beneath(picture, chart.label), NEW c \in Columns(plot)
  PROVE  LitSteps(chart.picture, plot, c) = LitSteps(picture, plot, c) \cap Seen(chart, plot, c)
<1>1. ASSUME NEW h \in 1 .. SubRows(plot)
      PROVE  Lit(chart.picture, plot, c, h)
               <=> Lit(picture, plot, c, h) /\ h \in Seen(chart, plot, c)
  <2>. DEFINE rows == Picturing!RowsPerCell(plot)
              x == (c - 1) \div Picturing!SamplesPerCell(plot)
              y == InnerHeight - 1 - ((h - 1) \div rows)
              cell == <<x, y>>
              shown(drawn) ==
                IF plot = "block" THEN (h - 1) % rows < drawn[cell]
                ELSE <<rows - 1 - ((h - 1) % rows), (c - 1) % Picturing!SamplesPerCell(plot)>>
                       \in drawn[cell]
  <2>1. \A drawn : Lit(drawn, plot, c, h) <=> cell \in DOMAIN drawn /\ shown(drawn)
    BY DEF Lit
  <2>2. y = 0 <=> h > SubRows(plot) - rows
    <3>1. rows \in {4, 8} /\ SubRows(plot) = InnerHeight * rows
      BY DEF Picturing!RowsPerCell, SubRows
    <3>. HIDE DEF rows
    <3>2. CASE rows = 4
      BY <3>1, <3>2, InnerSize
    <3>3. CASE rows = 8
      BY <3>1, <3>3, InnerSize
    <3>. QED  BY <3>1, <3>2, <3>3
  <2>3. x \in Int
    <3>1. c \in Int
      BY LastColumn
    <3>2. Picturing!SamplesPerCell(plot) \in {1, 2}
      BY DEF Picturing!SamplesPerCell
    <3>. QED  BY <3>1, <3>2
  <2>4. h \in Seen(chart, plot, c) <=> ~(x < chart.label /\ h > SubRows(plot) - rows)
    BY DEF Seen
  <2>5. cell[1] = x /\ cell[2] = y
    OBVIOUS
  <2>. HIDE DEF x, y, cell, rows
  <2>6. /\ cell \in DOMAIN chart.picture
             <=> cell \in DOMAIN picture /\ (y # 0 \/ x >= chart.label)
        /\ cell \in DOMAIN chart.picture => chart.picture[cell] = picture[cell]
    BY <2>5 DEF Picturing!Beneath
  <2>7. cell \in DOMAIN chart.picture => (shown(chart.picture) <=> shown(picture))
    BY <2>6
  <2>. HIDE DEF shown
  <2>8. x >= chart.label <=> ~(x < chart.label)
    BY <2>3
  <2>. QED  BY <2>1, <2>2, <2>4, <2>6, <2>7, <2>8
<1>2. Seen(chart, plot, c) \subseteq 1 .. SubRows(plot)
  BY DEF Seen
<1>. QED  BY <1>1, <1>2 DEF LitSteps

\* Up to the lower of two heights.
LEMMA UpToLower ==
  ASSUME NEW m \in Nat, NEW n \in Nat
  PROVE  (1 .. m) \cap (1 .. n) = 1 .. Lower(m, n) /\ Lower(m, n) \in Nat
BY DEF Lower

\* A chart on screen is of numbers, under its top, each in its column, and seen as
\* far as the label goes.
LEMMA ChartShows ==
  ASSUME IInv, ReadingsAreNumbers, NEW plot \in Picturing!Plots, NEW key \in OnScreen(plot)
  PROVE  LET chart == frame[plot].charts[key]
         IN /\ IsScale(chart.max)
            /\ chart.label \in Nat /\ chart.label < InnerWidth
            /\ \A c \in Columns(plot) :
                 /\ Fits(ReadingAt(key, plot, c), chart.max)
                 /\ LitSteps(chart.picture, plot, c)
                      = 1 .. Lower(HeightOf(ReadingAt(key, plot, c), chart.max, plot),
                                   Reach(chart, plot, c))
<1>. DEFINE log == kept[key]
            n == Len(log)
            m == Fitting(n, HistoryCapacity)
            ch == Charting(app, key)
            values == Picturing!Values(ch)
            last == Newest(plot)
            chart == frame[plot].charts[key]
            max == chart.max
            scale == IF key = HeapSize THEN Max({ByteScale(Latest(app, key)), 1}) ELSE 1
<1>1. key \in DOMAIN kept /\ IsChart(chart, ch, key, plot)
  BY OnScreenIsKept
<1>2. /\ n \in Nat /\ m \in Nat /\ m <= n /\ m >= 1
      /\ Len(History(app, key)) = m /\ DOMAIN ch = 1 .. m
      /\ \A i \in 1 .. m : ch[i].value = Times(log[n - m + i].value, scale)
  BY <1>1, ChartingIsOfLog
<1>3. last \in Nat /\ last = Picturing!Capacity(plot, InnerWidth) /\ Columns(plot) = 1 .. last
  BY LastColumn
<1>4. scale \in Nat
  <2>. DEFINE bytes == ByteScale(Latest(app, key))
  <2>1. bytes \in Nat
    BY DEF ByteScale, Mega
  <2>. HIDE DEF bytes
  <2>2. Max({bytes, 1}) \in Nat
    BY <2>1, MaxOfTwo
  <2>. QED  BY <2>2 DEF bytes
<1>. HIDE DEF m, ch, scale
<1>5. ASSUME NEW i \in 1 .. m PROVE ch[i].value \in Nat
  <2>1. n - m + i \in 1 .. n
    <3>. HIDE DEF n
    <3>. QED  BY <1>2
  <2>2. DOMAIN log = 1 .. n
    <3>1. IsSequence(log)
      BY <1>1, HistoryOfLog DEF IsLogged
    <3>. QED  BY <3>1 DEF IsSequence
  <2>3. log[n - m + i].value \in Nat
    <3>. HIDE DEF n
    <3>. QED  BY <1>1, <2>1, <2>2 DEF ReadingsAreNumbers
  <2>. DEFINE v == log[n - m + i].value
  <2>. HIDE DEF v
  <2>4. v \in Nat
    BY <2>3 DEF v
  <2>5. Times(v, scale) \in Nat
    BY <1>4, <2>4 DEF Times
  <2>. QED  BY <1>2, <2>5 DEF v
<1>6. values = [i \in 1 .. m |-> ch[i].value]
  BY <1>2 DEF Picturing!Values
<1>. HIDE DEF values
<1>7. OfNumbers(values) /\ Len(values) = m /\ IsSequence(values)
  <2>1. values = [i \in 1 .. m |-> values[i]]
    BY <1>6
  <2>2. IsSequence(values) /\ Len(values) = m
    BY <1>2, <2>1, NumberedSequence
  <2>3. Range(values) \subseteq Nat
    BY <1>5, <1>6 DEF Range
  <2>. QED  BY <2>2, <2>3 DEF OfNumbers
<1>. DEFINE whole == Picturing!Picture(values, max, plot, InnerWidth, InnerHeight)
<1>8. max = Picturing!FullScale(values, ScaleOf(key))
      /\ chart.label = Picturing!LabelOf(FormatOf(key), max, InnerWidth, InnerHeight)
      /\ chart.picture = Picturing!Beneath(whole, chart.label)
  BY <1>1 DEF IsChart, values
<1>9. IsScale(max) /\ \A v \in Range(values) : IsFinite(v) => v * max[2] <= max[1]
  <2>. DEFINE top == Picturing!FullScale(values, ScaleOf(key))
  <2>1. /\ top[1] \in Nat \ {0} /\ top[2] \in Nat \ {0}
        /\ \A v \in Range(values) : IsFinite(v) => v * top[2] <= top[1]
    BY <1>7, ScaleIsAbove
  <2>. HIDE DEF top, max
  <2>2. max = top
    BY <1>8 DEF top
  <2>. QED  BY <2>1, <2>2 DEF IsScale
<1>. HIDE DEF max, whole, chart, last
<1>10. ASSUME NEW c \in Columns(plot)
       PROVE  /\ ReadingAt(key, plot, c) = InColumn(values, last, c)
              /\ Fits(ReadingAt(key, plot, c), max)
  <2>. DEFINE i == m - (last - c)
              v == IF i >= 1 THEN values[i] ELSE -1
  <2>1. InColumn(values, last, c) = v
    BY <1>7 DEF InColumn
  <2>2. c \in 1 .. last
    BY <1>3
  <2>3. i \in Int /\ i <= m
    BY <1>2, <1>3, <2>2
  <2>4. ReadingAt(key, plot, c) = IF i >= 1 THEN ch[i].value ELSE -1
    BY <1>2 DEF ReadingAt, PlaceOf, last, ch
  <2>. HIDE DEF i
  <2>5. ReadingAt(key, plot, c) = v
    <3>1. i >= 1 => values[i] = ch[i].value
      BY <1>2, <1>6, <2>3
    <3>. QED  BY <2>4, <3>1
  <2>6. Fits(v, max)
    <3>1. CASE i >= 1
      <4>1. i \in 1 .. m
        BY <1>2, <2>3, <3>1
      <4>2. values[i] \in Range(values) /\ values[i] \in Nat
        BY <1>5, <1>6, <4>1 DEF Range
      <4>. QED  BY <1>9, <3>1, <4>2 DEF Fits
    <3>2. CASE ~(i >= 1)
      BY <3>2 DEF Fits
    <3>. QED  BY <3>1, <3>2
  <2>. HIDE DEF v
  <2>. QED  BY <2>1, <2>5, <2>6
<1>11. \A c \in Columns(plot) :
         HeightOf(InColumn(values, Newest(plot), c), max, plot) \in 0 .. SubRows(plot)
  BY <1>9, <1>10, HeightFits DEF last
<1>12. \A c \in Columns(plot) :
         LitSteps(whole, plot, c) = 1 .. HeightOf(InColumn(values, Newest(plot), c), max, plot)
  BY <1>7, <1>9, <1>11, PictureShows DEF IsScale, whole
<1>13. chart.label \in Nat /\ chart.label < InnerWidth
  BY <1>8, LabelFits
<1>14. ASSUME NEW c \in Columns(plot)
       PROVE  LitSteps(chart.picture, plot, c)
                = 1 .. Lower(HeightOf(ReadingAt(key, plot, c), max, plot), Reach(chart, plot, c))
  <2>. DEFINE high == HeightOf(ReadingAt(key, plot, c), max, plot)
              reach == Reach(chart, plot, c)
  <2>1. LitSteps(whole, plot, c) = 1 .. high
    BY <1>10, <1>12 DEF last
  <2>2. high \in 0 .. SubRows(plot)
    BY <1>10, <1>11 DEF last
  <2>3. Seen(chart, plot, c) = 1 .. reach /\ reach \in 0 .. SubRows(plot)
    BY <1>13, SeenUpTo
  <2>4. LitSteps(chart.picture, plot, c) = LitSteps(whole, plot, c) \cap Seen(chart, plot, c)
    BY <1>8, <1>13, LitBeneath
  <2>. HIDE DEF high, reach
  <2>5. high \in Nat /\ reach \in Nat
    BY <2>2, <2>3, RowsOfPlot
  <2>6. LitSteps(chart.picture, plot, c) = 1 .. Lower(high, reach)
    BY <2>1, <2>3, <2>4, <2>5, UpToLower
  <2>. QED  BY <2>6 DEF high, reach
<1>15. \A c \in Columns(plot) : Fits(ReadingAt(key, plot, c), max)
  BY <1>10
<1>. QED  BY <1>9, <1>13, <1>14, <1>15 DEF max, chart

\* There are n steps up to n.
LEMMA StepsUpTo ==
  ASSUME NEW n \in Nat
  PROVE  Cardinality(1 .. n) = n
<1>1. Cardinality(1 .. n) = IF 1 > n THEN 0 ELSE n - 1 + 1
  BY FS_Interval
<1>. QED  BY <1>1

\* In each kind of plot a chart can be read back, as far as the label of the scale
\* lets it be seen: a column is solid, empty exactly when there is nothing to show
\* or nothing can be seen, and no lower than that of a smaller reading; the newest is
\* seen whole (graph.rs:101, graph.rs:159, chart.rs:82).
THEOREM ChartsReadBack == Spec => []ChartReadsBack
<1>1. IInv /\ ReadingsAreNumbers => ChartReadsBack
  <2>. SUFFICES ASSUME IInv, ReadingsAreNumbers
                PROVE  ChartReadsBack
    OBVIOUS
  <2>1. ASSUME NEW plot \in Picturing!Plots, NEW key \in OnScreen(plot)
        PROVE  LET chart == frame[plot].charts[key]
                   shown(c) == LET v == ReadingAt(key, plot, c)
                               IN IF IsFinite(v) THEN Max({v, 0}) ELSE 0
                   drawn == {[shown |-> shown(c), steps |-> LitSteps(chart.picture, plot, c),
                              seen |-> Seen(chart, plot, c)] : c \in Columns(plot)}
               IN /\ \A p \in drawn :
                       /\ p.steps = 1 .. Cardinality(p.steps)
                       /\ p.steps = {} <=> (p.shown = 0 \/ p.seen = {})
                  /\ \A p \in drawn, q \in drawn :
                       p.shown <= q.shown => p.steps \cap q.seen \subseteq q.steps
                  /\ Seen(chart, plot, Newest(plot)) = 1 .. SubRows(plot)
    <3>. DEFINE chart == frame[plot].charts[key]
                steps(c) == LitSteps(chart.picture, plot, c)
                seen(c) == Seen(chart, plot, c)
                at(c) == ReadingAt(key, plot, c)
                shown(c) == LET v == at(c) IN IF IsFinite(v) THEN Max({v, 0}) ELSE 0
                drawn == {[shown |-> shown(c), steps |-> steps(c), seen |-> seen(c)] :
                            c \in Columns(plot)}
                high(c) == HeightOf(at(c), chart.max, plot)
                reach(c) == Reach(chart, plot, c)
    <3>1. /\ IsScale(chart.max)
          /\ chart.label \in Nat /\ chart.label < InnerWidth
          /\ \A c \in Columns(plot) :
               Fits(at(c), chart.max) /\ steps(c) = 1 .. Lower(high(c), reach(c))
      BY ChartShows
    <3>2. \A c \in Columns(plot) : shown(c) = ShownOf(at(c))
      BY DEF ShownOf
    <3>. HIDE DEF chart, steps, seen, at, shown
    <3>3. ASSUME NEW c \in Columns(plot)
          PROVE  /\ high(c) \in Nat /\ reach(c) \in Nat
                 /\ seen(c) = 1 .. reach(c)
                 /\ shown(c) = 0 <=> high(c) = 0
      <4>1. high(c) \in 0 .. SubRows(plot) /\ (high(c) = 0 <=> ShownOf(at(c)) = 0)
        BY <3>1, HeightFits
      <4>2. seen(c) = 1 .. reach(c) /\ reach(c) \in 0 .. SubRows(plot)
        BY <3>1, SeenUpTo DEF seen
      <4>. HIDE DEF high, reach
      <4>. QED  BY <3>2, <4>1, <4>2, RowsOfPlot
    <3>4. ASSUME NEW c \in Columns(plot), NEW d \in Columns(plot), shown(c) <= shown(d)
          PROVE  high(c) <= high(d)
      BY <3>1, <3>2, <3>4, HeightGrows
    <3>5. Seen(chart, plot, Newest(plot)) = 1 .. SubRows(plot)
      <4>1. Newest(plot) \in Columns(plot)
        BY LastColumn
      <4>. QED  BY <3>1, <4>1, SeenUpTo
    <3>. HIDE DEF high, reach
    <3>6. ASSUME NEW c \in Columns(plot)
          PROVE  /\ steps(c) = 1 .. Cardinality(steps(c))
                 /\ steps(c) = {} <=> (shown(c) = 0 \/ seen(c) = {})
      <4>. DEFINE n == Lower(high(c), reach(c))
      <4>1. n \in Nat /\ (n = 0 <=> high(c) = 0 \/ reach(c) = 0) /\ steps(c) = 1 .. n
        BY <3>1, <3>3 DEF Lower
      <4>. HIDE DEF n
      <4>2. Cardinality(steps(c)) = n
        BY <4>1, StepsUpTo
      <4>3. \A m \in Nat : 1 .. m = {} <=> m = 0
        OBVIOUS
      <4>. QED  BY <3>3, <4>1, <4>2, <4>3
    <3>7. ASSUME NEW c \in Columns(plot), NEW d \in Columns(plot), shown(c) <= shown(d)
          PROVE  steps(c) \cap seen(d) \subseteq steps(d)
      <4>1. high(c) <= high(d)
        BY <3>4, <3>7
      <4>2. /\ steps(c) = (1 .. high(c)) \cap (1 .. reach(c))
            /\ steps(d) = (1 .. high(d)) \cap (1 .. reach(d))
        BY <3>1, <3>3, UpToLower
      <4>. QED  BY <3>3, <4>1, <4>2
    <3>8. ASSUME NEW p \in drawn
          PROVE  /\ p.steps = 1 .. Cardinality(p.steps)
                 /\ p.steps = {} <=> (p.shown = 0 \/ p.seen = {})
      <4>1. PICK c \in Columns(plot) : p = [shown |-> shown(c), steps |-> steps(c), seen |-> seen(c)]
        OBVIOUS
      <4>2. p.shown = shown(c) /\ p.steps = steps(c) /\ p.seen = seen(c)
        BY <4>1
      <4>. QED  BY <3>6, <4>2
    <3>9. ASSUME NEW p \in drawn, NEW q \in drawn, p.shown <= q.shown
          PROVE  p.steps \cap q.seen \subseteq q.steps
      <4>1. PICK c \in Columns(plot) : p = [shown |-> shown(c), steps |-> steps(c), seen |-> seen(c)]
        OBVIOUS
      <4>2. PICK d \in Columns(plot) : q = [shown |-> shown(d), steps |-> steps(d), seen |-> seen(d)]
        OBVIOUS
      <4>3. /\ p.shown = shown(c) /\ p.steps = steps(c)
            /\ q.shown = shown(d) /\ q.steps = steps(d) /\ q.seen = seen(d)
        BY <4>1, <4>2
      <4>. QED  BY <3>7, <3>9, <4>3
    <3>. HIDE DEF drawn
    <3>10. /\ \A p \in drawn :
                /\ p.steps = 1 .. Cardinality(p.steps)
                /\ p.steps = {} <=> (p.shown = 0 \/ p.seen = {})
           /\ \A p \in drawn, q \in drawn :
                p.shown <= q.shown => p.steps \cap q.seen \subseteq q.steps
           /\ Seen(chart, plot, Newest(plot)) = 1 .. SubRows(plot)
      BY <3>5, <3>8, <3>9
    <3>. QED  BY <3>10 DEF chart, steps, seen, at, shown, drawn
  <2>. QED  BY <2>1 DEF ChartReadsBack
<1>2. Inv => IInv /\ ReadingsAreNumbers
  BY DEF Inv, NInv
<1>. QED  BY <1>1, <1>2, StreamIsRead, PTL

\* No number on screen is above the top of its chart, and each is as high as it
\* says, to a step, or up to the label of the scale that lies over its top
\* (chart.rs:109, graph.rs:159, chart.rs:82).
THEOREM NothingIsClipped == Spec => []NothingClipped
<1>1. IInv /\ ReadingsAreNumbers => NothingClipped
  <2>. SUFFICES ASSUME IInv, ReadingsAreNumbers
                PROVE  NothingClipped
    OBVIOUS
  <2>1. ASSUME NEW plot \in Picturing!Plots, NEW key \in OnScreen(plot),
               NEW c \in Columns(plot),
               ReadingAt(key, plot, c) > 0, IsFinite(ReadingAt(key, plot, c))
        PROVE  LET chart == frame[plot].charts[key]
                   exact == ReadingAt(key, plot, c) * SubRows(plot) * chart.max[2]
                   steps == LitSteps(chart.picture, plot, c)
                   drawn == Cardinality(steps) * chart.max[1]
                   cut == steps = Seen(chart, plot, c) /\ steps # 1 .. SubRows(plot)
               IN /\ ReadingAt(key, plot, c) * chart.max[2] <= chart.max[1]
                  /\ drawn - exact < chart.max[1]
                  /\ exact - drawn < chart.max[1] \/ cut
    <3>. DEFINE chart == frame[plot].charts[key]
                max == chart.max
                steps == LitSteps(chart.picture, plot, c)
                seen == Seen(chart, plot, c)
                v == ReadingAt(key, plot, c)
                rows == SubRows(plot)
                high == Picturing!SubRowsFor(v, max, rows)
                reach == Reach(chart, plot, c)
                n == Lower(high, reach)
                exact == v * rows * max[2]
    <3>1. /\ IsScale(max) /\ Fits(v, max) /\ steps = 1 .. n
          /\ chart.label \in Nat /\ chart.label < InnerWidth
      BY ChartShows DEF HeightOf
    <3>2. rows \in Nat \ {0}
      BY RowsOfPlot
    <3>3. v > 0 /\ IsFinite(v)
      BY <2>1
    <3>4. seen = 1 .. reach /\ reach \in 0 .. rows
      BY <3>1, SeenUpTo
    <3>. HIDE DEF max, steps, seen, v, rows, reach
    <3>5. v \in Nat /\ v * max[2] <= max[1]
      BY <3>1, <3>3 DEF Fits
    <3>6. high \in 1 .. rows /\ high * max[1] - exact < max[1] /\ exact - high * max[1] < max[1]
      BY <3>1, <3>2, <3>3, <3>5, HeightOfReading DEF IsScale
    <3>7. exact \in Nat /\ max[1] \in Nat
      <4>. DEFINE d == max[2]
      <4>1. d \in Nat /\ max[1] \in Nat
        BY <3>1 DEF IsScale
      <4>. HIDE DEF d
      <4>2. v * rows \in Nat
        BY <3>2, <3>5
      <4>3. v * rows * d \in Nat
        BY <4>1, <4>2
      <4>. QED  BY <4>1, <4>3 DEF d
    <3>. HIDE DEF high, exact
    <3>8. n \in Nat /\ n <= high /\ high \in Nat /\ high <= rows /\ rows \in Nat
          /\ (n = high \/ (n = reach /\ n < high))
      BY <3>2, <3>4, <3>6 DEF Lower
    <3>. HIDE DEF n
    <3>9. Cardinality(steps) = n
      BY <3>1, <3>8, StepsUpTo
    <3>. DEFINE b == max[1]
                drawn == n * b
                whole == high * b
    <3>10. drawn - exact < b
      <4>1. b \in Nat
        BY <3>7
      <4>. HIDE DEF b
      <4>2. n * b <= high * b /\ n * b \in Nat /\ high * b \in Nat
        BY <3>8, <4>1, TimesGrows
      <4>3. whole - exact < b
        BY <3>6 DEF b
      <4>. HIDE DEF drawn, whole
      <4>4. drawn <= whole /\ drawn \in Nat /\ whole \in Nat
        BY <4>2 DEF drawn, whole
      <4>. QED  BY <3>7, <4>1, <4>3, <4>4
    <3>11. exact - drawn < b \/ (steps = seen /\ steps # 1 .. rows)
      <4>1. CASE n = high
        BY <3>6, <4>1
      <4>2. CASE n = reach /\ n < high
        <5>1. steps = seen
          BY <3>1, <3>4, <4>2
        <5>2. rows \in 1 .. rows /\ rows \notin 1 .. n
          BY <3>2, <3>8, <4>2
        <5>. QED  BY <3>1, <5>1, <5>2
      <4>. QED  BY <3>8, <4>1, <4>2
    <3>12. /\ v * max[2] <= max[1]
           /\ Cardinality(steps) * max[1] - exact < max[1]
           /\ exact - Cardinality(steps) * max[1] < max[1] \/ (steps = seen /\ steps # 1 .. rows)
      BY <3>5, <3>9, <3>10, <3>11
    <3>. QED  BY <3>12 DEF max, steps, seen, v, rows, exact
  <2>. QED  BY <2>1 DEF NothingClipped
<1>2. Inv => IInv /\ ReadingsAreNumbers
  BY DEF Inv, NInv
<1>. QED  BY <1>1, <1>2, StreamIsRead, PTL

\* A varuint of any number that its digits can hold is read back, cut to its word,
\* and one cut short is not read (nettrace/reader.rs:183).
THEOREM VarUintsAreExact == Spec => []VarUintIsExact
<1>1. ASSUME NEW n \in 0 .. Digit ^ Digits64 - 1
      PROVE  LET c == Written(n)
             IN /\ VarUint(c, 0, Digits64, Word64) = ReadAs(n % Word64, Len(c))
                /\ n < Digit ^ Digits32 =>
                     VarUint(c, 0, Digits32, Word32) = ReadAs(n % Word32, Len(c))
                /\ VarUint(SubSeq(c, 1, Len(c) - 1), 0, Digits64, Word64) = NotRead
  <2>0. Digit ^ 2 = 256 /\ Digit ^ 3 = 4096 /\ Digits32 = 2 /\ Digits64 = 3
    BY DEF Digit, Digits32, Digits64
  <2>1. n \in Nat /\ n < 4096
    BY <2>0
  <2>. DEFINE c == Written(n)
              l == Len(c)
  <2>2. IsVarUint(c)
    BY <2>1, WrittenIs
  <2>3. l \in 1 .. 3 /\ c \in Seq(Nat)
    BY <2>2 DEF IsVarUint, AreCells
  <2>4. Lies(c, c, 0)
    <3>. HIDE DEF c
    <3>. QED  BY <2>3, LiesInItself
  <2>5. 0 + l = l /\ l \in Nat
    BY <2>3
  <2>6. VarUint(c, 0, Digits64, Word64) = ReadAs(n % Word64, l)
    BY <2>0, <2>1, <2>4, <2>5, VarUintReadsBack
  <2>7. n < Digit ^ Digits32 => VarUint(c, 0, Digits32, Word32) = ReadAs(n % Word32, l)
    BY <2>0, <2>1, <2>4, <2>5, VarUintReadsBack
  <2>8. VarUint(SubSeq(c, 1, l - 1), 0, Digits64, Word64) = NotRead
    <3>. HIDE DEF c
    <3>. DEFINE m == l - 1
                cut == SubSeq(c, 1, m)
    <3>1. m \in Nat /\ m <= l
      <4>1. l \in 1 .. 3
        BY <2>3, Zenon
      <4>. HIDE DEF l
      <4>. QED  BY <4>1
    <3>2. Len(cut) = m /\ \A j \in 1 .. m : cut[j] = c[j]
      <4>. HIDE DEF m
      <4>. QED  BY <2>3, <3>1, Shortened
    <3>3. \A j \in 1 .. m : ~(c[j] < Digit)
      BY <2>2 DEF IsVarUint
    <3>. HIDE DEF cut, m
    <3>4. \A j \in 1 .. Len(cut) : ~(cut[j] < Digit)
      BY <3>2, <3>3
    <3>5. VarUint(cut, 0, Digits64, Word64) = NotRead
      BY <2>0, <3>1, <3>2, <3>4, VarUintCut
    <3>. QED  BY <3>5 DEF cut, m
  <2>. QED  BY <2>6, <2>7, <2>8
<1>2. VarUintIsExact
  BY <1>1 DEF VarUintIsExact
<1>. QED  BY <1>2, PTL
----------------------------------------------------------------------------
(* Colours.                                                                *)

Colours == [1 .. 3 -> 0 .. 255]

\* The channels of a colour.
Channel == 0 .. 255
Places == 1 .. 3

LEMMA ColourIs ==
  ASSUME NEW colour \in Colours, NEW i \in Places
  PROVE  colour[i] \in Channel
BY Zenon DEF Colours, Channel, Places

\* A part of 255 rounded is at most 255.
LEMMA NearestIsChannel ==
  ASSUME NEW a \in Nat, NEW d \in Nat \ {0}, a <= 255 * d
  PROVE  Colouring!Nearest(a, d) \in 0 .. 255
<1>. DEFINE q == Colouring!Nearest(a, d)
            x == q * d
            y == 256 * d
            z == 255 * d
<1>1. q = Picturing!RoundDiv(a, d)
  BY DEF Colouring!Nearest, Picturing!RoundDiv
<1>2. q \in Nat /\ 2 * x <= 2 * a + d
  BY <1>1, Rounded
<1>. HIDE DEF q
<1>3. x \in Int /\ y = z + d /\ z \in Int
  BY <1>2
<1>4. ASSUME 256 <= q PROVE FALSE
  <2>1. y <= x
    BY <1>2, <1>4, TimesGrows
  <2>2. a <= z
    OBVIOUS
  <2>. HIDE DEF x, y, z
  <2>. QED  BY <1>2, <1>3, <2>1, <2>2
<1>5. q \in 0 .. 255
  BY <1>2, <1>4
<1>. QED  BY <1>5 DEF q

\* A place on a ramp is a fraction of it.
IsPlace(t) == t[1] \in Int /\ t[2] \in Nat \ {0}

\* A place is cut to the ends of the ramp.
LEMMA ClampedIs ==
  ASSUME NEW t, IsPlace(t)
  PROVE  LET u == Colouring!Clamped(t)
         IN u[1] \in 0 .. t[2] /\ u[2] = t[2]
<1>. DEFINE n == t[1]
            d == t[2]
            low == Colouring!Min({n, d})
            top == Colouring!Max({0, low})
<1>1. n \in Int /\ d \in Nat
  BY DEF IsPlace
<1>2. Colouring!Clamped(t) = <<top, d>>
  BY DEF Colouring!Clamped
<1>. HIDE DEF n, d
<1>3. low = IF n <= d THEN n ELSE d
  BY <1>1 DEF Colouring!Min
<1>4. low \in Int /\ low <= d
  BY <1>1, <1>3
<1>. HIDE DEF low
<1>5. top = IF low >= 0 THEN low ELSE 0
  BY <1>4 DEF Colouring!Max
<1>6. top \in 0 .. d
  BY <1>1, <1>4, <1>5
<1>. HIDE DEF top
<1>7. <<top, d>>[1] \in 0 .. d /\ <<top, d>>[2] = d
  BY <1>6
<1>. QED  BY <1>2, <1>7 DEF d

\* A mixture of two colours is a colour.
LEMMA MixIsColour ==
  ASSUME NEW from \in Colours, NEW to \in Colours, NEW t, IsPlace(t)
  PROVE  Colouring!Mix(from, to, t) \in Colours
<1>. DEFINE u == Colouring!Clamped(t)
            n == u[1]
            d == t[2]
            mixed(i) == Colouring!Nearest(from[i] * (d - n) + to[i] * n, d)
<1>1. n \in 0 .. d /\ u[2] = d /\ d \in Nat \ {0}
  BY ClampedIs DEF IsPlace
<1>2. Colouring!Mix(from, to, t) = [i \in 1 .. 3 |-> mixed(i)]
  <2>. HIDE DEF u
  <2>. QED  BY <1>1 DEF Colouring!Mix, u
<1>. HIDE DEF n, d
<1>3. ASSUME NEW i \in 1 .. 3 PROVE mixed(i) \in 0 .. 255
  <2>. DEFINE f == from[i]
              g == to[i]
              m == d - n
              fm == f * m
              gn == g * n
              pm == 255 * m
              pn == 255 * n
              pd == 255 * d
  <2>1. f \in 0 .. 255 /\ g \in 0 .. 255
    BY DEF Colours
  <2>2. m \in Nat /\ n \in Nat
    BY <1>1
  <2>. HIDE DEF f, g
  <2>3. pd = pm + pn
    BY <1>1
  <2>. HIDE DEF m
  <2>4. fm \in Nat /\ gn \in Nat /\ fm <= pm /\ gn <= pn
    <3>1. f \in Nat /\ g \in Nat
      BY <2>1
    <3>. QED  BY <2>1, <2>2, <3>1, TimesGrows
  <2>5. pm \in Nat /\ pn \in Nat
    BY <2>2
  <2>. HIDE DEF fm, gn, pm, pn, pd
  <2>6. fm + gn \in Nat /\ fm + gn <= pd
    BY <2>3, <2>4, <2>5
  <2>. DEFINE a == fm + gn
  <2>. HIDE DEF a
  <2>7. a \in Nat /\ a <= 255 * d
    BY <2>6 DEF a, pd
  <2>8. Colouring!Nearest(a, d) \in 0 .. 255
    BY <1>1, <2>7, NearestIsChannel
  <2>. QED  BY <2>8 DEF a, fm, gn, f, g, m
<1>. HIDE DEF mixed
<1>. QED  BY <1>2, <1>3 DEF Colours

\* White is a colour.
LEMMA WhiteIsColour == Colouring!White \in Colours
BY DEF Colouring!White, Colours

\* A colour dimmed or lightened is a colour.
LEMMA ScaledIsColour ==
  ASSUME NEW colour \in Colours, NEW factor, IsPlace(factor)
  PROVE  Colouring!Scaled(colour, factor) \in Colours
<1>. DEFINE n == factor[1]
            d == factor[2]
            m == Colouring!Max({n, 0})
<1>1. n \in Int /\ d \in Nat \ {0}
  BY DEF IsPlace
<1>2. CASE n <= d
  <2>1. Colouring!Scaled(colour, factor)
          = [i \in 1 .. 3 |-> Colouring!Min({Colouring!Nearest(colour[i] * m, d), 255})]
    BY <1>2 DEF Colouring!Scaled
  <2>2. m \in Nat /\ m <= d
    <3>1. m = IF n >= 0 THEN n ELSE 0
      <4>. HIDE DEF n
      <4>. QED  BY <1>1 DEF Colouring!Max
    <3>. HIDE DEF n, m
    <3>. QED  BY <1>1, <1>2, <3>1
  <2>. HIDE DEF m, n, d
  <2>3. ASSUME NEW i \in 1 .. 3
        PROVE  Colouring!Min({Colouring!Nearest(colour[i] * m, d), 255}) \in 0 .. 255
    <3>. DEFINE f == colour[i]
                a == f * m
                q == Colouring!Nearest(a, d)
    <3>1. f \in 0 .. 255
      BY DEF Colours
    <3>. HIDE DEF f
    <3>2. a \in Nat /\ a <= 255 * m /\ 255 * m <= 255 * d
      <4>1. f \in Nat
        BY <3>1
      <4>. QED  BY <1>1, <2>2, <3>1, <4>1, TimesGrows
    <3>. HIDE DEF a
    <3>3. a <= 255 * d
      BY <1>1, <2>2, <3>2
    <3>4. q \in 0 .. 255
      BY <1>1, <3>2, <3>3, NearestIsChannel
    <3>. HIDE DEF q
    <3>5. Colouring!Min({q, 255}) = q
      BY <3>4 DEF Colouring!Min
    <3>. QED  BY <3>4, <3>5 DEF q, a, f
  <2>. QED  BY <2>1, <2>3 DEF Colours
<1>3. CASE ~(n <= d)
  <2>. DEFINE t == <<n - d, d>>
  <2>1. Colouring!Scaled(colour, factor) = Colouring!Mix(colour, Colouring!White, t)
    BY <1>3 DEF Colouring!Scaled
  <2>2. IsPlace(t)
    <3>. HIDE DEF n, d
    <3>. QED  BY <1>1 DEF IsPlace
  <2>. HIDE DEF t
  <2>. QED  BY <2>1, <2>2, MixIsColour, WhiteIsColour
<1>. QED  BY <1>2, <1>3

\* A ramp of colours, and what is on it.
IsRamp(ramp) == ramp.low \in Colours /\ ramp.mid \in Colours /\ ramp.high \in Colours

\* What is at a place on a ramp is a colour.
LEMMA RgbAtIsColour ==
  ASSUME NEW ramp, IsRamp(ramp), NEW t, IsPlace(t)
  PROVE  Colouring!RgbAt(ramp, t) \in Colours
<1>. DEFINE u == Colouring!Clamped(t)
            below == <<2 * u[1], u[2]>>
            above == <<2 * u[1] - u[2], u[2]>>
<1>1. u[1] \in 0 .. t[2] /\ u[2] = t[2] /\ t[2] \in Nat \ {0}
  BY ClampedIs DEF IsPlace
<1>2. /\ Colouring!RgbAt(ramp, t) = Colouring!Mix(ramp.low, ramp.mid, below)
         \/ Colouring!RgbAt(ramp, t) = Colouring!Mix(ramp.mid, ramp.high, above)
  BY DEF Colouring!RgbAt
<1>. HIDE DEF u
<1>3. IsPlace(below) /\ IsPlace(above)
  BY <1>1 DEF IsPlace
<1>. HIDE DEF below, above
<1>. QED  BY <1>2, <1>3, MixIsColour DEF IsRamp

\* The ramps are of colours.
LEMMA RampsAreColours ==
  /\ IsRamp(Colouring!Flame) /\ IsRamp(Colouring!Cool) /\ IsRamp(Colouring!Rate)
  /\ \A c \in Range(Colouring!GenerationColours) : IsRamp(Colouring!Around(c))
<1>1. /\ IsRamp(Colouring!Flame) /\ IsRamp(Colouring!Cool) /\ IsRamp(Colouring!Rate)
  BY DEF IsRamp, Colours, Colouring!Flame, Colouring!Cool, Colouring!Rate, Colouring!Ramp
<1>2. ASSUME NEW c \in Range(Colouring!GenerationColours) PROVE IsRamp(Colouring!Around(c))
  <2>1. c \in Colours
    BY DEF Range, Colouring!GenerationColours, Colours
  <2>. DEFINE dark == <<45, 100>>
              light == <<135, 100>>
  <2>2. IsPlace(dark) /\ IsPlace(light)
    BY DEF IsPlace
  <2>3. Colouring!Around(c) = [low |-> Colouring!Scaled(c, dark), mid |-> c,
                               high |-> Colouring!Scaled(c, light)]
    BY DEF Colouring!Around, Colouring!Ramp
  <2>. HIDE DEF dark, light
  <2>4. Colouring!Scaled(c, dark) \in Colours /\ Colouring!Scaled(c, light) \in Colours
    BY <2>1, <2>2, ScaledIsColour
  <2>. QED  BY <2>1, <2>3, <2>4 DEF IsRamp
<1>. QED  BY <1>1, <1>2

\* The colours tried are colours.
LEMMA TriedAreColours == Tried \subseteq Colours
<1>. DEFINE channels == {0, 47, 48, 115, 128, 238, 255}
            places == {<<i, 8>> : i \in 0 .. 8}
            plain == {<<r, g, b>> : r \in channels, g \in channels, b \in channels}
            ramps == {Colouring!Flame, Colouring!Cool, Colouring!Rate}
                       \cup {Colouring!Around(c) : c \in Range(Colouring!GenerationColours)}
            onRamps == {Colouring!RgbAt(r, t) : r \in ramps, t \in places}
<1>1. plain \subseteq Colours
  BY DEF Colours
<1>2. \A t \in places : IsPlace(t)
  BY DEF IsPlace
<1>3. \A r \in ramps : IsRamp(r)
  BY RampsAreColours
<1>4. Tried = onRamps \cup plain
  BY DEF Tried
<1>. HIDE DEF ramps, places, plain
<1>5. onRamps \subseteq Colours
  BY <1>2, <1>3, RgbAtIsColour
<1>. QED  BY <1>1, <1>4, <1>5

----------------------------------------------------------------------------
(* The palette.                                                            *)

\* A number no further from 0 has no larger a square.
LEMMA SquareGrows ==
  ASSUME NEW a \in Int, NEW b \in Int, Colouring!Abs(a) <= Colouring!Abs(b)
  PROVE  a * a <= b * b
<1>. DEFINE p == Colouring!Abs(a)
            q == Colouring!Abs(b)
            pp == p * p
            qp == q * p
            qq == q * q
<1>1. /\ p = IF a < 0 THEN -a ELSE a
      /\ q = IF b < 0 THEN -b ELSE b
  BY DEF Colouring!Abs
<1>. HIDE DEF p, q
<1>2. p \in Nat /\ q \in Nat /\ p <= q
  BY <1>1 DEF p, q
<1>3. a * a = pp /\ b * b = qq
  BY <1>1
<1>4. pp <= qp
  BY <1>2, TimesGrows
<1>5. qp <= qq
  <2>1. p * q <= q * q
    BY <1>2, TimesGrows
  <2>. QED  BY <1>2, <2>1
<1>6. pp \in Int /\ qp \in Int /\ qq \in Int
  BY <1>2
<1>. HIDE DEF pp, qp, qq
<1>. QED  BY <1>3, <1>4, <1>5, <1>6

\* Each channel has a nearest level.
LEMMA NearestLevelIs ==
  ASSUME NEW v \in 0 .. 255
  PROVE  LET n == Colouring!NearestLevel(v)
         IN /\ n \in 0 .. 5
            /\ \A j \in 0 .. 5 : Colouring!Abs(Colouring!CubeLevels[n + 1] - v)
                                 <= Colouring!Abs(Colouring!CubeLevels[j + 1] - v)
<1>. DEFINE off(i) == Colouring!Abs(Colouring!CubeLevels[i + 1] - v)
            S == {i \in 0 .. 5 : \A j \in 0 .. 5 : off(i) <= off(j)}
            n == Colouring!NearestLevel(v)
<1>1. n = Colouring!Min(S)
  BY DEF Colouring!NearestLevel
<1>2. /\ off(0) = v
      /\ off(1) = (IF v > 95 THEN v - 95 ELSE 95 - v)
      /\ off(2) = (IF v > 135 THEN v - 135 ELSE 135 - v)
      /\ off(3) = (IF v > 175 THEN v - 175 ELSE 175 - v)
      /\ off(4) = (IF v > 215 THEN v - 215 ELSE 215 - v)
      /\ off(5) = 255 - v
  BY DEF Colouring!Abs, Colouring!CubeLevels
<1>. HIDE DEF off, n
<1>3. \A i \in 0 .. 5 : i = 0 \/ i = 1 \/ i = 2 \/ i = 3 \/ i = 4 \/ i = 5
  OBVIOUS
<1>4. S # {}
  <2>1. CASE v <= 47
    <3>1. \A j \in 0 .. 5 : off(0) <= off(j)
      BY <1>2, <1>3, <2>1
    <3>. QED  BY <3>1
  <2>2. CASE 47 < v /\ v <= 115
    <3>1. \A j \in 0 .. 5 : off(1) <= off(j)
      BY <1>2, <1>3, <2>2
    <3>. QED  BY <3>1
  <2>3. CASE 115 < v /\ v <= 155
    <3>1. \A j \in 0 .. 5 : off(2) <= off(j)
      BY <1>2, <1>3, <2>3
    <3>. QED  BY <3>1
  <2>4. CASE 155 < v /\ v <= 195
    <3>1. \A j \in 0 .. 5 : off(3) <= off(j)
      BY <1>2, <1>3, <2>4
    <3>. QED  BY <3>1
  <2>5. CASE 195 < v /\ v <= 235
    <3>1. \A j \in 0 .. 5 : off(4) <= off(j)
      BY <1>2, <1>3, <2>5
    <3>. QED  BY <3>1
  <2>6. CASE 235 < v
    <3>1. \A j \in 0 .. 5 : off(5) <= off(j)
      BY <1>2, <1>3, <2>6
    <3>. QED  BY <3>1
  <2>. QED  BY <2>1, <2>2, <2>3, <2>4, <2>5, <2>6
<1>5. S \subseteq 0 .. 5
  OBVIOUS
<1>6. n \in S
  <2>. HIDE DEF S
  <2>1. \E x \in S : \A y \in S : x <= y
    <3>1. PICK s \in S : TRUE
      BY <1>4
    <3>. QED  BY <1>3, <1>5, <3>1
  <2>. QED  BY <1>1, <2>1 DEF Colouring!Min
<1>7. n \in 0 .. 5 /\ \A j \in 0 .. 5 : off(n) <= off(j)
  BY <1>6
<1>. QED  BY <1>7 DEF off, n

\* The squares of the differences, channel by channel.
LEMMA DistanceIs ==
  ASSUME NEW a, NEW b, \A i \in 1 .. 3 : a[i] \in Int /\ b[i] \in Int
  PROVE  Colouring!Distance(a, b) = (a[1] - b[1]) * (a[1] - b[1]) + (a[2] - b[2]) * (a[2] - b[2])
                                      + (a[3] - b[3]) * (a[3] - b[3])
<1>. DEFINE s == [i \in 1 .. 3 |-> (a[i] - b[i]) * (a[i] - b[i])]
<1>1. Colouring!Distance(a, b) = FoldLeft(+, 0, s)
  <2>1. Colouring!Distance(a, b) = Colouring!FoldLeft(+, 0, s)
    BY DEF Colouring!Distance
  <2>. HIDE DEF s
  <2>2. Colouring!FoldLeft(+, 0, s) = FoldLeft(+, 0, s)
    BY DEF FoldLeft, Colouring!FoldLeft, MapThenFoldSet, Colouring!MapThenFoldSet, Max, Colouring!Max
  <2>. QED  BY <2>1, <2>2
<1>2. \A i \in 1 .. 3 : (a[i] - b[i]) * (a[i] - b[i]) \in Int
  OBVIOUS
<1>3. IntsOf(s, 3)
  BY <1>2 DEF IntsOf
<1>4. s[1] = (a[1] - b[1]) * (a[1] - b[1]) /\ s[2] = (a[2] - b[2]) * (a[2] - b[2])
      /\ s[3] = (a[3] - b[3]) * (a[3] - b[3])
  OBVIOUS
<1>. HIDE DEF s
<1>5. FoldLeft(+, 0, s) = s[1] + s[2] + s[3]
  BY <1>3, AddedThree
<1>. QED  BY <1>1, <1>4, <1>5

----------------------------------------------------------------------------
(* The palette.                                                            *)

\* An entry of the cube.
CubeEntry(i, j, k) ==
  <<Colouring!CubeLevels[i + 1], Colouring!CubeLevels[j + 1], Colouring!CubeLevels[k + 1]>>

\* Levels are numbers.
LEMMA LevelsAreNumbers == \A i \in 0 .. 5 : Colouring!CubeLevels[i + 1] \in 0 .. 255
BY DEF Colouring!CubeLevels

\* Nearest in each channel is nearest of the cube.
LEMMA CubeIsNearest ==
  ASSUME NEW colour \in Colours, NEW cube, \A i \in 1 .. 3 :
           cube[i] = Colouring!CubeLevels[Colouring!NearestLevel(colour[i]) + 1],
         NEW i \in 0 .. 5, NEW j \in 0 .. 5, NEW k \in 0 .. 5
  PROVE  Colouring!Distance(cube, colour) <= Colouring!Distance(CubeEntry(i, j, k), colour)
<1>. DEFINE entry == CubeEntry(i, j, k)
            sq(x) == x * x
            off(m) == cube[m] - colour[m]
            err(m) == entry[m] - colour[m]
<1>1. /\ entry[1] = Colouring!CubeLevels[i + 1] /\ entry[2] = Colouring!CubeLevels[j + 1]
      /\ entry[3] = Colouring!CubeLevels[k + 1]
  BY DEF CubeEntry
<1>. HIDE DEF entry
<1>2. ASSUME NEW m \in 1 .. 3, NEW l \in 0 .. 5, entry[m] = Colouring!CubeLevels[l + 1]
      PROVE  /\ cube[m] \in Int /\ entry[m] \in Int /\ colour[m] \in Int
             /\ off(m) * off(m) <= err(m) * err(m)
             /\ off(m) * off(m) \in Int /\ err(m) * err(m) \in Int
  <2>. DEFINE n == Colouring!NearestLevel(colour[m])
              v == colour[m]
  <2>1. v \in 0 .. 255
    <3>0. m \in Places
      BY DEF Places
    <3>1. colour[m] \in Channel
      BY <3>0, ColourIs, Zenon
    <3>. QED  BY <3>1 DEF Channel
  <2>. HIDE DEF v
  <2>2. /\ n \in 0 .. 5
        /\ Colouring!Abs(Colouring!CubeLevels[n + 1] - v)
             <= Colouring!Abs(Colouring!CubeLevels[l + 1] - v)
    <3>1. LET n_ == Colouring!NearestLevel(v)
          IN  /\ n_ \in 0 .. 5
              /\ \A i_ \in 0 .. 5 : Colouring!Abs(Colouring!CubeLevels[n_ + 1] - v)
                                    <= Colouring!Abs(Colouring!CubeLevels[i_ + 1] - v)
      BY <2>1, NearestLevelIs, Zenon
    <3>. QED  BY <3>1, Zenon DEF v
  <2>3. cube[m] = Colouring!CubeLevels[n + 1]
    OBVIOUS
  <2>. HIDE DEF n
  <2>4. cube[m] \in Int /\ entry[m] \in Int /\ v \in Int
    BY <1>2, <2>1, <2>2, <2>3, LevelsAreNumbers
  <2>. DEFINE a == cube[m] - v
              b == entry[m] - v
  <2>5. a \in Int /\ b \in Int /\ Colouring!Abs(a) <= Colouring!Abs(b)
    BY <1>2, <2>2, <2>3, <2>4
  <2>. HIDE DEF a, b
  <2>6. a * a <= b * b /\ a * a \in Int /\ b * b \in Int
    BY <2>5, SquareGrows
  <2>. QED  BY <2>4, <2>6 DEF a, b, v
<1>. DEFINE o(m) == off(m) * off(m)
            e(m) == err(m) * err(m)
<1>3. \A m \in 1 .. 3 : cube[m] \in Int /\ entry[m] \in Int /\ colour[m] \in Int
  BY <1>1, <1>2
<1>4. /\ o(1) <= e(1) /\ o(2) <= e(2) /\ o(3) <= e(3)
      /\ o(1) \in Int /\ o(2) \in Int /\ o(3) \in Int /\ e(1) \in Int /\ e(2) \in Int /\ e(3) \in Int
  BY <1>1, <1>2
<1>5. Colouring!Distance(cube, colour) = o(1) + o(2) + o(3)
  BY <1>3, DistanceIs
<1>6. Colouring!Distance(entry, colour) = e(1) + e(2) + e(3)
  BY <1>3, DistanceIs
<1>. HIDE DEF o, e
<1>7. Colouring!Distance(cube, colour) <= Colouring!Distance(entry, colour)
  BY <1>4, <1>5, <1>6
<1>. QED  BY <1>7 DEF entry

\* How far a grey is from a colour: the further, the further from its average.
Off(g, r, s, t) == (g - r) * (g - r) + (g - s) * (g - s) + (g - t) * (g - t)

\* By how much one grey is further off than another.
LEMMA OffDiffers ==
  ASSUME NEW g \in Int, NEW h \in Int, NEW r \in Int, NEW s \in Int, NEW t \in Int
  PROVE  Off(h, r, s, t) - Off(g, r, s, t) = (h - g) * (3 * (h + g) - 2 * (r + s + t))
BY DEF Off

\* A product of two numbers on the same side of 0.
LEMMA SameSigns ==
  ASSUME NEW a \in Int, NEW b \in Int, (a >= 0 /\ b >= 0) \/ (a <= 0 /\ b <= 0)
  PROVE  a * b >= 0
OBVIOUS

\* The average's grey is the nearest.
LEMMA GreyIsNearest ==
  ASSUME NEW colour \in Colours, NEW j \in 0 .. 23
  PROVE  LET k == Colouring!GreyIndex(colour)
         IN /\ k \in 0 .. 23
            /\ Colouring!Distance(Colouring!Grey(k), colour)
                 <= Colouring!Distance(Colouring!Grey(j), colour)
<1>. DEFINE r == colour[1]
            s == colour[2]
            t == colour[3]
            sum == r + s + t
            average == sum \div 3
            k == Colouring!GreyIndex(colour)
            g == 8 + 10 * k
            h == 8 + 10 * j
<1>1. r \in 0 .. 255 /\ s \in 0 .. 255 /\ t \in 0 .. 255
  BY DEF Colours
<1>2. k = IF average < 3 THEN 0 ELSE Colouring!Min({(average - 3) \div 10, 23})
  BY DEF Colouring!GreyIndex
<1>3. \A m \in Int : Colouring!Min({m, 23}) = IF m <= 23 THEN m ELSE 23
  BY DEF Colouring!Min
<1>. HIDE DEF r, s, t, k
<1>4. sum \in Nat /\ 3 * average <= sum /\ sum <= 3 * average + 2 /\ average \in 0 .. 255
  BY <1>1
<1>. HIDE DEF sum, average
<1>5. k = IF average < 3 THEN 0 ELSE IF (average - 3) \div 10 <= 23 THEN (average - 3) \div 10 ELSE 23
  BY <1>2, <1>3, <1>4
<1>6. /\ k \in 0 .. 23
      /\ k > 0 => 10 * k <= average - 3
      /\ k < 23 => average - 3 < 10 * k + 10
  BY <1>4, <1>5
<1>7. (h - g) * (3 * (h + g) - 2 * sum) >= 0
  <2>. DEFINE a == h - g
              b == 3 * (h + g) - 2 * sum
  <2>1. a \in Int /\ b \in Int /\ a = 10 * (j - k) /\ b = 48 + 30 * (j + k) - 2 * sum
    BY <1>4, <1>6
  <2>2. CASE j > k
    <3>1. k < 23 /\ j + k >= 2 * k + 1
      BY <1>6, <2>2
    <3>2. b >= 0 /\ a >= 0
      BY <1>4, <1>6, <2>1, <2>2, <3>1
    <3>. QED  BY <2>1, <3>2, SameSigns
  <2>3. CASE j = k
    <3>1. a = 0
      BY <2>1, <2>3
    <3>. HIDE DEF a, b
    <3>. QED  BY <2>1, <3>1 DEF a, b
  <2>4. CASE j < k
    <3>1. k > 0 /\ j + k <= 2 * k - 1
      BY <1>6, <2>4
    <3>2. b <= 0 /\ a <= 0
      BY <1>4, <1>6, <2>1, <2>4, <3>1
    <3>. QED  BY <2>1, <3>2, SameSigns
  <2>. QED  BY <1>6, <2>2, <2>3, <2>4
<1>8. g \in Int /\ h \in Int
  BY <1>6
<1>9. ASSUME NEW m \in 0 .. 23
      PROVE  Colouring!Distance(Colouring!Grey(m), colour) = Off(8 + 10 * m, r, s, t)
  <2>. DEFINE grey == Colouring!Grey(m)
              l == 8 + 10 * m
  <2>1. grey[1] = l /\ grey[2] = l /\ grey[3] = l
    BY DEF Colouring!Grey
  <2>2. \A i \in 1 .. 3 : grey[i] \in Int /\ colour[i] \in Int
    <3>1. \A i \in 1 .. 3 : i = 1 \/ i = 2 \/ i = 3
      OBVIOUS
    <3>2. l \in Int
      OBVIOUS
    <3>. HIDE DEF grey, l
    <3>. QED  BY <1>1, <2>1, <3>1, <3>2 DEF r, s, t
  <2>. HIDE DEF grey, l
  <2>3. Colouring!Distance(grey, colour)
          = (grey[1] - colour[1]) * (grey[1] - colour[1])
              + (grey[2] - colour[2]) * (grey[2] - colour[2])
              + (grey[3] - colour[3]) * (grey[3] - colour[3])
    BY <2>2, DistanceIs
  <2>4. Colouring!Distance(grey, colour) = Off(l, r, s, t)
    BY <2>1, <2>3 DEF Off, r, s, t
  <2>. QED  BY <2>4 DEF grey, l
<1>10. Off(h, r, s, t) - Off(g, r, s, t) = (h - g) * (3 * (h + g) - 2 * sum)
  <2>1. r \in Int /\ s \in Int /\ t \in Int
    BY <1>1
  <2>. HIDE DEF g, h
  <2>2. Off(h, r, s, t) - Off(g, r, s, t) = (h - g) * (3 * (h + g) - 2 * (r + s + t))
    BY <1>8, <2>1, OffDiffers
  <2>. QED  BY <2>2 DEF sum
<1>11. Off(h, r, s, t) \in Int /\ Off(g, r, s, t) \in Int
  BY <1>1, <1>8 DEF Off
<1>12. Colouring!Distance(Colouring!Grey(k), colour) = Off(g, r, s, t)
  BY <1>6, <1>9
<1>13. Colouring!Distance(Colouring!Grey(j), colour) = Off(h, r, s, t)
  BY <1>9
<1>. DEFINE x == (h - g) * (3 * (h + g) - 2 * sum)
            y == Off(h, r, s, t)
            z == Off(g, r, s, t)
<1>14. z <= y
  <2>1. x >= 0 /\ y - z = x /\ y \in Int /\ z \in Int
    BY <1>7, <1>10, <1>11
  <2>. HIDE DEF x, y, z
  <2>. QED  BY <2>1
<1>. QED  BY <1>6, <1>12, <1>13, <1>14 DEF k

\* The palette holds the greys and the cube.
LEMMA PaletteIs ==
  /\ \A j \in 0 .. 23 : Colouring!Palette(232 + j) = Colouring!Grey(j)
  /\ \A a \in 0 .. 5, b \in 0 .. 5, c \in 0 .. 5 :
       /\ 16 + 36 * a + 6 * b + c \in 16 .. 231
       /\ Colouring!Palette(16 + 36 * a + 6 * b + c) = CubeEntry(a, b, c)
<1>1. ASSUME NEW j \in 0 .. 23 PROVE Colouring!Palette(232 + j) = Colouring!Grey(j)
  <2>1. 232 + j >= 232 /\ (232 + j) - 232 = j
    OBVIOUS
  <2>. QED  BY <2>1 DEF Colouring!Palette
<1>2. ASSUME NEW a \in 0 .. 5, NEW b \in 0 .. 5, NEW c \in 0 .. 5
      PROVE  /\ 16 + 36 * a + 6 * b + c \in 16 .. 231
             /\ Colouring!Palette(16 + 36 * a + 6 * b + c) = CubeEntry(a, b, c)
  <2>. DEFINE n == 16 + 36 * a + 6 * b + c
              m == n - 16
  <2>1. n \in 16 .. 231 /\ ~(n >= 232)
    OBVIOUS
  <2>2. m \div 36 = a /\ m \div 6 = 6 * a + b /\ (6 * a + b) % 6 = b /\ m % 6 = c
    OBVIOUS
  <2>. HIDE DEF n
  <2>3. Colouring!Palette(n) = CubeEntry(a, b, c)
    BY <2>1, <2>2 DEF Colouring!Palette, CubeEntry
  <2>. QED  BY <2>1, <2>3 DEF n
<1>. QED  BY <1>1, <1>2

\* Every entry is one or the other.
LEMMA EntryIs ==
  ASSUME NEW n \in 16 .. 255
  PROVE  \/ \E j \in 0 .. 23 : Colouring!Palette(n) = Colouring!Grey(j)
         \/ \E a \in 0 .. 5, b \in 0 .. 5, c \in 0 .. 5 : Colouring!Palette(n) = CubeEntry(a, b, c)
<1>1. CASE n >= 232
  <2>1. n - 232 \in 0 .. 23
    BY <1>1
  <2>2. Colouring!Palette(n) = Colouring!Grey(n - 232)
    BY <1>1 DEF Colouring!Palette
  <2>. QED  BY <2>1, <2>2, Zenon
<1>2. CASE ~(n >= 232)
  <2>. DEFINE a == (n - 16) \div 36
              b == ((n - 16) \div 6) % 6
              c == (n - 16) % 6
  <2>1. a \in 0 .. 5 /\ b \in 0 .. 5 /\ c \in 0 .. 5
    BY <1>2
  <2>2. Colouring!Palette(n) = CubeEntry(a, b, c)
    BY <1>2 DEF Colouring!Palette, CubeEntry
  <2>. HIDE DEF a, b, c
  <2>. QED  BY <2>1, <2>2, Zenon
<1>. QED  BY <1>1, <1>2, Zenon

\* A distance from a colour is a number.
LEMMA DistanceIsNumber ==
  ASSUME NEW colour \in Colours, NEW e, \A i \in 1 .. 3 : e[i] \in Int
  PROVE  Colouring!Distance(e, colour) \in Int
<1>1. \A i \in 1 .. 3 : e[i] \in Int /\ colour[i] \in Int
  <2>1. ASSUME NEW i \in 1 .. 3 PROVE colour[i] \in Int
    <3>0. i \in Places
      BY DEF Places
    <3>1. colour[i] \in Channel
      BY <3>0, ColourIs, Zenon
    <3>. QED  BY <3>1 DEF Channel
  <2>. QED  BY <2>1
<1>2. Colouring!Distance(e, colour)
        = (e[1] - colour[1]) * (e[1] - colour[1]) + (e[2] - colour[2]) * (e[2] - colour[2])
            + (e[3] - colour[3]) * (e[3] - colour[3])
  BY <1>1, DistanceIs
<1>. QED  BY <1>1, <1>2

\* Greys and cubes are of numbers.
LEMMA EntriesAreNumbers ==
  ASSUME NEW n \in 16 .. 255
  PROVE  \A i \in 1 .. 3 : Colouring!Palette(n)[i] \in Int
<1>. DEFINE entry == Colouring!Palette(n)
<1>1. ASSUME NEW j \in 0 .. 23 PROVE \A i \in 1 .. 3 : Colouring!Grey(j)[i] \in Int
  BY DEF Colouring!Grey
<1>2. ASSUME NEW a \in 0 .. 5, NEW b \in 0 .. 5, NEW c \in 0 .. 5
      PROVE  \A i \in 1 .. 3 : CubeEntry(a, b, c)[i] \in Int
  BY LevelsAreNumbers, SMTT(30) DEF CubeEntry
<1>3. \/ \E j \in 0 .. 23 : entry = Colouring!Grey(j)
      \/ \E a \in 0 .. 5, b \in 0 .. 5, c \in 0 .. 5 : entry = CubeEntry(a, b, c)
  BY EntryIs
<1>. HIDE DEF entry
<1>4. \A i \in 1 .. 3 : entry[i] \in Int
  BY <1>1, <1>2, <1>3, Zenon
<1>. QED  BY <1>4 DEF entry

\* Of all 240 entries none is nearer to a colour than the one it is drawn as.
LEMMA DrawnIsNearest ==
  ASSUME NEW colour \in Colours
  PROVE  LET drawn == Colouring!ToAnsi256(colour)
         IN /\ drawn \in 16 .. 255
            /\ \A n \in 16 .. 255 :
                 Colouring!Distance(Colouring!Palette(drawn), colour)
                   <= Colouring!Distance(Colouring!Palette(n), colour)
<1>. DEFINE level == [i \in 1 .. 3 |-> Colouring!NearestLevel(colour[i])]
            cube == [i \in 1 .. 3 |-> Colouring!CubeLevels[level[i] + 1]]
            k == Colouring!GreyIndex(colour)
            grey == Colouring!Grey(k)
            near == Colouring!Distance(grey, colour)
            far == Colouring!Distance(cube, colour)
            a == level[1]
            b == level[2]
            c == level[3]
            drawn == Colouring!ToAnsi256(colour)
<1>1. drawn = IF near < far THEN 232 + k ELSE 16 + 36 * a + 6 * b + c
  BY DEF Colouring!ToAnsi256
<1>2. \A i \in 1 .. 3 : cube[i] = Colouring!CubeLevels[Colouring!NearestLevel(colour[i]) + 1]
  OBVIOUS
<1>3. a \in 0 .. 5 /\ b \in 0 .. 5 /\ c \in 0 .. 5
  <2>1. ASSUME NEW i \in 1 .. 3 PROVE level[i] \in 0 .. 5
    <3>0. i \in Places
      BY DEF Places
    <3>1. colour[i] \in 0 .. 255
      BY <3>0, ColourIs DEF Channel
    <3>2. Colouring!NearestLevel(colour[i]) \in 0 .. 5
      BY <3>1, NearestLevelIs, Zenon
    <3>3. level[i] = Colouring!NearestLevel(colour[i])
      BY Zenon
    <3>. QED  BY <3>2, <3>3, Zenon
  <2>2. 1 \in 1 .. 3 /\ 2 \in 1 .. 3 /\ 3 \in 1 .. 3
    OBVIOUS
  <2>. QED  BY <2>1, <2>2, Zenon
<1>4. cube = CubeEntry(a, b, c)
  BY DEF CubeEntry
<1>5. k \in 0 .. 23 /\ \A j \in 0 .. 23 : near <= Colouring!Distance(Colouring!Grey(j), colour)
  <2>1. \A j \in 0 .. 23 : k \in 0 .. 23 /\ near <= Colouring!Distance(Colouring!Grey(j), colour)
    BY GreyIsNearest
  <2>. HIDE DEF k, near
  <2>2. 0 \in 0 .. 23
    OBVIOUS
  <2>. QED  BY <2>1, <2>2
<1>. HIDE DEF level
<1>6. \A x \in 0 .. 5, y \in 0 .. 5, z \in 0 .. 5 :
        far <= Colouring!Distance(CubeEntry(x, y, z), colour)
  <2>. HIDE DEF cube
  <2>. QED  BY <1>2, CubeIsNearest
<1>7. near \in Int /\ far \in Int
  <2>2. \A i \in 1 .. 3 : cube[i] \in Int
    <3>1. \A i \in 1 .. 3 : level[i] \in 0 .. 5
      BY <1>3
    <3>2. \A i \in 1 .. 3 : cube[i] \in 0 .. 255
      <4>1. \A i \in 1 .. 3 : cube[i] = Colouring!CubeLevels[level[i] + 1]
        OBVIOUS
      <4>. HIDE DEF cube
      <4>2. ASSUME NEW i \in 1 .. 3 PROVE cube[i] \in 0 .. 255
        <5>. DEFINE l == level[i]
        <5>1. l \in 0 .. 5 /\ cube[i] = Colouring!CubeLevels[l + 1]
          BY <3>1, <4>1
        <5>. HIDE DEF l
        <5>. QED  BY <5>1, LevelsAreNumbers
      <4>. QED  BY <4>2
    <3>. HIDE DEF cube
    <3>. QED  BY <3>2
  <2>3. \A i \in 1 .. 3 : grey[i] \in Int
    <3>. HIDE DEF k
    <3>. QED  BY <1>5 DEF Colouring!Grey
  <2>. HIDE DEF cube, grey
  <2>4. near \in Int
    BY <2>3, DistanceIsNumber, Zenon
  <2>5. far \in Int
    BY <2>2, DistanceIsNumber, ZenonT(30)
  <2>. QED  BY <2>4, <2>5
<1>. HIDE DEF cube, k, a, b, c, near, far, grey, drawn
<1>. DEFINE error(n) == Colouring!Distance(Colouring!Palette(n), colour)
<1>8. ASSUME NEW n \in 16 .. 255
      PROVE  near <= error(n) \/ far <= error(n)
  BY <1>5, <1>6, EntryIs
<1>9. /\ drawn \in 16 .. 255
      /\ error(drawn) = IF near < far THEN near ELSE far
  <2>1. CASE near < far
    <3>1. drawn = 232 + k /\ drawn \in 16 .. 255
      BY <1>1, <1>5, <2>1
    <3>2. error(drawn) = near
      BY <1>5, <3>1, PaletteIs DEF near, grey
    <3>. HIDE DEF error
    <3>. QED  BY <2>1, <3>1, <3>2
  <2>2. CASE ~(near < far)
    <3>1. drawn = 16 + 36 * a + 6 * b + c
      BY <1>1, <2>2
    <3>2. drawn \in 16 .. 231 /\ Colouring!Palette(drawn) = cube
      BY <1>3, <1>4, <3>1, PaletteIs
    <3>3. error(drawn) = far
      BY <3>2 DEF far
    <3>4. drawn \in 16 .. 255
      BY <3>2
    <3>. HIDE DEF error
    <3>. QED  BY <2>2, <3>3, <3>4
  <2>. QED  BY <2>1, <2>2
<1>10. ASSUME NEW n \in 16 .. 255 PROVE error(drawn) <= error(n)
  <2>1. error(n) \in Int
    <3>1. PICK e : Colouring!Palette(n) = e /\ \A i \in 1 .. 3 : e[i] \in Int
      BY EntriesAreNumbers
    <3>. QED  BY <3>1, DistanceIsNumber
  <2>2. near <= error(n) \/ far <= error(n)
    BY <1>8
  <2>. HIDE DEF error
  <2>. QED  BY <1>7, <1>9, <2>1, <2>2
<1>11. drawn \in 16 .. 255 /\ \A n \in 16 .. 255 : error(drawn) <= error(n)
  BY <1>9, <1>10
<1>. QED  BY <1>11 DEF drawn

\* Every colour of a ramp is drawn as the nearest the terminal has.
THEOREM PalettesNearest == Spec => []PaletteIsNearest
<1>1. PaletteIsNearest
  <2>1. ASSUME NEW colour \in Colours
        PROVE  LET drawn == Colouring!ToAnsi256(colour)
               IN /\ drawn \in 16 .. 255
                  /\ \A n \in 16 .. 255 :
                       Colouring!Distance(Colouring!Palette(drawn), colour)
                         <= Colouring!Distance(Colouring!Palette(n), colour)
    BY DrawnIsNearest
  <2>. QED  BY <2>1, TriedAreColours DEF PaletteIsNearest
<1>. QED  BY <1>1, PTL

----------------------------------------------------------------------------
(* Bars.                                                                   *)

\* A quotient is the number of times the divisor goes into it.
LEMMA Divided ==
  ASSUME NEW a \in Nat, NEW n \in Nat \ {0}
  PROVE  LET q == a \div n
         IN q \in Nat /\ q * n <= a /\ a < (q + 1) * n
OBVIOUS

\* A slot of a width shared by no more slots than columns is a column wide at least.
LEMMA SlotIsWide ==
  ASSUME NEW n \in Nat \ {0}, NEW width \in Nat, n <= width, NEW b \in 1 .. n
  PROVE  Picturing!SlotWidth(width, b, n) >= 1
<1>. DEFINE lo == width * (b - 1)
            hi == width * b
            q == lo \div n
            r == hi \div n
            x == (q + 1) * n
            y == (r + 1) * n
            z == q * n
<1>1. hi = lo + width /\ lo \in Nat /\ hi \in Nat
  OBVIOUS
<1>. HIDE DEF lo, hi
<1>2. q \in Nat /\ q * n <= lo /\ r \in Nat /\ hi < y
  BY <1>1, Divided
<1>. HIDE DEF q, r
<1>3. x = z + n /\ x \in Nat /\ y \in Nat /\ z \in Nat
  BY <1>2
<1>4. ASSUME r <= q PROVE FALSE
  <2>1. y <= x
    BY <1>2, <1>4, TimesGrows
  <2>2. z <= lo
    BY <1>2
  <2>. HIDE DEF x, y, z
  <2>. QED  BY <1>1, <1>2, <1>3, <2>1, <2>2
<1>5. r - q >= 1
  BY <1>2, <1>4
<1>. QED  BY <1>5 DEF q, r, lo, hi, Picturing!SlotWidth, Picturing!SlotStart

\* The first slot begins at the left, each where the one before it ends, and the
\* last ends at the right.
LEMMA SlotsTile ==
  ASSUME NEW n \in Nat \ {0}, NEW width \in Nat, NEW b \in 1 .. n
  PROVE  /\ Picturing!SlotStart(width, 1, n) = 0
         /\ Picturing!SlotStart(width, b, n) + Picturing!SlotWidth(width, b, n)
              = IF b = n THEN width ELSE Picturing!SlotStart(width, b + 1, n)
<1>. DEFINE start(c) == Picturing!SlotStart(width, c, n)
            end == (width * b) \div n
<1>1. \A c \in Int : start(c) = (width * (c - 1)) \div n
  BY DEF Picturing!SlotStart
<1>2. Picturing!SlotWidth(width, b, n) = end - start(b)
  BY DEF Picturing!SlotWidth
<1>. HIDE DEF start
<1>3. start(1) = 0
  <2>1. width * (1 - 1) = 0 /\ 0 \div n = 0
    OBVIOUS
  <2>. QED  BY <1>1, <2>1
<1>4. start(b) \in Nat /\ end \in Nat
  <2>1. width * (b - 1) \in Nat /\ width * b \in Nat
    OBVIOUS
  <2>2. (width * (b - 1)) \div n \in Nat /\ (width * b) \div n \in Nat
    <3>. DEFINE k == width * (b - 1)
                l == width * b
    <3>. HIDE DEF k, l
    <3>1. k \div n \in Nat /\ l \div n \in Nat
      BY <2>1, Divided DEF k, l
    <3>. QED  BY <3>1 DEF k, l
  <2>. QED  BY <1>1, <2>2
<1>5. CASE b = n
  <2>. DEFINE a == width * n
  <2>1. a \div n = width
    <3>. DEFINE q == a \div n
                x == q * n
                y == (q + 1) * n
                u == (width + 1) * n
    <3>1. a \in Nat
      OBVIOUS
    <3>2. q \in Nat /\ x <= a /\ a < y
      <4>. HIDE DEF a
      <4>. QED  BY <3>1, Divided
    <3>. HIDE DEF q
    <3>3. u = a + n /\ y = x + n /\ x \in Nat
      BY <3>2
    <3>4. ASSUME width + 1 <= q PROVE FALSE
      <4>1. u <= x
        BY <3>2, <3>4, TimesGrows
      <4>. HIDE DEF a, x, u
      <4>. QED  BY <3>1, <3>2, <3>3, <4>1
    <3>5. ASSUME q + 1 <= width PROVE FALSE
      <4>1. y <= a
        BY <3>2, <3>5, TimesGrows
      <4>. HIDE DEF a, x, y
      <4>. QED  BY <3>1, <3>2, <3>3, <4>1
    <3>6. q = width
      BY <3>2, <3>4, <3>5
    <3>. QED  BY <3>6 DEF q
  <2>2. end = width
    BY <1>5, <2>1
  <2>. HIDE DEF end
  <2>. QED  BY <1>2, <1>3, <1>4, <1>5, <2>2 DEF start
<1>6. CASE b # n
  <2>1. start(b + 1) = end
    <3>1. (b + 1) - 1 = b /\ b + 1 \in Int
      OBVIOUS
    <3>. QED  BY <1>1, <3>1
  <2>. HIDE DEF end
  <2>2. start(1) = 0 /\ start(b) + Picturing!SlotWidth(width, b, n) = start(b + 1)
    BY <1>2, <1>3, <1>4, <2>1
  <2>. QED  BY <1>6, <2>2 DEF start
<1>. QED  BY <1>5, <1>6

\* How much of a bar is filled: nothing of nothing, all of the largest.
LEMMA BarFillIs ==
  ASSUME NEW large \in Nat \ {0}, NEW v \in 0 .. large, NEW height \in Nat \ {0}
  PROVE  LET f == Picturing!BarFill(<<v, large>>, height)
             q == Picturing!RoundDiv(v * (height * 8), large)
         IN /\ f = IF v = 0 THEN 0 ELSE IF q >= 1 THEN q ELSE 1
            /\ q \in Nat
            /\ f \in 0 .. 8 * height
            /\ f > 0 <=> v > 0
            /\ v = large => f = 8 * height
<1>. DEFINE f == Picturing!BarFill(<<v, large>>, height)
            rows == height * 8
            a == v * rows
            q == Picturing!RoundDiv(a, large)
            x == q * large
            full == rows * large
            over == (rows + 1) * large
<1>1. Picturing!Min({v, large}) = v
  BY DEF Picturing!Min
<1>2. f = IF v <= 0 THEN 0 ELSE Picturing!Max({q, 1})
  BY <1>1 DEF Picturing!BarFill
<1>3. rows \in Nat /\ rows >= 8 /\ rows = 8 * height
  OBVIOUS
<1>. HIDE DEF rows, f
<1>4. a \in Nat /\ a <= full /\ full \in Nat
  <2>1. v \in Int /\ large \in Int /\ v <= large
    OBVIOUS
  <2>2. a <= large * rows
    BY <1>3, <2>1, TimesGrows
  <2>3. large * rows = full
    BY <1>3
  <2>. QED  BY <1>3, <2>2, <2>3
<1>. HIDE DEF a
<1>5. q \in Nat /\ 2 * x <= 2 * a + large /\ 2 * a < 2 * x + large
  BY <1>4, Rounded
<1>. HIDE DEF q
<1>6. x \in Nat /\ over = full + large
  BY <1>3, <1>5
<1>7. q <= rows
  <2>1. ASSUME rows + 1 <= q PROVE FALSE
    <3>1. over <= x
      BY <1>3, <1>5, <2>1, TimesGrows
    <3>. HIDE DEF over, x, full
    <3>. QED  BY <1>4, <1>5, <1>6, <3>1
  <2>. QED  BY <1>3, <1>5, <2>1
<1>8. f = IF v = 0 THEN 0 ELSE IF q >= 1 THEN q ELSE 1
  BY <1>2, <1>5 DEF Picturing!Max
<1>9. v = large => q = rows
  <2>. SUFFICES ASSUME v = large PROVE q = rows
    OBVIOUS
  <2>1. a = full
    BY <1>3 DEF a
  <2>. DEFINE y == (q + 1) * large
  <2>2. y = x + large
    BY <1>5
  <2>3. ASSUME q + 1 <= rows PROVE FALSE
    <3>1. y <= full
      BY <1>3, <1>5, <2>3, TimesGrows
    <3>. HIDE DEF y, x, full
    <3>. QED  BY <1>4, <1>5, <1>6, <2>1, <2>2, <3>1
  <2>. QED  BY <1>3, <1>5, <1>7, <2>3
<1>10. /\ f \in 0 .. 8 * height
       /\ f > 0 <=> v > 0
       /\ v = large => f = 8 * height
  BY <1>3, <1>5, <1>7, <1>8, <1>9
<1>. QED  BY <1>5, <1>8, <1>10 DEF f, q, a, rows

\* A larger bar is not filled less.
LEMMA BarFillGrows ==
  ASSUME NEW large \in Nat \ {0}, NEW w \in 0 .. large, NEW v \in 0 .. w, NEW height \in Nat \ {0}
  PROVE  Picturing!BarFill(<<v, large>>, height) <= Picturing!BarFill(<<w, large>>, height)
<1>. DEFINE f == Picturing!BarFill(<<v, large>>, height)
            g == Picturing!BarFill(<<w, large>>, height)
            rows == height * 8
            a == v * rows
            e == w * rows
            q == Picturing!RoundDiv(a, large)
            r == Picturing!RoundDiv(e, large)
<1>1. v \in 0 .. large /\ v <= w
  OBVIOUS
<1>2. f = (IF v = 0 THEN 0 ELSE IF q >= 1 THEN q ELSE 1) /\ q \in Nat
  BY <1>1, BarFillIs
<1>3. g = (IF w = 0 THEN 0 ELSE IF r >= 1 THEN r ELSE 1) /\ r \in Nat
  BY BarFillIs
<1>4. rows \in Nat
  OBVIOUS
<1>. HIDE DEF f, g, rows
<1>5. a \in Nat /\ e \in Nat /\ a <= e
  <2>1. v \in Nat /\ w \in Nat
    OBVIOUS
  <2>. QED  BY <1>1, <1>4, <2>1, TimesGrows
<1>. HIDE DEF a, e
<1>6. q <= r
  BY <1>5, RoundedGrows
<1>. HIDE DEF q, r
<1>7. f <= g
  BY <1>1, <1>2, <1>3, <1>6
<1>. QED  BY <1>7 DEF f, g

\* A bar is as many eighths as are filled, the rows below it full.
LEMMA BarIsFill ==
  ASSUME NEW fraction, Picturing!BarFill(fraction, 2) \in 0 .. 16
  PROVE  LET bar == Picturing!VerticalBar(fraction, 2)
         IN /\ bar[0] + bar[1] = Picturing!BarFill(fraction, 2)
            /\ bar[0] > 0 => bar[1] = 8
<1>. DEFINE f == Picturing!BarFill(fraction, 2)
            bar == Picturing!VerticalBar(fraction, 2)
<1>1. bar = [y \in 0 .. 1 |->
               Picturing!Min({Picturing!Max({f - (16 - (y + 1) * 8), 0}), 8})]
  BY DEF Picturing!VerticalBar
<1>2. \A n \in Int : Picturing!Max({n, 0}) = IF n >= 0 THEN n ELSE 0
  BY DEF Picturing!Max
<1>3. \A n \in Int : Picturing!Min({n, 8}) = IF n <= 8 THEN n ELSE 8
  BY DEF Picturing!Min
<1>. HIDE DEF f
<1>4. f \in 0 .. 16
  BY DEF f
<1>5. bar[0] = Picturing!Min({Picturing!Max({f - 8, 0}), 8})
  BY <1>1
<1>6. bar[1] = Picturing!Min({Picturing!Max({f, 0}), 8})
  BY <1>1, <1>4
<1>. HIDE DEF bar
<1>7. bar[0] = IF f >= 8 THEN f - 8 ELSE 0
  BY <1>2, <1>3, <1>4, <1>5
<1>8. bar[1] = IF f <= 8 THEN f ELSE 8
  BY <1>2, <1>3, <1>4, <1>6
<1>9. bar[0] + bar[1] = f /\ (bar[0] > 0 => bar[1] = 8)
  BY <1>4, <1>7, <1>8
<1>. QED  BY <1>9 DEF f, bar

\* The slots of five bars, whatever the width, and what is filled of any three.
THEOREM BarsAreCompared == Spec => []BarsCompare
<1>1. ASSUME NEW width \in 5 .. 40, NEW b \in 1 .. 5
      PROVE  /\ Picturing!SlotWidth(width, b, 5) >= 1
             /\ Picturing!SlotStart(width, 1, 5) = 0
             /\ Picturing!SlotStart(width, b, 5) + Picturing!SlotWidth(width, b, 5)
                  = IF b = 5 THEN width ELSE Picturing!SlotStart(width, b + 1, 5)
  <2>1. 5 \in Nat \ {0} /\ width \in Nat /\ 5 <= width
    OBVIOUS
  <2>. QED  BY <2>1, SlotIsWide, SlotsTile
<1>2. ASSUME NEW sizes \in [1 .. 3 -> Nat], Picturing!Bars(sizes, 2) # <<>>, NEW b \in 1 .. 3
      PROVE  LET bars == Picturing!Bars(sizes, 2)
                 filled(c) == bars[c][0] + bars[c][1]
             IN /\ (filled(b) > 0) <=> (sizes[b] > 0)
                /\ bars[b][0] > 0 => bars[b][1] = 8
                /\ \A d \in 1 .. 3 : sizes[b] <= sizes[d] => filled(b) <= filled(d)
                /\ sizes[b] = Max(Range(sizes)) => filled(b) = 16
  <2>. DEFINE bars == Picturing!Bars(sizes, 2)
              large == Max(Range(sizes))
              fill(c) == Picturing!BarFill(<<sizes[c], large>>, 2)
              filled(c) == bars[c][0] + bars[c][1]
  <2>2. large \in Nat /\ \A c \in 1 .. 3 : sizes[c] \in 0 .. large
    <3>1. \A c \in 1 .. 3 : sizes[c] \in Nat /\ sizes[c] \in Range(sizes)
      BY DEF Range
    <3>2. Range(sizes) = {sizes[1], sizes[2], sizes[3]}
      BY DEF Range
    <3>3. \E x \in Range(sizes) : \A y \in Range(sizes) : x >= y
      BY <3>1, <3>2
    <3>4. large \in Range(sizes) /\ \A x \in Range(sizes) : large >= x
      BY <3>3 DEF Max
    <3>. HIDE DEF large
    <3>. QED  BY <3>1, <3>2, <3>4
  <2>3. Picturing!Max(Range(sizes)) = large
    BY DEF Max, Picturing!Max
  <2>4. bars = IF large = 0 THEN <<>>
               ELSE [c \in 1 .. 3 |-> Picturing!VerticalBar(<<sizes[c], large>>, 2)]
    <3>1. Picturing!Range(sizes) = Range(sizes)
      BY DEF Range, Picturing!Range
    <3>. HIDE DEF large
    <3>. QED  BY <2>3, <3>1 DEF Picturing!Bars
  <2>5. large # 0
    BY <1>2, <2>4
  <2>. HIDE DEF large, bars
  <2>6. \A c \in 1 .. 3 : bars[c] = Picturing!VerticalBar(<<sizes[c], large>>, 2)
    BY <2>4, <2>5
  <2>7. ASSUME NEW c \in 1 .. 3
        PROVE  /\ fill(c) \in 0 .. 16
               /\ fill(c) > 0 <=> sizes[c] > 0
               /\ sizes[c] = large => fill(c) = 16
    <3>. DEFINE v == sizes[c]
    <3>1. v \in 0 .. large /\ large \in Nat \ {0} /\ 2 \in Nat \ {0}
      BY <2>2, <2>5
    <3>. HIDE DEF v
    <3>2. /\ Picturing!BarFill(<<v, large>>, 2) \in 0 .. 8 * 2
          /\ Picturing!BarFill(<<v, large>>, 2) > 0 <=> v > 0
          /\ v = large => Picturing!BarFill(<<v, large>>, 2) = 8 * 2
      BY <3>1, BarFillIs
    <3>. QED  BY <3>2 DEF v
  <2>8. ASSUME NEW c \in 1 .. 3, NEW d \in 1 .. 3, sizes[c] <= sizes[d] PROVE fill(c) <= fill(d)
    <3>. DEFINE v == sizes[c]
                w == sizes[d]
    <3>1. w \in 0 .. large /\ v \in 0 .. w /\ large \in Nat \ {0} /\ 2 \in Nat \ {0}
      BY <2>2, <2>5, <2>8
    <3>. HIDE DEF v, w
    <3>2. Picturing!BarFill(<<v, large>>, 2) <= Picturing!BarFill(<<w, large>>, 2)
      BY <3>1, BarFillGrows
    <3>. QED  BY <3>2 DEF v, w
  <2>9. ASSUME NEW c \in 1 .. 3 PROVE filled(c) = fill(c) /\ (bars[c][0] > 0 => bars[c][1] = 8)
    <3>. DEFINE fraction == <<sizes[c], large>>
                bar == Picturing!VerticalBar(fraction, 2)
    <3>1. Picturing!BarFill(fraction, 2) \in 0 .. 16
      BY <2>7
    <3>2. bars[c] = bar
      BY <2>6
    <3>. HIDE DEF fraction
    <3>3. bar[0] + bar[1] = Picturing!BarFill(fraction, 2) /\ (bar[0] > 0 => bar[1] = 8)
      BY <3>1, BarIsFill
    <3>. QED  BY <3>2, <3>3 DEF fraction
  <2>. HIDE DEF fill
  <2>10. /\ (filled(b) > 0) <=> (sizes[b] > 0)
         /\ bars[b][0] > 0 => bars[b][1] = 8
         /\ \A d \in 1 .. 3 : sizes[b] <= sizes[d] => filled(b) <= filled(d)
         /\ sizes[b] = large => filled(b) = 16
    <3>. HIDE DEF filled
    <3>1. filled(b) = fill(b) /\ \A d \in 1 .. 3 : filled(d) = fill(d)
      BY <2>9
    <3>2. /\ fill(b) > 0 <=> sizes[b] > 0
          /\ sizes[b] = large => fill(b) = 16
          /\ bars[b][0] > 0 => bars[b][1] = 8
      BY <2>7, <2>9
    <3>3. ASSUME NEW d \in 1 .. 3, sizes[b] <= sizes[d] PROVE filled(b) <= filled(d)
      <4>1. fill(b) <= fill(d)
        BY <2>8, <3>3, SMTT(30)
      <4>. QED  BY <3>1, <4>1
    <3>. QED  BY <3>1, <3>2, <3>3
  <2>. QED  BY <2>10 DEF bars, large
<1>3. BarsCompare
  <2>1. \A sizes \in [1 .. 3 -> {0, 1, 2, 30, 31, 500}] : sizes \in [1 .. 3 -> Nat]
    OBVIOUS
  <2>. QED  BY <1>1, <1>2, <2>1 DEF BarsCompare
<1>. QED  BY <1>3, PTL

----------------------------------------------------------------------------
(* Stacked bands.                                                          *)

\* The top of a band in a column, over the one below it.
TopOver(below, r, max, rows) ==
  IF r = Picturing!Blank THEN 0
  ELSE Picturing!Min({below + Picturing!BandHeight(r, max, rows), rows})

\* What the fold over a column's readings computes, for each set of their places.
LastOf(tops) == IF tops = <<>> THEN 0 ELSE tops[Len(tops)]
Stack(tops, r, max, rows) == Append(tops, TopOver(LastOf(tops), r, max, rows))
IsStacking(d, readings, max, rows) ==
  d = [s \in SUBSET DOMAIN readings |->
         IF s = {} THEN <<>>
         ELSE Stack(d[s \ {Max(s)}], readings[Max(s)], max, rows)]
Stacking(readings, max, rows) == CHOOSE d : IsStacking(d, readings, max, rows)

\* Tops is that computation for all the places.
LEMMA TopsAreStacked ==
  ASSUME NEW readings, NEW max, NEW rows
  PROVE  Picturing!Tops(readings, max, rows) = Stacking(readings, max, rows)[DOMAIN readings]
BY DEF Picturing!Tops, Picturing!FoldLeft, Picturing!MapThenFoldSet, Picturing!Max, Max,
       Stacking, IsStacking, Stack, TopOver, LastOf

\* A column's readings, and the scale it is drawn in.
Readings3(r) == DOMAIN r = 1 .. 3 /\ \A b \in 1 .. 3 : r[b] \in Nat \cup {-1}
InWholes(max) == max[1] \in Nat \ {0} /\ max[2] = 1

\* A band has a height exactly when there is something of it.
LEMMA BandHeightIs ==
  ASSUME NEW max, InWholes(max), NEW rows \in Nat, NEW v \in Nat \cup {-1}
  PROVE  LET n == Picturing!BandHeight(v, max, rows)
         IN /\ n \in Nat
            /\ n > 0 <=> (v > 0 /\ IsFinite(v))
            /\ (v > 0 /\ IsFinite(v)) =>
                 n = Max({1, (2 * v * rows + max[1]) \div (2 * max[1])})
<1>. DEFINE b == max[1]
            n == Picturing!BandHeight(v, max, rows)
            a == v * rows
            q == Picturing!RoundDiv(a, b)
            p == (2 * v * rows + b) \div (2 * b)
<1>1. b \in Nat \ {0} /\ max[2] = 1
  BY DEF InWholes
<1>2. CASE v > 0 /\ IsFinite(v)
  <2>1. v \in Nat /\ ~(v <= 0)
    BY <1>2
  <2>2. a \in Nat /\ v * rows * max[2] = a
    BY <1>1, <2>1
  <2>3. n = Picturing!Max({Picturing!RoundDiv(v * rows * max[2], b), 1})
    BY <1>2, <2>1 DEF Picturing!BandHeight
  <2>4. n = Picturing!Max({q, 1})
    BY <2>2, <2>3
  <2>5. q \in Nat
    <3>. HIDE DEF a, b
    <3>. QED  BY <1>1, <2>2, Rounded
  <2>6. q = p
    <3>1. 2 * a = 2 * v * rows
      BY <2>1
    <3>. QED  BY <3>1 DEF Picturing!RoundDiv
  <2>. HIDE DEF n, q, p
  <2>7. n = IF q >= 1 THEN q ELSE 1
    BY <2>4, <2>5 DEF Picturing!Max
  <2>8. Max({1, q}) = IF 1 >= q THEN 1 ELSE q
    BY <2>5, MaxOfTwo
  <2>9. n \in Nat /\ n > 0 /\ n = Max({1, p})
    BY <2>5, <2>6, <2>7, <2>8
  <2>. QED  BY <1>2, <2>9 DEF n, p, b
<1>3. CASE ~(v > 0 /\ IsFinite(v))
  <2>1. ~IsFinite(v) \/ v <= 0
    BY <1>3
  <2>2. n = 0
    BY <2>1 DEF Picturing!BandHeight
  <2>. HIDE DEF n
  <2>. QED  BY <1>3, <2>2 DEF n
<1>. QED  BY <1>2, <1>3

\* A top is a number of steps.
LEMMA TopIsSteps ==
  ASSUME NEW max, InWholes(max), NEW rows \in Nat, NEW v \in Nat \cup {-1}, NEW below \in Nat
  PROVE  /\ TopOver(below, v, max, rows) \in 0 .. rows
         /\ TopOver(below, v, max, rows)
              = IF v = -1 THEN 0
                ELSE IF below + Picturing!BandHeight(v, max, rows) <= rows
                     THEN below + Picturing!BandHeight(v, max, rows) ELSE rows
<1>. DEFINE n == Picturing!BandHeight(v, max, rows)
            t == TopOver(below, v, max, rows)
<1>1. n \in Nat
  BY BandHeightIs
<1>2. t = IF v = -1 THEN 0 ELSE Picturing!Min({below + n, rows})
  BY DEF TopOver, Picturing!Blank
<1>. HIDE DEF n, t
<1>3. Picturing!Min({below + n, rows}) = IF below + n <= rows THEN below + n ELSE rows
  BY <1>1 DEF Picturing!Min
<1>4. t \in 0 .. rows
      /\ t = IF v = -1 THEN 0 ELSE IF below + n <= rows THEN below + n ELSE rows
  BY <1>1, <1>2, <1>3
<1>. QED  BY <1>4 DEF n, t

\* The same, by the height of the band.
Stepped(top, below, v, height, rows) ==
  /\ top \in 0 .. rows
  /\ top = IF v = -1 THEN 0 ELSE IF below + height <= rows THEN below + height ELSE rows

LEMMA TopSteps ==
  ASSUME NEW max, InWholes(max), NEW rows \in Nat, NEW v \in Nat \cup {-1}, NEW below \in Nat
  PROVE  Stepped(TopOver(below, v, max, rows), below, v, Picturing!BandHeight(v, max, rows), rows)
<1>. DEFINE n == Picturing!BandHeight(v, max, rows)
            t == TopOver(below, v, max, rows)
<1>1. /\ t \in 0 .. rows
      /\ t = IF v = -1 THEN 0 ELSE IF below + n <= rows THEN below + n ELSE rows
  BY TopIsSteps, ZenonT(30)
<1>. HIDE DEF n, t
<1>2. Stepped(t, below, v, n, rows)
  BY <1>1, Zenon DEF Stepped
<1>. QED  BY <1>2 DEF n, t

\* Appending to one.
LEMMA AppendedToOne ==
  ASSUME NEW a, NEW b
  PROVE  Append(<<a>>, b) = <<a, b>>
<1>. DEFINE S == {a, b}
            t == Append(<<a>>, b)
<1>1. <<a>> \in Seq(S) /\ b \in S /\ Len(<<a>>) = 1 /\ <<a>>[1] = a
  OBVIOUS
<1>2. t \in Seq(S) /\ Len(t) = 2 /\ t[1] = a /\ t[2] = b
  BY <1>1
<1>. HIDE DEF t
<1>3. t = [i \in 1 .. 2 |-> t[i]]
  BY <1>2
<1>4. t = <<t[1], t[2]>>
  BY <1>3
<1>. QED  BY <1>2, <1>4 DEF t

\* Appending to two.
LEMMA AppendedToTwo ==
  ASSUME NEW a, NEW b, NEW c
  PROVE  Append(<<a, b>>, c) = <<a, b, c>>
<1>. DEFINE S == {a, b, c}
            t == Append(<<a, b>>, c)
<1>1. /\ <<a, b>> \in Seq(S) /\ c \in S /\ Len(<<a, b>>) = 2
      /\ <<a, b>>[1] = a /\ <<a, b>>[2] = b
  OBVIOUS
<1>2. t \in Seq(S) /\ Len(t) = 3 /\ t[1] = a /\ t[2] = b /\ t[3] = c
  BY <1>1
<1>. HIDE DEF t
<1>3. t = [i \in 1 .. 3 |-> t[i]]
  BY <1>2
<1>4. t = <<t[1], t[2], t[3]>>
  BY <1>3
<1>. QED  BY <1>2, <1>4 DEF t

\* The tops of three bands.
LEMMA TopsOfThree ==
  ASSUME NEW max, InWholes(max), NEW rows \in Nat, NEW r, Readings3(r)
  PROVE  LET tops == Picturing!Tops(r, max, rows)
         IN /\ DOMAIN tops = 1 .. 3 /\ Len(tops) = 3
            /\ tops[1] = TopOver(0, r[1], max, rows)
            /\ tops[2] = TopOver(tops[1], r[2], max, rows)
            /\ tops[3] = TopOver(tops[2], r[3], max, rows)
<1>. DEFINE places == 1 .. 3
            T == Seq(Nat)
            next == [it \in places \X T |-> Stack(it[2], r[it[1]], max, rows)]
            pick == [s \in SUBSET places |-> Max(s)]
            D == Stacking(r, max, rows)
<1>1. DOMAIN r = places /\ \A b \in places : r[b] \in Nat \cup {-1}
  BY DEF Readings3
<1>2. IsFiniteSet(places)
  <2>1. 1 \in Int /\ 3 \in Int
    OBVIOUS
  <2>. QED  BY <2>1, FS_Interval
<1>3. ASSUME NEW i \in places, NEW t \in T PROVE Stack(t, r[i], max, rows) \in T
  <2>1. LastOf(t) \in Nat
    BY DEF LastOf
  <2>2. TopOver(LastOf(t), r[i], max, rows) \in 0 .. rows
    BY <1>1, <2>1, TopIsSteps
  <2>. DEFINE top == TopOver(LastOf(t), r[i], max, rows)
  <2>. HIDE DEF top
  <2>3. top \in Nat
    BY <2>2 DEF top
  <2>4. Append(t, top) \in Seq(Nat)
    BY <2>3
  <2>. QED  BY <2>4 DEF Stack, top
<1>4. <<>> \in T
  OBVIOUS
<1>. HIDE DEF places, T
<1>5. next \in [places \X T -> T]
  BY <1>3
<1>6. \A s \in SUBSET places : pick[s] = Max(s)
  OBVIOUS
<1>7. \A s \in SUBSET places : s # {} => pick[s] \in s
  <2>1. 3 \in Nat
    OBVIOUS
  <2>. HIDE DEF pick
  <2>. QED  BY <1>6, <2>1, MaxIsMember DEF places
<1>8. PICK d \in [SUBSET places -> T] : IsFoldBy(d, places, <<>>, next, pick)
  <2>. HIDE DEF next, pick
  <2>. QED  BY <1>2, <1>4, <1>5, <1>7, FoldByExists
<1>9. IsStacking(d, r, max, rows)
  <2>1. ASSUME NEW s \in SUBSET places, s # {}
        PROVE  d[s] = Stack(d[s \ {Max(s)}], r[Max(s)], max, rows)
    <3>. HIDE DEF pick, next
    <3>0. d[s] = next[<<pick[s], d[s \ {pick[s]}]>>]
      BY <1>8, <2>1, Zenon DEF IsFoldBy
    <3>1. d[s] = next[<<Max(s), d[s \ {Max(s)}]>>] /\ Max(s) \in places
      BY <1>6, <1>7, <2>1, <3>0
    <3>. USE DEF next
    <3>2. d[s \ {Max(s)}] \in T
      OBVIOUS
    <3>. QED  BY <3>1, <3>2
  <2>2. \A s \in SUBSET places : s = {} => d[s] = <<>>
    <3>. HIDE DEF next, pick
    <3>. QED  BY <1>8 DEF IsFoldBy
  <2>3. d = [s \in SUBSET places |-> d[s]]
    OBVIOUS
  <2>. HIDE DEF next, pick
  <2>. QED  BY <1>1, <2>1, <2>2, <2>3 DEF IsStacking
<1>10. IsStacking(D, r, max, rows)
  BY <1>9 DEF Stacking
<1>. HIDE DEF D
<1>11. /\ D[{}] = <<>>
       /\ \A s \in SUBSET places : s # {} => D[s] = Stack(D[s \ {Max(s)}], r[Max(s)], max, rows)
  BY <1>1, <1>10 DEF IsStacking
<1>12. /\ D[{1}] = Stack(D[{}], r[1], max, rows)
       /\ D[{1, 2}] = Stack(D[{1}], r[2], max, rows)
       /\ D[{1, 2, 3}] = Stack(D[{1, 2}], r[3], max, rows)
  <2>1. Max({1}) = 1 /\ Max({1, 2}) = 2 /\ Max({1, 2, 3}) = 3
    BY DEF Max
  <2>2. /\ {1} \in SUBSET places /\ {1, 2} \in SUBSET places /\ {1, 2, 3} \in SUBSET places
        /\ {1} # {} /\ {1, 2} # {} /\ {1, 2, 3} # {}
        /\ {1} \ {1} = {} /\ {1, 2} \ {2} = {1} /\ {1, 2, 3} \ {3} = {1, 2}
    BY DEF places
  <2>3. ASSUME NEW u \in SUBSET places, u # {}, NEW top, Max(u) = top, NEW below, u \ {top} = below
        PROVE  D[u] = Stack(D[below], r[top], max, rows)
    BY <1>11, <2>3, Zenon
  <2>4. D[{1}] = Stack(D[{}], r[1], max, rows)
    BY <2>1, <2>2, <2>3, ZenonT(30)
  <2>5. D[{1, 2}] = Stack(D[{1}], r[2], max, rows)
    BY <2>1, <2>2, <2>3, ZenonT(30)
  <2>6. D[{1, 2, 3}] = Stack(D[{1, 2}], r[3], max, rows)
    BY <2>1, <2>2, <2>3, ZenonT(30)
  <2>. QED  BY <2>4, <2>5, <2>6
<1>13. Picturing!Tops(r, max, rows) = D[{1, 2, 3}]
  <2>1. places = {1, 2, 3}
    BY DEF places
  <2>. QED  BY <1>1, <2>1, TopsAreStacked DEF D
<1>. DEFINE t1 == TopOver(0, r[1], max, rows)
            t2 == TopOver(t1, r[2], max, rows)
            t3 == TopOver(t2, r[3], max, rows)
<1>14. t1 \in Nat /\ t2 \in Nat /\ t3 \in Nat
  <2>1. r[1] \in Nat \cup {-1} /\ r[2] \in Nat \cup {-1} /\ r[3] \in Nat \cup {-1}
    BY <1>1 DEF places
  <2>. DEFINE v == r[2]
              w == r[3]
  <2>. HIDE DEF v, w
  <2>2. v \in Nat \cup {-1} /\ w \in Nat \cup {-1}
    BY <2>1 DEF v, w
  <2>3. t1 \in Nat
    <3>. DEFINE u == r[1]
    <3>1. u \in Nat \cup {-1} /\ 0 \in Nat
      BY <2>1
    <3>. HIDE DEF u
    <3>2. TopOver(0, u, max, rows) \in 0 .. rows
      BY <3>1, TopIsSteps
    <3>. QED  BY <3>2 DEF u
  <2>. HIDE DEF t1
  <2>4. TopOver(t1, v, max, rows) \in 0 .. rows
    BY <2>2, <2>3, TopIsSteps
  <2>5. t2 \in Nat
    BY <2>4 DEF v
  <2>. HIDE DEF t2
  <2>6. TopOver(t2, w, max, rows) \in 0 .. rows
    BY <2>2, <2>5, TopIsSteps
  <2>7. t3 \in Nat
    BY <2>6 DEF w
  <2>. QED  BY <2>3, <2>5, <2>7
<1>15. D[{1}] = <<t1>>
  <2>1. LastOf(<<>>) = 0
    BY DEF LastOf
  <2>2. D[{1}] = Append(<<>>, t1)
    BY <1>11, <1>12, <2>1 DEF Stack
  <2>. HIDE DEF t1
  <2>. QED  BY <1>14, <2>2
<1>16. D[{1, 2}] = <<t1, t2>>
  <2>1. LastOf(<<t1>>) = t1
    <3>. HIDE DEF t1
    <3>. QED  BY DEF LastOf
  <2>2. D[{1, 2}] = Append(<<t1>>, t2)
    BY <1>12, <1>15, <2>1 DEF Stack
  <2>. HIDE DEF t1, t2
  <2>. QED  BY <2>2, AppendedToOne
<1>17. D[{1, 2, 3}] = <<t1, t2, t3>>
  <2>1. LastOf(<<t1, t2>>) = t2
    <3>. HIDE DEF t1, t2
    <3>. QED  BY DEF LastOf
  <2>2. D[{1, 2, 3}] = Append(<<t1, t2>>, t3)
    BY <1>12, <1>16, <2>1 DEF Stack
  <2>. HIDE DEF t1, t2, t3
  <2>. QED  BY <2>2, AppendedToTwo
<1>. DEFINE tops == Picturing!Tops(r, max, rows)
<1>18. tops = <<t1, t2, t3>>
  BY <1>13, <1>17
<1>. HIDE DEF tops
<1>19. /\ DOMAIN tops = 1 .. 3 /\ Len(tops) = 3
       /\ tops[1] = t1 /\ tops[2] = t2 /\ tops[3] = t3
  <2>. HIDE DEF t1, t2, t3
  <2>. QED  BY <1>18
<1>. QED  BY <1>19 DEF tops

\* The readings of a column: there is one of each band, or of none.
IsColumn(r) ==
  Readings3(r) /\ ((\A b \in 1 .. 3 : r[b] = -1) \/ (\A b \in 1 .. 3 : r[b] # -1))

\* A column is as high as its bands together, up to the top.
LEMMA ColumnIsItsBands ==
  ASSUME NEW max, InWholes(max), NEW rows \in Nat, NEW r, IsColumn(r)
  PROVE  LET tops == Picturing!Tops(r, max, rows)
             high(b) == Picturing!BandHeight(r[b], max, rows)
             upto(n) == IF n <= rows THEN n ELSE rows
         IN /\ DOMAIN tops = 1 .. 3 /\ Len(tops) = 3
            /\ \A b \in 1 .. 3 : high(b) \in Nat
            /\ tops[1] = upto(high(1))
            /\ tops[2] = upto(high(1) + high(2))
            /\ tops[3] = upto(high(1) + high(2) + high(3))
<1>. DEFINE tops == Picturing!Tops(r, max, rows)
            high(b) == Picturing!BandHeight(r[b], max, rows)
            r1 == r[1]
            r2 == r[2]
            r3 == r[3]
<1>1. r1 \in Nat \cup {-1} /\ r2 \in Nat \cup {-1} /\ r3 \in Nat \cup {-1}
  BY DEF IsColumn, Readings3
<1>2. (r1 = -1 /\ r2 = -1 /\ r3 = -1) \/ (r1 # -1 /\ r2 # -1 /\ r3 # -1)
  BY DEF IsColumn
<1>3. /\ DOMAIN tops = 1 .. 3 /\ Len(tops) = 3
      /\ tops[1] = TopOver(0, r1, max, rows)
      /\ tops[2] = TopOver(tops[1], r2, max, rows)
      /\ tops[3] = TopOver(tops[2], r3, max, rows)
  BY TopsOfThree DEF IsColumn
<1>. DEFINE h1 == Picturing!BandHeight(r1, max, rows)
            h2 == Picturing!BandHeight(r2, max, rows)
            h3 == Picturing!BandHeight(r3, max, rows)
            t1 == tops[1]
            t2 == tops[2]
            t3 == tops[3]
<1>4. high(1) = h1 /\ high(2) = h2 /\ high(3) = h3
  OBVIOUS
<1>. HIDE DEF tops, r1, r2, r3
<1>5. /\ h1 \in Nat /\ h2 \in Nat /\ h3 \in Nat
      /\ r1 = -1 => h1 = 0
      /\ r2 = -1 => h2 = 0
      /\ r3 = -1 => h3 = 0
  <2>1. h1 \in Nat /\ (h1 > 0 <=> (r1 > 0 /\ IsFinite(r1)))
    BY <1>1, BandHeightIs
  <2>2. h2 \in Nat /\ (h2 > 0 <=> (r2 > 0 /\ IsFinite(r2)))
    BY <1>1, BandHeightIs
  <2>3. h3 \in Nat /\ (h3 > 0 <=> (r3 > 0 /\ IsFinite(r3)))
    BY <1>1, BandHeightIs
  <2>. HIDE DEF h1, h2, h3
  <2>. QED  BY <2>1, <2>2, <2>3
<1>6. t1 = (IF r1 = -1 THEN 0 ELSE IF h1 <= rows THEN h1 ELSE rows) /\ t1 \in Nat
  <2>1. 0 \in Nat
    OBVIOUS
  <2>2. /\ TopOver(0, r1, max, rows) \in 0 .. rows
        /\ TopOver(0, r1, max, rows)
             = IF r1 = -1 THEN 0 ELSE IF 0 + h1 <= rows THEN 0 + h1 ELSE rows
    <3>1. Stepped(TopOver(0, r1, max, rows), 0, r1, h1, rows)
      BY <1>1, <2>1, TopSteps, Zenon
    <3>. QED  BY <3>1, Zenon DEF Stepped
  <2>. HIDE DEF h1
  <2>. QED  BY <1>3, <1>5, <2>2
<1>. HIDE DEF t1
<1>7. t2 = (IF r2 = -1 THEN 0 ELSE IF t1 + h2 <= rows THEN t1 + h2 ELSE rows) /\ t2 \in Nat
  <2>1. /\ TopOver(t1, r2, max, rows) \in 0 .. rows
        /\ TopOver(t1, r2, max, rows)
             = IF r2 = -1 THEN 0 ELSE IF t1 + h2 <= rows THEN t1 + h2 ELSE rows
    <3>1. t1 \in Nat /\ r2 \in Nat \cup {-1}
      BY <1>1, <1>6
    <3>2. Stepped(TopOver(t1, r2, max, rows), t1, r2, h2, rows)
      BY <1>1, <3>1, TopSteps, Zenon
    <3>. QED  BY <3>2, Zenon DEF Stepped
  <2>2. t2 = TopOver(t1, r2, max, rows)
    BY <1>3 DEF t1
  <2>. HIDE DEF h2
  <2>. QED  BY <1>5, <2>1, <2>2
<1>. HIDE DEF t2
<1>8. t3 = IF r3 = -1 THEN 0 ELSE IF t2 + h3 <= rows THEN t2 + h3 ELSE rows
  <2>1. TopOver(t2, r3, max, rows)
          = IF r3 = -1 THEN 0 ELSE IF t2 + h3 <= rows THEN t2 + h3 ELSE rows
    <3>1. t2 \in Nat /\ r3 \in Nat \cup {-1}
      BY <1>1, <1>7
    <3>2. Stepped(TopOver(t2, r3, max, rows), t2, r3, h3, rows)
      BY <1>1, <3>1, TopSteps, Zenon
    <3>. QED  BY <3>2, Zenon DEF Stepped
  <2>2. t3 = TopOver(t2, r3, max, rows)
    BY <1>3 DEF t2
  <2>. HIDE DEF h3
  <2>. QED  BY <1>5, <2>1, <2>2
<1>. HIDE DEF t3, h1, h2, h3
<1>. DEFINE upto(n) == IF n <= rows THEN n ELSE rows
<1>9. t1 = upto(h1) /\ t2 = upto(h1 + h2) /\ t3 = upto(h1 + h2 + h3)
  BY <1>2, <1>5, <1>6, <1>7, <1>8
<1>10. \A b \in 1 .. 3 : high(b) \in Nat
  <2>. HIDE DEF high
  <2>1. \A b \in 1 .. 3 : b = 1 \/ b = 2 \/ b = 3
    OBVIOUS
  <2>. QED  BY <1>4, <1>5, <2>1
<1>. HIDE DEF high
<1>11. /\ DOMAIN tops = 1 .. 3 /\ Len(tops) = 3
       /\ \A b \in 1 .. 3 : high(b) \in Nat
       /\ tops[1] = upto(high(1))
       /\ tops[2] = upto(high(1) + high(2))
       /\ tops[3] = upto(high(1) + high(2) + high(3))
  BY <1>3, <1>4, <1>9, <1>10 DEF t1, t2, t3
<1>. QED  BY <1>11 DEF tops, high

\* The band that owns a height that its column reaches has something in it.
LEMMA OwnerHasSome ==
  ASSUME NEW max, InWholes(max), NEW rows \in Nat, NEW r, IsColumn(r),
         NEW height \in Nat \ {0}, height <= Picturing!Tops(r, max, rows)[3]
  PROVE  LET o == Picturing!Owner(Picturing!Tops(r, max, rows), height)
         IN o \in 1 .. 3 /\ r[o] > 0 /\ IsFinite(r[o])
<1>. DEFINE tops == Picturing!Tops(r, max, rows)
            high(b) == Picturing!BandHeight(r[b], max, rows)
            upto(n) == IF n <= rows THEN n ELSE rows
            reach == {b \in DOMAIN tops : height <= tops[b]}
            o == Picturing!Min(reach)
<1>1. /\ DOMAIN tops = 1 .. 3 /\ Len(tops) = 3
      /\ \A b \in 1 .. 3 : high(b) \in Nat
      /\ tops[1] = upto(high(1))
      /\ tops[2] = upto(high(1) + high(2))
      /\ tops[3] = upto(high(1) + high(2) + high(3))
  BY ColumnIsItsBands
<1>2. height <= tops[3]
  OBVIOUS
<1>3. \A b \in 1 .. 3 : high(b) > 0 => r[b] > 0 /\ IsFinite(r[b])
  <2>1. ASSUME NEW v \in Nat \cup {-1}
        PROVE  Picturing!BandHeight(v, max, rows) > 0 => v > 0 /\ IsFinite(v)
    BY BandHeightIs
  <2>2. \A b \in 1 .. 3 : r[b] \in Nat \cup {-1}
    BY DEF IsColumn, Readings3
  <2>. QED  BY <2>1, <2>2
<1>. HIDE DEF tops, high
<1>4. Picturing!Owner(tops, height) = o
  <2>1. 3 \in reach
    BY <1>1, <1>2
  <2>. QED  BY <2>1 DEF Picturing!Owner
<1>5. o \in reach /\ \A b \in reach : o <= b
  <2>1. reach \subseteq 1 .. 3 /\ 3 \in reach
    BY <1>1, <1>2
  <2>. HIDE DEF reach
  <2>2. \E x \in reach : \A y \in reach : x <= y
    BY <2>1
  <2>. QED  BY <2>2 DEF Picturing!Min
<1>. HIDE DEF o
<1>6. o \in 1 .. 3 /\ height <= tops[o] /\ \A b \in 1 .. 3 : b < o => ~(height <= tops[b])
  BY <1>1, <1>5
<1>7. high(o) > 0
  <2>. DEFINE h1 == high(1)
              h2 == high(2)
              h3 == high(3)
              t1 == tops[1]
              t2 == tops[2]
              t3 == tops[3]
  <2>1. h1 \in Nat /\ h2 \in Nat /\ h3 \in Nat
    BY <1>1
  <2>2. t1 = upto(h1) /\ t2 = upto(h1 + h2) /\ t3 = upto(h1 + h2 + h3)
    BY <1>1
  <2>3. CASE o = 1
    <3>1. height <= t1
      BY <1>6, <2>3
    <3>. HIDE DEF h1, h2, h3, t1, t2, t3
    <3>2. h1 > 0
      BY <2>1, <2>2, <3>1
    <3>. QED  BY <2>3, <3>2 DEF h1
  <2>4. CASE o = 2
    <3>1. height <= t2 /\ ~(height <= t1)
      BY <1>6, <2>4
    <3>. HIDE DEF h1, h2, h3, t1, t2, t3
    <3>2. h2 > 0
      BY <2>1, <2>2, <3>1
    <3>. QED  BY <2>4, <3>2 DEF h2
  <2>5. CASE o = 3
    <3>1. height <= t3 /\ ~(height <= t2)
      BY <1>6, <2>5
    <3>. HIDE DEF h1, h2, h3, t1, t2, t3
    <3>2. h3 > 0
      BY <2>1, <2>2, <3>1
    <3>. QED  BY <2>5, <3>2 DEF h3
  <2>. QED  BY <1>6, <2>3, <2>4, <2>5
<1>8. o \in 1 .. 3 /\ r[o] > 0 /\ IsFinite(r[o])
  BY <1>3, <1>6, <1>7
<1>. QED  BY <1>4, <1>8 DEF tops

\* The last top is a number of steps.
LEMMA TopIsNumber ==
  ASSUME NEW max, InWholes(max), NEW rows \in Nat, NEW r, IsColumn(r)
  PROVE  Picturing!Tops(r, max, rows)[3] \in 0 .. rows
<1>. DEFINE top == Picturing!Tops(r, max, rows)[3]
            n == Picturing!BandHeight(r[1], max, rows) + Picturing!BandHeight(r[2], max, rows)
                   + Picturing!BandHeight(r[3], max, rows)
<1>1. n \in Nat /\ top = IF n <= rows THEN n ELSE rows
  BY ColumnIsItsBands
<1>. HIDE DEF n, top
<1>2. top \in 0 .. rows
  BY <1>1
<1>. QED  BY <1>2 DEF top

\* Three histories of as many readings each.
AreBands(bands) ==
  /\ bands = [b \in 1 .. 3 |-> bands[b]]
  /\ \A b \in 1 .. 3 : IsSequence(bands[b]) /\ Range(bands[b]) \subseteq Nat
                       /\ Len(bands[b]) = Len(bands[1])

\* Their readings in a column.
ColumnOf(bands, plot, c) == [b \in 1 .. 3 |-> InColumn(bands[b], Newest(plot), c)]

\* A column has one reading of each of them or none.
LEMMA ColumnOfIs ==
  ASSUME NEW bands, AreBands(bands), NEW plot \in Picturing!Plots, NEW c \in Columns(plot)
  PROVE  IsColumn(ColumnOf(bands, plot, c))
<1>. DEFINE last == Newest(plot)
            n == Len(bands[1])
            i == n - (last - c)
            r == ColumnOf(bands, plot, c)
<1>1. last \in Nat /\ c \in 1 .. last
  BY LastColumn
<1>. HIDE DEF last
<1>2. n \in Nat /\ \A b \in 1 .. 3 : DOMAIN bands[b] = 1 .. n /\ Len(bands[b]) = n
  BY DEF AreBands, IsSequence
<1>3. DOMAIN r = 1 .. 3 /\ \A b \in 1 .. 3 : r[b] = IF i >= 1 THEN bands[b][i] ELSE -1
  <2>. HIDE DEF n
  <2>. QED  BY <1>2 DEF ColumnOf, InColumn, last
<1>4. i >= 1 => i \in 1 .. n
  <2>. HIDE DEF n
  <2>. QED  BY <1>1, <1>2
<1>. HIDE DEF n, i, r
<1>5. \A b \in 1 .. 3 : i >= 1 => bands[b][i] \in Nat
  BY <1>2, <1>4 DEF AreBands, Range
<1>6. IsColumn(r)
  <2>1. CASE i >= 1
    <3>1. \A b \in 1 .. 3 : r[b] \in Nat
      BY <1>3, <1>5, <2>1
    <3>2. \A x \in Nat : x # -1
      OBVIOUS
    <3>. QED  BY <1>3, <3>1, <3>2 DEF IsColumn, Readings3
  <2>2. CASE ~(i >= 1)
    BY <1>3, <2>2 DEF IsColumn, Readings3
  <2>. QED  BY <2>1, <2>2
<1>. QED  BY <1>6 DEF r

\* Where a column is drawn solid, by the kind of plot.
LEMMA DrawnIsSolid ==
  ASSUME NEW plot \in Picturing!Plots, NEW heights,
         \A c \in Columns(plot) : heights[c] \in 0 .. SubRows(plot),
         NEW c \in Columns(plot)
  PROVE  LitSteps(Drawn(heights, plot), plot, c) = 1 .. heights[c]
<1>. DEFINE picture == Drawn(heights, plot)
            n == heights[c]
            rows == SubRows(plot)
<1>1. ASSUME NEW h \in 1 .. rows PROVE Lit(picture, plot, c, h) <=> h <= heights[c]
  <2>1. CASE plot = "block"
    <3>1. Columns(plot) = 1 .. InnerWidth /\ SubRows(plot) = InnerHeight * 8
      BY <2>1, SizeOfPlot
    <3>. QED  BY <2>1, <3>1, BlocksAreSolid
  <2>2. CASE plot \in {"braille", "octant"}
    <3>1. Columns(plot) = 1 .. InnerWidth * 2 /\ SubRows(plot) = InnerHeight * 4
      BY <2>2, SizeOfPlot
    <3>. QED  BY <2>2, <3>1, DotsAreSolid
  <2>. QED  BY <2>1, <2>2 DEF Picturing!Plots
<1>2. n \in 0 .. rows /\ rows \in Nat
  BY RowsOfPlot
<1>3. LitSteps(picture, plot, c) = {h \in 1 .. rows : h <= n}
  <2>. HIDE DEF picture, n
  <2>. QED  BY <1>1 DEF LitSteps, n
<1>. HIDE DEF picture, n, rows
<1>4. {h \in 1 .. rows : h <= n} = 1 .. n
  BY <1>2
<1>. QED  BY <1>3, <1>4 DEF picture, n

\* The eighths of a cell of a block plot: those of its column above its floor.
LEMMA EighthsAre ==
  ASSUME NEW rows \in Nat, NEW heights, NEW x, NEW y \in 0 .. rows - 1,
         heights[x + 1] \in 0 .. rows * 8
  PROVE  LET n == Picturing!BlockSymbol(heights, rows * 8, x, y)
             floor == rows * 8 - (y + 1) * 8
         IN n \in 0 .. 8 /\ (n > 0 => floor + n \in 1 .. heights[x + 1])
<1>. DEFINE t == heights[x + 1]
            floor == rows * 8 - (y + 1) * 8
            n == Picturing!BlockSymbol(heights, rows * 8, x, y)
            m == Picturing!Max({t - floor, 0})
<1>1. n = Picturing!Min({m, 8})
  BY DEF Picturing!BlockSymbol
<1>2. t \in Nat
  OBVIOUS
<1>. HIDE DEF t, n
<1>3. floor \in Nat
  OBVIOUS
<1>4. m = IF t - floor >= 0 THEN t - floor ELSE 0
  <2>. HIDE DEF floor
  <2>. QED  BY <1>2, <1>3 DEF Picturing!Max
<1>. HIDE DEF m, floor
<1>5. m \in Nat
  BY <1>2, <1>3, <1>4
<1>6. n = IF m <= 8 THEN m ELSE 8
  BY <1>1, <1>5 DEF Picturing!Min
<1>7. n \in 0 .. 8 /\ (n > 0 => floor + n \in 1 .. t)
  BY <1>2, <1>3, <1>4, <1>5, <1>6
<1>. QED  BY <1>7 DEF n, t, floor

\* The left one of the highest dots of a cell is one of them.
LEMMA HighestDot ==
  ASSUME NEW dots, dots \subseteq (0 .. 3) \X (0 .. 1), dots # {}
  PROVE  LET top == Picturing!Min({p[1] : p \in dots})
             left == Picturing!Min({p[2] : p \in {q \in dots : q[1] = top}})
         IN <<top, left>> \in dots /\ top \in 0 .. 3 /\ left \in 0 .. 1
<1>1. ASSUME NEW S, S \subseteq 0 .. 3, S # {} PROVE Picturing!Min(S) \in S
  <2>1. \E x \in S : \A y \in S : x <= y
    <3>1. 0 \in S \/ 1 \in S \/ 2 \in S \/ 3 \in S
      <4>1. \A x \in 0 .. 3 : x = 0 \/ x = 1 \/ x = 2 \/ x = 3
        OBVIOUS
      <4>. QED  BY <1>1, <4>1
    <3>. QED  BY <1>1, <3>1
  <2>. QED  BY <2>1 DEF Picturing!Min
<1>. DEFINE tops == {p[1] : p \in dots}
            top == Picturing!Min(tops)
            level == {q \in dots : q[1] = top}
            lefts == {p[2] : p \in level}
            left == Picturing!Min(lefts)
<1>2. top \in tops
  <2>1. tops \subseteq 0 .. 3 /\ tops # {}
    OBVIOUS
  <2>. HIDE DEF tops
  <2>. QED  BY <1>1, <2>1
<1>. HIDE DEF top
<1>3. left \in lefts
  <2>1. level # {}
    BY <1>2
  <2>2. lefts \subseteq 0 .. 3 /\ lefts # {}
    BY <2>1
  <2>. HIDE DEF lefts
  <2>. QED  BY <1>1, <2>2
<1>. HIDE DEF left
<1>4. PICK q \in dots : q[1] = top /\ q[2] = left
  BY <1>3
<1>5. q = <<top, left>> /\ top \in 0 .. 3 /\ left \in 0 .. 1
  BY <1>4
<1>6. <<top, left>> \in dots /\ top \in 0 .. 3 /\ left \in 0 .. 1
  BY <1>5
<1>. QED  BY <1>6 DEF top, left

\* The symbol of a cell of a stack, and the height whose owner colours it.
CellShows(tops, total, plot, x, y) ==
  LET cell == Picturing!StackedCell(tops, plot, SubRows(plot), x, y)
      eighths == Picturing!BlockSymbol(total, SubRows(plot), x, y)
      dots == Picturing!DotSymbol(total, SubRows(plot), x, y)
  IN IF plot = "block"
     THEN /\ cell.symbol = eighths
          /\ eighths \in Nat
          /\ eighths > 0 => \E c \in Columns(plot), h \in Nat :
               /\ h \in 1 .. total[c] /\ c - 1 = x
               /\ cell.owner = Picturing!Owner(tops[c], h)
     ELSE /\ cell.symbol = dots
          /\ dots # {} => \E c \in Columns(plot), h \in Nat :
               /\ h \in 1 .. total[c] /\ (c - 1) \div 2 = x
               /\ cell.owner = Picturing!Owner(tops[c], h)

\* A cell shows what its columns' tops say.
LEMMA CellOfStack ==
  ASSUME NEW plot \in Picturing!Plots, NEW tops, DOMAIN tops = Columns(plot),
         NEW total, total = [c \in Columns(plot) |-> tops[c][Len(tops[c])]],
         \A c \in Columns(plot) : total[c] \in 0 .. SubRows(plot),
         NEW x \in 0 .. InnerWidth - 1, NEW y \in 0 .. InnerHeight - 1
  PROVE  CellShows(tops, total, plot, x, y)
<1>. DEFINE cell == Picturing!StackedCell(tops, plot, SubRows(plot), x, y)
            eighths == Picturing!BlockSymbol(total, SubRows(plot), x, y)
            dots == Picturing!DotSymbol(total, SubRows(plot), x, y)
            top == Picturing!Min({p[1] : p \in dots})
            left == Picturing!Min({p[2] : p \in {q \in dots : q[1] = top}})
<1>1. total = [c \in DOMAIN tops |-> tops[c][Len(tops[c])]]
  OBVIOUS
<1>2. cell = IF plot = "block"
             THEN [symbol |-> eighths,
                   owner |-> Picturing!Owner(tops[x + 1], SubRows(plot) - (y + 1) * 8 + eighths)]
             ELSE [symbol |-> dots,
                   owner |-> Picturing!Owner(tops[2 * x + left + 1], SubRows(plot) - (y * 4 + top))]
  BY <1>1 DEF Picturing!StackedCell
<1>3. CASE plot = "block"
  <2>1. Columns(plot) = 1 .. InnerWidth /\ SubRows(plot) = InnerHeight * 8
    BY <1>3, SizeOfPlot
  <2>. DEFINE h == InnerHeight * 8 - (y + 1) * 8 + eighths
  <2>2. cell.symbol = eighths /\ cell.owner = Picturing!Owner(tops[x + 1], h)
    <3>. HIDE DEF cell, eighths, dots, top, left
    <3>. QED  BY <1>2, <1>3, <2>1
  <2>3. /\ x + 1 \in 1 .. InnerWidth /\ total[x + 1] \in 0 .. InnerHeight * 8
        /\ (x + 1) - 1 = x /\ x + 1 \in Columns(plot)
    BY <2>1, InnerSize
  <2>4. eighths = Picturing!BlockSymbol(total, InnerHeight * 8, x, y)
    BY <2>1
  <2>5. eighths \in 0 .. 8 /\ (eighths > 0 => h \in 1 .. total[x + 1])
    BY <2>3, <2>4, InnerSize, EighthsAre
  <2>6. h \in 1 .. total[x + 1] => h \in Nat
    <3>. HIDE DEF h
    <3>. QED  OBVIOUS
  <2>. HIDE DEF eighths, cell, h
  <2>7. /\ cell.symbol = eighths
        /\ eighths \in Nat
        /\ eighths > 0 => \E c \in Columns(plot), g \in Nat :
             /\ g \in 1 .. total[c] /\ c - 1 = x
             /\ cell.owner = Picturing!Owner(tops[c], g)
    BY <2>2, <2>3, <2>5, <2>6
  <2>. QED  BY <1>3, <2>7 DEF CellShows, cell, eighths
<1>4. CASE plot # "block"
  <2>1. Columns(plot) = 1 .. InnerWidth * 2 /\ SubRows(plot) = InnerHeight * 4
    BY <1>4, SizeOfPlot
  <2>. DEFINE c == 2 * x + left + 1
              h == InnerHeight * 4 - (y * 4 + top)
  <2>2. cell.symbol = dots /\ cell.owner = Picturing!Owner(tops[c], h)
    <3>. HIDE DEF cell, dots, top, left
    <3>. QED  BY <1>2, <1>4, <2>1
  <2>3. dots # {} => c \in Columns(plot) /\ h \in Nat /\ h \in 1 .. total[c] /\ (c - 1) \div 2 = x
    <3>. SUFFICES ASSUME dots # {}
                  PROVE  c \in Columns(plot) /\ h \in Nat /\ h \in 1 .. total[c] /\ (c - 1) \div 2 = x
      OBVIOUS
    <3>1. dots = {p \in (0 .. 3) \X (0 .. 1) : total[2 * x + p[2] + 1] >= InnerHeight * 4 - (y * 4 + p[1])}
      BY <2>1 DEF Picturing!DotSymbol
    <3>2. dots \subseteq (0 .. 3) \X (0 .. 1)
      BY <3>1
    <3>. HIDE DEF dots
    <3>3. <<top, left>> \in dots /\ top \in 0 .. 3 /\ left \in 0 .. 1
      BY <3>2, HighestDot
    <3>. HIDE DEF top, left
    <3>4. total[c] >= h
      BY <3>1, <3>3
    <3>5. c \in 1 .. InnerWidth * 2 /\ (c - 1) \div 2 = x /\ h \in Nat /\ h >= 1
      BY <3>3, InnerSize
    <3>. HIDE DEF c, h
    <3>6. total[c] \in 0 .. InnerHeight * 4
      BY <2>1, <3>5
    <3>7. InnerHeight * 4 \in Nat
      BY InnerSize
    <3>8. total[c] \in Int /\ h \in 1 .. total[c]
      BY <3>4, <3>5, <3>6, <3>7
    <3>. QED  BY <2>1, <3>5, <3>8
  <2>. HIDE DEF dots, cell, c, h
  <2>4. /\ cell.symbol = dots
        /\ dots # {} => \E d \in Columns(plot), g \in Nat :
             /\ g \in 1 .. total[d] /\ (d - 1) \div 2 = x
             /\ cell.owner = Picturing!Owner(tops[d], g)
    BY <2>2, <2>3
  <2>. QED  BY <1>4, <2>4 DEF CellShows, cell, dots
<1>. QED  BY <1>3, <1>4

\* A stacked picture shows each column as high as its last top, and its colours
\* are the owners of heights in the columns.
LEMMA StackedShows ==
  ASSUME NEW bands, AreBands(bands), NEW max, InWholes(max), NEW plot \in Picturing!Plots
  PROVE  LET picture == Picturing!StackedPicture(bands, max, plot, InnerWidth, InnerHeight)
             symbols == [p \in DOMAIN picture |-> picture[p].symbol]
             tops(c) == Picturing!Tops(ColumnOf(bands, plot, c), max, SubRows(plot))
         IN /\ \A c \in Columns(plot) : LitSteps(symbols, plot, c) = 1 .. tops(c)[3]
            /\ \A p \in DOMAIN picture : \E c \in Columns(plot), h \in Nat :
                 /\ h \in 1 .. tops(c)[3]
                 /\ (c - 1) \div Picturing!SamplesPerCell(plot) = p[1]
                 /\ picture[p].owner = Picturing!Owner(tops(c), h)
<1>. DEFINE picture == Picturing!StackedPicture(bands, max, plot, InnerWidth, InnerHeight)
            symbols == [p \in DOMAIN picture |-> picture[p].symbol]
            rows == SubRows(plot)
            columns == Picturing!Capacity(plot, InnerWidth)
            topsOf(c) == Picturing!Tops(ColumnOf(bands, plot, c), max, rows)
            aligned == [b \in DOMAIN bands |-> Picturing!Aligned(bands[b], columns)]
            tops == [c \in 1 .. columns |->
                       Picturing!Tops([b \in DOMAIN bands |-> aligned[b][c]], max, rows)]
            total == [c \in 1 .. columns |-> tops[c][Len(bands)]]
            eighths(q) == Picturing!BlockSymbol(total, rows, q[1], q[2])
            dots(q) == Picturing!DotSymbol(total, rows, q[1], q[2])
            area == Picturing!Area(InnerWidth, InnerHeight)
            drawn == {q \in area : IF plot = "block" THEN eighths(q) > 0 ELSE dots(q) # {}}
            cell(p) == Picturing!StackedCell(tops, plot, rows, p[1], p[2])
<1>1. DOMAIN bands = 1 .. 3 /\ Len(bands) = 3
  <2>1. DOMAIN bands = 1 .. 3
    BY DEF AreBands
  <2>2. bands = [b \in 1 .. 3 |-> bands[b]] /\ 3 \in Nat
    BY DEF AreBands
  <2>. QED  BY <2>1, <2>2, NumberedSequence
<1>2. picture = [p \in drawn |-> cell(p)]
  <2>1. Picturing!Drawable(InnerWidth, InnerHeight, max) /\ bands # <<>>
    <3>1. Picturing!Drawable(InnerWidth, InnerHeight, max)
      BY InnerSize DEF Picturing!Drawable, InWholes
    <3>2. bands # <<>>
      <4>1. Len(<<>>) = 0
        OBVIOUS
      <4>. QED  BY <1>1, <4>1
    <3>. QED  BY <3>1, <3>2
  <2>. QED  BY <2>1 DEF Picturing!StackedPicture, SubRows
<1>3. Columns(plot) = 1 .. columns /\ columns = Newest(plot) /\ columns \in Nat
  BY LastColumn
<1>. HIDE DEF columns
<1>4. \A c \in Columns(plot) : tops[c] = topsOf(c)
  <2>1. ASSUME NEW b \in 1 .. 3
        PROVE  /\ DOMAIN Picturing!Aligned(bands[b], columns) = 1 .. columns
               /\ \A c \in 1 .. columns :
                    Picturing!Aligned(bands[b], columns)[c] = InColumn(bands[b], columns, c)
    <3>. DEFINE values == bands[b]
    <3>1. IsSequence(values)
      BY DEF AreBands
    <3>. HIDE DEF values
    <3>2. /\ DOMAIN Picturing!Aligned(values, columns) = 1 .. columns
          /\ \A c \in 1 .. columns :
               Picturing!Aligned(values, columns)[c] = InColumn(values, columns, c)
      BY <1>3, <3>1, AlignedAt
    <3>. QED  BY <3>2 DEF values
  <2>2. ASSUME NEW c \in Columns(plot)
        PROVE  [b \in DOMAIN bands |-> aligned[b][c]] = ColumnOf(bands, plot, c)
    BY <1>1, <1>3, <2>1 DEF ColumnOf
  <2>. HIDE DEF aligned
  <2>. QED  BY <1>3, <2>2
<1>. HIDE DEF tops, rows
<1>5. \A c \in Columns(plot) : Len(tops[c]) = 3 /\ tops[c][3] \in 0 .. rows
  <2>. SUFFICES ASSUME NEW c \in Columns(plot) PROVE Len(tops[c]) = 3 /\ tops[c][3] \in 0 .. rows
    OBVIOUS
  <2>. DEFINE r == ColumnOf(bands, plot, c)
  <2>1. IsColumn(r) /\ rows \in Nat
    BY ColumnOfIs, RowsOfPlot DEF rows
  <2>. HIDE DEF r
  <2>2. Len(Picturing!Tops(r, max, rows)) = 3
    BY <2>1, ColumnIsItsBands
  <2>3. Picturing!Tops(r, max, rows)[3] \in 0 .. rows
    BY <2>1, TopIsNumber
  <2>. QED  BY <1>4, <2>2, <2>3 DEF r
<1>6. total = [c \in Columns(plot) |-> tops[c][Len(tops[c])]]
  BY <1>1, <1>3, <1>5
<1>7. \A c \in Columns(plot) : total[c] \in 0 .. rows
  BY <1>5, <1>6
<1>8. area = (0 .. InnerWidth - 1) \X (0 .. InnerHeight - 1)
  BY DEF Picturing!Area
<1>9. DOMAIN tops = Columns(plot)
  BY <1>3 DEF tops
<1>. HIDE DEF total
<1>10. ASSUME NEW p \in area
       PROVE  IF plot = "block"
              THEN /\ cell(p).symbol = eighths(p) /\ eighths(p) \in Nat
                   /\ eighths(p) > 0 => \E c \in Columns(plot), h \in Nat :
                        /\ h \in 1 .. total[c] /\ c - 1 = p[1]
                        /\ cell(p).owner = Picturing!Owner(tops[c], h)
              ELSE /\ cell(p).symbol = dots(p)
                   /\ dots(p) # {} => \E c \in Columns(plot), h \in Nat :
                        /\ h \in 1 .. total[c] /\ (c - 1) \div 2 = p[1]
                        /\ cell(p).owner = Picturing!Owner(tops[c], h)
  <2>. DEFINE x == p[1]
              y == p[2]
  <2>1. x \in 0 .. InnerWidth - 1 /\ y \in 0 .. InnerHeight - 1
    BY <1>8
  <2>. HIDE DEF x, y
  <2>2. CellShows(tops, total, plot, x, y)
    BY <1>6, <1>7, <1>9, <2>1, CellOfStack DEF rows
  <2>. QED  BY <2>2 DEF CellShows, x, y, rows
<1>. HIDE DEF cell, eighths, dots, area
<1>11. symbols = Drawn(total, plot)
  <2>1. DOMAIN picture = drawn /\ \A p \in drawn : picture[p] = cell(p)
    BY <1>2
  <2>2. symbols = [p \in drawn |-> cell(p).symbol]
    <3>. HIDE DEF picture, drawn
    <3>. QED  BY <2>1
  <2>. DEFINE symbol(p) == IF plot = "block" THEN eighths(p) ELSE dots(p)
  <2>3. Drawn(total, plot)
          = [p \in {q \in area : ~Picturing!IsBlank(plot, symbol(q))} |-> symbol(p)]
    BY DEF Drawn, eighths, dots, area, rows, SubRows
  <2>4. \A p \in area : cell(p).symbol = symbol(p)
    BY <1>10
  <2>5. drawn = {q \in area : ~Picturing!IsBlank(plot, symbol(q))}
    <3>1. \A q \in area : (IF plot = "block" THEN eighths(q) > 0 ELSE dots(q) # {})
                            <=> ~Picturing!IsBlank(plot, symbol(q))
      <4>1. CASE plot = "block"
        BY <1>10, <4>1 DEF Picturing!IsBlank
      <4>2. CASE plot # "block"
        BY <4>2 DEF Picturing!IsBlank
      <4>. QED  BY <4>1, <4>2
    <3>. QED  BY <3>1
  <2>6. drawn \subseteq area
    OBVIOUS
  <2>. HIDE DEF drawn, symbol, symbols
  <2>. QED  BY <2>2, <2>3, <2>4, <2>5, <2>6
<1>12. ASSUME NEW c \in Columns(plot) PROVE LitSteps(symbols, plot, c) = 1 .. topsOf(c)[3]
  <2>1. LitSteps(Drawn(total, plot), plot, c) = 1 .. total[c]
    BY <1>7, DrawnIsSolid DEF rows
  <2>2. total[c] = topsOf(c)[3]
    BY <1>4, <1>5, <1>6
  <2>. QED  BY <1>11, <2>1, <2>2
<1>13. ASSUME NEW p \in DOMAIN picture
       PROVE  \E c \in Columns(plot), h \in Nat :
                /\ h \in 1 .. topsOf(c)[3]
                /\ (c - 1) \div Picturing!SamplesPerCell(plot) = p[1]
                /\ picture[p].owner = Picturing!Owner(topsOf(c), h)
  <2>1. p \in drawn /\ picture[p] = cell(p)
    BY <1>2
  <2>2. p \in area /\ (IF plot = "block" THEN eighths(p) > 0 ELSE dots(p) # {})
    BY <2>1
  <2>. HIDE DEF picture, drawn
  <2>3. PICK c \in Columns(plot), h \in Nat :
          /\ h \in 1 .. total[c]
          /\ (IF plot = "block" THEN c - 1 ELSE (c - 1) \div 2) = p[1]
          /\ cell(p).owner = Picturing!Owner(tops[c], h)
    <3>1. CASE plot = "block"
      BY <1>10, <2>2, <3>1
    <3>2. CASE plot # "block"
      BY <1>10, <2>2, <3>2
    <3>. QED  BY <3>1, <3>2
  <2>4. (c - 1) \div Picturing!SamplesPerCell(plot) = p[1]
    <3>1. c - 1 \in Int /\ (c - 1) \div 1 = c - 1
      BY <1>3
    <3>. QED  BY <2>3, <3>1 DEF Picturing!SamplesPerCell
  <2>5. total[c] = topsOf(c)[3] /\ tops[c] = topsOf(c)
    BY <1>4, <1>5, <1>6
  <2>. HIDE DEF topsOf
  <2>. QED  BY <2>1, <2>3, <2>4, <2>5
<1>. HIDE DEF picture
<1>14. /\ \A c \in Columns(plot) : LitSteps(symbols, plot, c) = 1 .. topsOf(c)[3]
       /\ \A p \in DOMAIN picture : \E c \in Columns(plot), h \in Nat :
            /\ h \in 1 .. topsOf(c)[3]
            /\ (c - 1) \div Picturing!SamplesPerCell(plot) = p[1]
            /\ picture[p].owner = Picturing!Owner(topsOf(c), h)
  BY <1>12, <1>13
<1>. QED  BY <1>14 DEF picture, rows

\* A band is as high in a column as the reading it shows makes it.
ShownIn(v) == IF v >= 0 /\ IsFinite(v) THEN v ELSE 0
StepsOf(v, scale, rows) ==
  IF v = 0 THEN 0 ELSE Max({1, (2 * v * rows + scale) \div (2 * scale)})

\* A band stands for as many steps.
LEMMA BandIsSteps ==
  ASSUME NEW max, InWholes(max), NEW rows \in Nat, NEW v \in Nat \cup {-1}
  PROVE  /\ Picturing!BandHeight(v, max, rows) = StepsOf(ShownIn(v), max[1], rows)
         /\ ShownIn(v) > 0 <=> v > 0 /\ IsFinite(v)
<1>. DEFINE n == Picturing!BandHeight(v, max, rows)
<1>1. /\ n \in Nat
      /\ n > 0 <=> (v > 0 /\ IsFinite(v))
      /\ (v > 0 /\ IsFinite(v)) => n = Max({1, (2 * v * rows + max[1]) \div (2 * max[1])})
  BY BandHeightIs
<1>. HIDE DEF n
<1>2. ShownIn(v) = IF v > 0 /\ IsFinite(v) THEN v ELSE 0
  BY DEF ShownIn
<1>3. CASE v > 0 /\ IsFinite(v)
  <2>1. ShownIn(v) = v /\ v # 0
    BY <1>2, <1>3
  <2>. QED  BY <1>1, <1>3, <2>1 DEF StepsOf, n
<1>4. CASE ~(v > 0 /\ IsFinite(v))
  <2>1. ShownIn(v) = 0 /\ n = 0
    BY <1>1, <1>2, <1>4
  <2>. QED  BY <1>4, <2>1 DEF StepsOf, n
<1>. QED  BY <1>3, <1>4

\* The collection counts are histories of numbers.
LEMMA GcSeriesAre ==
  ASSUME IInv, ReadingsAreNumbers
  PROVE  LET series == GcSeries(app)
         IN DOMAIN series = 1 .. 3 /\ \A b \in 1 .. 3 : OfNumbers(series[b])
<1>. DEFINE keyOf(b) == <<SystemRuntime, GcCountCounters[b]>>
            series == GcSeries(app)
<1>1. DOMAIN series = 1 .. 3 /\ \A b \in 1 .. 3 : series[b] = Picturing!Values(History(app, keyOf(b)))
  BY DEF GcSeries, GcCountCounters
<1>2. ASSUME NEW key PROVE OfNumbers(Picturing!Values(History(app, key)))
  <2>. DEFINE h == History(app, key)
              values == Picturing!Values(h)
  <2>1. values = [i \in DOMAIN h |-> h[i].value]
    BY DEF Picturing!Values
  <2>2. CASE key \in DOMAIN app.series
    <3>. DEFINE log == kept[key]
                n == Len(log)
                m == Fitting(n, HistoryCapacity)
    <3>1. key \in DOMAIN kept
      BY <2>2 DEF IInv, SeriesAreLogged
    <3>2. IsSequence(log) /\ h = Shown(Picturing!Recent(log, HistoryCapacity))
      BY <3>1, HistoryOfLog DEF IsLogged
    <3>. HIDE DEF log, h
    <3>3. h = [i \in 1 .. m |-> [at |-> log[n - m + i].at, value |-> log[n - m + i].value]]
      BY <3>2, ShownRecent
    <3>4. n \in Nat /\ DOMAIN log = 1 .. n
      BY <3>2 DEF IsSequence
    <3>. HIDE DEF n
    <3>5. m \in Nat /\ m <= n
      BY <3>4, HistoryAssumption DEF Fitting
    <3>. HIDE DEF m
    <3>6. ASSUME NEW i \in 1 .. m PROVE h[i].value \in Nat
      <4>1. n - m + i \in 1 .. n
        BY <3>4, <3>5
      <4>2. log[n - m + i].value \in Nat
        BY <3>1, <3>4, <4>1 DEF ReadingsAreNumbers, log
      <4>. QED  BY <3>3, <4>2
    <3>7. DOMAIN h = 1 .. m
      BY <3>3
    <3>. HIDE DEF values
    <3>8. values = [i \in 1 .. m |-> values[i]] /\ \A i \in 1 .. m : values[i] \in Nat
      BY <2>1, <3>6, <3>7
    <3>9. IsSequence(values) /\ DOMAIN values = 1 .. m
      BY <3>5, <3>8, NumberedSequence
    <3>. QED  BY <3>8, <3>9 DEF OfNumbers, Range, values, h
  <2>3. CASE key \notin DOMAIN app.series
    <3>1. h = <<>>
      BY <2>3 DEF History, SeriesOf, NoSeries
    <3>2. DOMAIN h = {}
      BY <3>1
    <3>. HIDE DEF h, values
    <3>3. values = <<>>
      BY <2>1, <3>1
    <3>. QED  BY <3>3, EmptySequence DEF OfNumbers, values, h
  <2>. QED  BY <2>2, <2>3
<1>3. \A b \in 1 .. 3 : OfNumbers(series[b])
  <2>. HIDE DEF series, keyOf
  <2>. QED  BY <1>1, <1>2
<1>. QED  BY <1>1, <1>3

\* The scale of the collection counts is a number of steps, at least.
LEMMA GcScaleIs ==
  ASSUME NEW series, DOMAIN series = 1 .. 3, \A b \in 1 .. 3 : OfNumbers(series[b])
  PROVE  /\ Shortest(series) \in Nat
         /\ \A b \in 1 .. 3 : Shortest(series) <= Len(series[b])
         /\ GcScale(series) \in Nat \ {0}
<1>. DEFINE n == Shortest(series)
            column(i) == [b \in 1 .. 3 |-> series[b][i]]
            total(i) == FoldLeft(+, 0, column(i))
            sums == {total(i) : i \in 1 .. n}
            all == {GcChartFloor} \cup sums
<1>1. \A b \in 1 .. 3 : Len(series[b]) \in Nat /\ DOMAIN series[b] = 1 .. Len(series[b])
                        /\ Range(series[b]) \subseteq Nat
  BY DEF OfNumbers, IsSequence
<1>2. n \in Nat /\ \A b \in 1 .. 3 : n <= Len(series[b])
  <2>. DEFINE lengths == {Len(series[b]) : b \in 1 .. 3}
              l1 == Len(series[1])
              l2 == Len(series[2])
              l3 == Len(series[3])
  <2>1. n = Min(lengths)
    BY DEF Shortest
  <2>2. lengths = {l1, l2, l3} /\ l1 \in Nat /\ l2 \in Nat /\ l3 \in Nat
    <3>1. \A b \in 1 .. 3 : b = 1 \/ b = 2 \/ b = 3
      OBVIOUS
    <3>2. 1 \in 1 .. 3 /\ 2 \in 1 .. 3 /\ 3 \in 1 .. 3
      OBVIOUS
    <3>3. lengths = {l1, l2, l3}
      <4>1. \A x \in lengths : x \in {l1, l2, l3}
        BY <3>1
      <4>2. l1 \in lengths /\ l2 \in lengths /\ l3 \in lengths
        BY <3>2
      <4>. HIDE DEF lengths, l1, l2, l3
      <4>. QED  BY <4>1, <4>2
    <3>. QED  BY <1>1, <3>2, <3>3
  <2>. HIDE DEF n, lengths, l1, l2, l3
  <2>3. \E x \in lengths : \A y \in lengths : x <= y
    BY <2>2
  <2>4. n \in lengths /\ \A y \in lengths : n <= y
    BY <2>1, <2>3 DEF Min
  <2>5. n \in Nat
    BY <2>2, <2>4
  <2>6. \A b \in 1 .. 3 : Len(series[b]) \in lengths
    BY DEF lengths
  <2>. QED  BY <2>4, <2>5, <2>6
<1>. HIDE DEF n
<1>3. ASSUME NEW i \in 1 .. n PROVE total(i) \in Nat
  <2>. DEFINE s == column(i)
  <2>1. \A b \in 1 .. 3 : series[b][i] \in Nat
    <3>. SUFFICES ASSUME NEW b \in 1 .. 3 PROVE series[b][i] \in Nat
      OBVIOUS
    <3>1. i \in 1 .. Len(series[b])
      BY <1>1, <1>2
    <3>. QED  BY <1>1, <3>1 DEF Range
  <2>2. IntsOf(s, 3) /\ s[1] \in Nat /\ s[2] \in Nat /\ s[3] \in Nat
    BY <2>1 DEF IntsOf
  <2>. HIDE DEF s
  <2>3. FoldLeft(+, 0, s) = s[1] + s[2] + s[3]
    BY <2>2, AddedThree
  <2>. DEFINE t == FoldLeft(+, 0, s)
  <2>. HIDE DEF t
  <2>4. t = s[1] + s[2] + s[3]
    BY <2>3 DEF t
  <2>5. t \in Nat
    BY <2>2, <2>4
  <2>. QED  BY <2>5 DEF t, s
<1>4. GcScale(series) = Max(all)
  BY DEF GcScale, n
<1>. HIDE DEF total
<1>5. IsFiniteSet(all)
  <2>. DEFINE f == [i \in 1 .. n |-> total(i)]
  <2>1. IsFiniteSet(1 .. n)
    <3>1. n \in Int /\ 1 \in Int
      BY <1>2
    <3>. QED  BY <3>1, FS_Interval
  <2>2. f \in Surjection(1 .. n, sums)
    BY DEF Surjection
  <2>3. IsFiniteSet(sums)
    <3>. HIDE DEF f, sums
    <3>. QED  BY <2>1, <2>2, FS_Surjection
  <2>4. all = sums \cup {GcChartFloor}
    OBVIOUS
  <2>. HIDE DEF sums, all
  <2>5. IsFiniteSet(sums \cup {GcChartFloor})
    BY <2>3, FS_AddElement
  <2>. QED  BY <2>4, <2>5
<1>6. all \subseteq Nat /\ 4 \in all
  BY <1>3 DEF GcChartFloor
<1>. HIDE DEF all
<1>7. all \subseteq Int /\ all # {}
  BY <1>6
<1>8. Max(all) \in all /\ \A x \in all : x <= Max(all)
  BY <1>5, <1>7, MaxOfFinite
<1>. DEFINE top == Max(all)
<1>. HIDE DEF top
<1>9. top \in Nat /\ 4 <= top
  BY <1>6, <1>8 DEF top
<1>10. GcScale(series) \in Nat \ {0}
  BY <1>4, <1>9 DEF top
<1>. QED  BY <1>2, <1>10 DEF n

\* The bands are as long as each other.
LEMMA GcBandsAre ==
  ASSUME NEW series, DOMAIN series = 1 .. 3, \A b \in 1 .. 3 : OfNumbers(series[b])
  PROVE  AreBands(GcBands(series)) /\ Len(GcBands(series)[1]) = Shortest(series)
<1>. DEFINE n == Shortest(series)
            bands == GcBands(series)
<1>1. n \in Nat /\ \A b \in 1 .. 3 : n <= Len(series[b])
  BY GcScaleIs
<1>2. bands = [b \in 1 .. 3 |-> Picturing!Recent(series[b], n)]
  BY DEF GcBands
<1>. HIDE DEF n
<1>3. ASSUME NEW s, OfNumbers(s), n <= Len(s)
      PROVE  LET r == Picturing!Recent(s, n)
             IN IsSequence(r) /\ Len(r) = n /\ Range(r) \subseteq Nat
  <2>. DEFINE r == Picturing!Recent(s, n)
              l == Len(s)
              m == Fitting(l, n)
  <2>1. IsSequence(s) /\ Range(s) \subseteq Nat /\ l \in Nat /\ DOMAIN s = 1 .. l
    BY <1>3 DEF OfNumbers, IsSequence
  <2>2. r = [i \in 1 .. m |-> s[l - m + i]] /\ Len(r) = m
    BY <1>1, <2>1, RecentOf
  <2>3. n <= l
    BY <1>3
  <2>. HIDE DEF r, l
  <2>4. m = n
    BY <1>1, <2>1, <2>3 DEF Fitting
  <2>. HIDE DEF m
  <2>5. r = [i \in 1 .. n |-> r[i]] /\ DOMAIN r = 1 .. n /\ \A i \in 1 .. n : r[i] = s[l - n + i]
    BY <2>2, <2>4
  <2>6. \A i \in 1 .. n : r[i] \in Nat
    <3>1. \A i \in 1 .. n : l - n + i \in 1 .. l
      BY <1>1, <2>1, <2>3
    <3>. QED  BY <2>1, <2>5, <3>1 DEF Range
  <2>7. IsSequence(r) /\ Len(r) = n
    BY <1>1, <2>5, NumberedSequence
  <2>8. Range(r) \subseteq Nat
    BY <2>5, <2>6 DEF Range
  <2>. QED  BY <2>7, <2>8 DEF r
<1>. HIDE DEF bands
<1>4. \A b \in 1 .. 3 : IsSequence(bands[b]) /\ Len(bands[b]) = n /\ Range(bands[b]) \subseteq Nat
  BY <1>1, <1>2, <1>3
<1>5. bands = [b \in 1 .. 3 |-> bands[b]]
  BY <1>2
<1>6. AreBands(bands) /\ Len(bands[1]) = n
  BY <1>4, <1>5 DEF AreBands
<1>. QED  BY <1>6 DEF bands, n

\* What a frame shows of the collections was drawn of the App's.
LEMMA GcIsDrawn ==
  ASSUME IInv, NEW plot \in Picturing!Plots
  PROVE  frame[plot].gc = GcChart(app, plot, Width, Height)
<1>1. PICK b : /\ b.series = app.series /\ b.providers = app.providers
               /\ frame = [q \in Picturing!Plots |-> Frame(b, q, Width, Height)]
  BY DEF IInv, IsDrawnOf
<1>2. frame[plot].gc = GcChart(b, plot, Width, Height)
  BY <1>1 DEF Frame
<1>3. GcSeries(b) = GcSeries(app)
  BY <1>1 DEF GcSeries, History, SeriesOf
<1>. QED  BY <1>2, <1>3 DEF GcChart

\* The height of a column of the collection counts, and whose its colours are.
StackShows(picture, bands, scale, plot) ==
  LET symbols == [p \in DOMAIN picture |-> picture[p].symbol]
      shown(b, c) == ShownIn(ColumnOf(bands, plot, c)[b])
      steps(b, c) == StepsOf(shown(b, c), scale, SubRows(plot))
  IN /\ \A c \in Columns(plot) :
          LitSteps(symbols, plot, c)
            = 1 .. Min({steps(1, c) + steps(2, c) + steps(3, c), SubRows(plot)})
     /\ \A p \in DOMAIN picture :
          \E c \in Columns(plot) :
            /\ (c - 1) \div Picturing!SamplesPerCell(plot) = p[1]
            /\ picture[p].owner \in 1 .. 3 /\ shown(picture[p].owner, c) > 0

\* A stack of bands shows them.
LEMMA StackedIsBands ==
  ASSUME NEW bands, AreBands(bands), NEW scale \in Nat \ {0}, NEW plot \in Picturing!Plots
  PROVE  StackShows(Picturing!StackedPicture(bands, <<scale, 1>>, plot, InnerWidth, InnerHeight),
                    bands, scale, plot)
<1>. DEFINE max == <<scale, 1>>
            picture == Picturing!StackedPicture(bands, max, plot, InnerWidth, InnerHeight)
            symbols == [p \in DOMAIN picture |-> picture[p].symbol]
            rows == SubRows(plot)
            column(c) == ColumnOf(bands, plot, c)
            tops(c) == Picturing!Tops(column(c), max, rows)
            shown(b, c) == ShownIn(column(c)[b])
            steps(b, c) == StepsOf(shown(b, c), scale, rows)
<1>1. InWholes(max) /\ max[1] = scale
  BY DEF InWholes
<1>2. rows \in Nat
  BY RowsOfPlot
<1>. HIDE DEF max
<1>3. /\ \A c \in Columns(plot) : LitSteps(symbols, plot, c) = 1 .. tops(c)[3]
      /\ \A p \in DOMAIN picture : \E c \in Columns(plot), h \in Nat :
           /\ h \in 1 .. tops(c)[3]
           /\ (c - 1) \div Picturing!SamplesPerCell(plot) = p[1]
           /\ picture[p].owner = Picturing!Owner(tops(c), h)
  BY <1>1, StackedShows
<1>. HIDE DEF picture, rows, column
<1>4. ASSUME NEW c \in Columns(plot) PROVE IsColumn(column(c))
  BY ColumnOfIs DEF column
<1>5. ASSUME NEW c \in Columns(plot)
      PROVE  tops(c)[3] = Min({steps(1, c) + steps(2, c) + steps(3, c), rows})
  <2>. DEFINE r == column(c)
              high(b) == Picturing!BandHeight(r[b], max, rows)
              n == high(1) + high(2) + high(3)
  <2>1. IsColumn(r)
    BY <1>4
  <2>. HIDE DEF r
  <2>2. /\ \A b \in 1 .. 3 : high(b) \in Nat
        /\ Picturing!Tops(r, max, rows)[3] = IF n <= rows THEN n ELSE rows
    BY <1>1, <1>2, <2>1, ColumnIsItsBands
  <2>3. \A b \in 1 .. 3 : high(b) = StepsOf(ShownIn(r[b]), scale, rows)
    <3>1. \A b \in 1 .. 3 : r[b] \in Nat \cup {-1}
      BY <2>1 DEF IsColumn, Readings3
    <3>2. ASSUME NEW v \in Nat \cup {-1}
          PROVE  Picturing!BandHeight(v, max, rows) = StepsOf(ShownIn(v), scale, rows)
      BY <1>1, <1>2, BandIsSteps
    <3>. QED  BY <3>1, <3>2
  <2>4. n = steps(1, c) + steps(2, c) + steps(3, c)
    <3>1. 1 \in 1 .. 3 /\ 2 \in 1 .. 3 /\ 3 \in 1 .. 3
      OBVIOUS
    <3>2. high(1) = steps(1, c) /\ high(2) = steps(2, c) /\ high(3) = steps(3, c)
      BY <2>3, <3>1 DEF r
    <3>. HIDE DEF high, steps
    <3>. QED  BY <3>2
  <2>5. n \in Nat
    <3>1. high(1) \in Nat /\ high(2) \in Nat /\ high(3) \in Nat
      BY <2>2
    <3>. HIDE DEF high
    <3>. QED  BY <3>1
  <2>6. tops(c)[3] = IF n <= rows THEN n ELSE rows
    BY <2>2 DEF r
  <2>. HIDE DEF n, steps, tops
  <2>7. Min({n, rows}) = IF n <= rows THEN n ELSE rows
    BY <1>2, <2>5, MinOfTwo
  <2>. QED  BY <2>4, <2>6, <2>7
<1>6. ASSUME NEW p \in DOMAIN picture
      PROVE  \E c \in Columns(plot) :
               /\ (c - 1) \div Picturing!SamplesPerCell(plot) = p[1]
               /\ picture[p].owner \in 1 .. 3 /\ shown(picture[p].owner, c) > 0
  <2>1. PICK c \in Columns(plot), h \in Nat :
          /\ h \in 1 .. tops(c)[3]
          /\ (c - 1) \div Picturing!SamplesPerCell(plot) = p[1]
          /\ picture[p].owner = Picturing!Owner(tops(c), h)
    BY <1>3
  <2>. DEFINE r == column(c)
              o == Picturing!Owner(Picturing!Tops(r, max, rows), h)
  <2>2. IsColumn(r) /\ tops(c) = Picturing!Tops(r, max, rows)
    BY <1>4
  <2>. DEFINE top == tops(c)[3]
  <2>3. top \in 0 .. rows
    <3>. HIDE DEF r
    <3>1. Picturing!Tops(r, max, rows)[3] \in 0 .. rows
      BY <1>1, <1>2, <2>2, TopIsNumber
    <3>. QED  BY <2>2, <3>1
  <2>. HIDE DEF r
  <2>4. h \in Nat \ {0} /\ h <= Picturing!Tops(r, max, rows)[3]
    <3>1. top = Picturing!Tops(r, max, rows)[3]
      BY <2>2
    <3>2. h \in 1 .. top
      BY <2>1
    <3>. HIDE DEF top
    <3>. QED  BY <2>3, <3>1, <3>2
  <2>5. o \in 1 .. 3 /\ r[o] > 0 /\ IsFinite(r[o])
    BY <1>1, <1>2, <2>2, <2>4, OwnerHasSome
  <2>. HIDE DEF o, tops
  <2>6. r[o] \in Nat \cup {-1}
    BY <2>2, <2>5 DEF IsColumn, Readings3
  <2>. DEFINE v == r[o]
  <2>. HIDE DEF v
  <2>7. v \in Nat \cup {-1} /\ v > 0 /\ IsFinite(v)
    BY <2>5, <2>6 DEF v
  <2>8. ShownIn(v) > 0
    BY <1>1, <1>2, <2>7, BandIsSteps
  <2>9. picture[p].owner = o /\ shown(o, c) = ShownIn(v)
    BY <2>1, <2>2 DEF o, r, v
  <2>. HIDE DEF shown
  <2>. QED  BY <2>1, <2>5, <2>8, <2>9
<1>7. /\ \A c \in Columns(plot) :
           LitSteps(symbols, plot, c) = 1 .. Min({steps(1, c) + steps(2, c) + steps(3, c), rows})
      /\ \A p \in DOMAIN picture :
           \E c \in Columns(plot) :
             /\ (c - 1) \div Picturing!SamplesPerCell(plot) = p[1]
             /\ picture[p].owner \in 1 .. 3 /\ shown(picture[p].owner, c) > 0
  <2>. HIDE DEF tops, steps, shown, symbols
  <2>. QED  BY <1>3, <1>5, <1>6
<1>8. StackShows(picture, bands, scale, plot)
  BY <1>7 DEF StackShows, rows, column
<1>. QED  BY <1>8 DEF picture, max

\* Nothing is shown of nothing.
LEMMA NothingStacked ==
  ASSUME NEW bands, AreBands(bands), Len(bands[1]) = 0, NEW scale, NEW plot \in Picturing!Plots
  PROVE  StackShows(<<>>, bands, scale, plot)
<1>. DEFINE last == Newest(plot)
            rows == SubRows(plot)
<1>1. last \in Nat /\ Columns(plot) = 1 .. last
  BY LastColumn
<1>2. rows \in Nat
  BY RowsOfPlot
<1>3. ASSUME NEW c \in Columns(plot), NEW b \in 1 .. 3
      PROVE  ShownIn(ColumnOf(bands, plot, c)[b]) = 0
  <2>1. Len(bands[b]) = 0
    BY DEF AreBands
  <2>2. ColumnOf(bands, plot, c)[b] = InColumn(bands[b], last, c)
    BY DEF ColumnOf
  <2>. HIDE DEF last
  <2>3. InColumn(bands[b], last, c) = -1
    BY <1>1, <2>1 DEF InColumn
  <2>. QED  BY <2>2, <2>3 DEF ShownIn
<1>4. StepsOf(0, scale, rows) = 0
  BY DEF StepsOf
<1>. HIDE DEF rows
<1>5. Min({0 + 0 + 0, rows}) = 0
  BY <1>2, MinOfTwo
<1>. DEFINE symbols == [p \in DOMAIN <<>> |-> <<>>[p].symbol]
<1>6. DOMAIN <<>> = {} /\ DOMAIN symbols = {}
  OBVIOUS
<1>. HIDE DEF symbols
<1>7. ASSUME NEW c \in Columns(plot) PROVE LitSteps(symbols, plot, c) = 1 .. 0
  BY <1>6 DEF LitSteps, Lit
<1>. DEFINE shown(b, c) == ShownIn(ColumnOf(bands, plot, c)[b])
            steps(b, c) == StepsOf(shown(b, c), scale, rows)
<1>8. ASSUME NEW c \in Columns(plot)
      PROVE  LitSteps(symbols, plot, c) = 1 .. Min({steps(1, c) + steps(2, c) + steps(3, c), rows})
  <2>1. steps(1, c) = 0 /\ steps(2, c) = 0 /\ steps(3, c) = 0
    BY <1>3, <1>4
  <2>. HIDE DEF steps
  <2>. QED  BY <1>5, <1>7, <2>1
<1>. QED  BY <1>6, <1>8 DEF StackShows, symbols, rows

\* What a stack shows, in the words of the property.
LEMMA StackShownIs ==
  ASSUME AreBands(GcBandsDrawn),
         \A plot \in Picturing!Plots :
           StackShows(frame[plot].gc, GcBandsDrawn, GcScale(GcSeries(app)), plot)
  PROVE  StackIsItsBands
<1>. SUFFICES ASSUME NEW plot \in Picturing!Plots
     PROVE  LET bands == GcBandsDrawn
                scale == GcScale(GcSeries(app))
                picture == frame[plot].gc
                symbols == [p \in DOMAIN picture |-> picture[p].symbol]
                value(b, c) == LET i == Len(bands[b]) - (Newest(plot) - c)
                               IN IF i >= 1 /\ IsFinite(bands[b][i]) THEN bands[b][i] ELSE 0
                steps(b, c) == IF value(b, c) = 0 THEN 0
                               ELSE Max({1, (2 * value(b, c) * SubRows(plot) + scale) \div (2 * scale)})
                cellOf(c) == (c - 1) \div Picturing!SamplesPerCell(plot)
            IN /\ \A c \in Columns(plot) :
                    LitSteps(symbols, plot, c)
                      = 1 .. Min({steps(1, c) + steps(2, c) + steps(3, c), SubRows(plot)})
               /\ \A p \in DOMAIN picture :
                    \E c \in Columns(plot) : cellOf(c) = p[1] /\ value(picture[p].owner, c) > 0
  BY DEF StackIsItsBands
<1>. DEFINE bands == GcBandsDrawn
            scale == GcScale(GcSeries(app))
            picture == frame[plot].gc
            symbols == [p \in DOMAIN picture |-> picture[p].symbol]
            last == Newest(plot)
            rows == SubRows(plot)
            value(b, c) == LET i == Len(bands[b]) - (last - c)
                           IN IF i >= 1 /\ IsFinite(bands[b][i]) THEN bands[b][i] ELSE 0
            steps(b, c) == IF value(b, c) = 0 THEN 0
                           ELSE Max({1, (2 * value(b, c) * rows + scale) \div (2 * scale)})
            shown(b, c) == ShownIn(ColumnOf(bands, plot, c)[b])
<1>1. StackShows(picture, bands, scale, plot)
  OBVIOUS
<1>2. last \in Nat /\ Columns(plot) = 1 .. last
  BY LastColumn
<1>3. AreBands(bands)
  OBVIOUS
<1>. HIDE DEF bands, scale, picture
<1>4. ASSUME NEW b \in 1 .. 3, NEW c \in Columns(plot) PROVE value(b, c) = shown(b, c)
  <2>. DEFINE s == bands[b]
              n == Len(s)
              i == n - (last - c)
              v == s[i]
  <2>1. ColumnOf(bands, plot, c)[b] = IF i >= 1 THEN v ELSE -1
    BY DEF ColumnOf, InColumn
  <2>. HIDE DEF last
  <2>2. n \in Nat /\ DOMAIN s = 1 .. n /\ Range(s) \subseteq Nat
    BY <1>3 DEF AreBands, IsSequence
  <2>. HIDE DEF n
  <2>3. i >= 1 => i \in 1 .. n
    BY <1>2, <2>2
  <2>4. value(b, c) = IF i >= 1 /\ IsFinite(v) THEN v ELSE 0
    BY DEF n
  <2>. HIDE DEF i, s, value
  <2>5. i >= 1 => v \in Nat
    BY <2>2, <2>3 DEF Range
  <2>. HIDE DEF v
  <2>. QED  BY <2>1, <2>4, <2>5 DEF ShownIn
<1>5. \A b \in 1 .. 3, c \in Columns(plot) : steps(b, c) = StepsOf(shown(b, c), scale, rows)
  <2>. HIDE DEF value, shown
  <2>. QED  BY <1>4 DEF StepsOf
<1>6. /\ \A c \in Columns(plot) :
           LitSteps(symbols, plot, c)
             = 1 .. Min({StepsOf(shown(1, c), scale, rows) + StepsOf(shown(2, c), scale, rows)
                           + StepsOf(shown(3, c), scale, rows), rows})
      /\ \A p \in DOMAIN picture :
           \E c \in Columns(plot) :
             /\ (c - 1) \div Picturing!SamplesPerCell(plot) = p[1]
             /\ picture[p].owner \in 1 .. 3 /\ shown(picture[p].owner, c) > 0
  BY <1>1 DEF StackShows
<1>. HIDE DEF value, steps, shown, symbols, rows, last
<1>7. 1 \in 1 .. 3 /\ 2 \in 1 .. 3 /\ 3 \in 1 .. 3
  OBVIOUS
<1>8. \A c \in Columns(plot) :
        LitSteps(symbols, plot, c) = 1 .. Min({steps(1, c) + steps(2, c) + steps(3, c), rows})
  BY <1>5, <1>6, <1>7
<1>9. \A p \in DOMAIN picture :
        \E c \in Columns(plot) :
          (c - 1) \div Picturing!SamplesPerCell(plot) = p[1] /\ value(picture[p].owner, c) > 0
  BY <1>4, <1>6
<1>. QED  BY <1>8, <1>9 DEF value, steps, symbols, rows, last, bands, scale, picture

\* In the stacked chart a column is as high as its bands together, and a cell has
\* the colour of one that has something in it (graph.rs:196, graph.rs:243).
THEOREM StacksAreTheirBands == Spec => []StackIsItsBands
<1>1. IInv /\ ReadingsAreNumbers => StackIsItsBands
  <2>. SUFFICES ASSUME IInv, ReadingsAreNumbers
                PROVE  StackIsItsBands
    OBVIOUS
  <2>. DEFINE series == GcSeries(app)
              bands == GcBands(series)
              scale == GcScale(series)
  <2>1. DOMAIN series = 1 .. 3 /\ \A b \in 1 .. 3 : OfNumbers(series[b])
    BY GcSeriesAre
  <2>. HIDE DEF series
  <2>2. AreBands(bands) /\ Len(bands[1]) = Shortest(series) /\ scale \in Nat \ {0}
    BY <2>1, GcBandsAre, GcScaleIs
  <2>3. ASSUME NEW plot \in Picturing!Plots PROVE StackShows(frame[plot].gc, bands, scale, plot)
    <3>. DEFINE picture == frame[plot].gc
    <3>1. picture = GcChart(app, plot, Width, Height)
      BY GcIsDrawn
    <3>. HIDE DEF picture
    <3>2. CASE \A b \in DOMAIN series : series[b] = <<>>
      <4>1. picture = <<>>
        BY <3>1, <3>2 DEF GcChart, series
      <4>2. Shortest(series) = 0
        <5>1. Shortest(series) \in Nat /\ Shortest(series) <= Len(series[1])
          BY <2>1, GcScaleIs
        <5>2. series[1] = <<>>
          BY <2>1, <3>2
        <5>3. Len(series[1]) = 0
          BY <5>2
        <5>. QED  BY <5>1, <5>3
      <4>. HIDE DEF bands, scale
      <4>3. Len(bands[1]) = 0
        BY <2>2, <4>2
      <4>4. StackShows(<<>>, bands, scale, plot)
        BY <2>2, <4>3, NothingStacked
      <4>. QED  BY <4>1, <4>4 DEF picture
    <3>3. CASE ~\A b \in DOMAIN series : series[b] = <<>>
      <4>1. Max({Width - 2, 0}) = InnerWidth /\ Max({Height - 2, 0}) = InnerHeight
        BY InnerSize
      <4>2. picture = Picturing!StackedPicture(bands, <<scale, 1>>, plot, InnerWidth, InnerHeight)
        BY <3>1, <3>3, <4>1 DEF GcChart, series
      <4>. HIDE DEF bands, scale
      <4>. QED  BY <2>2, <4>2, StackedIsBands DEF picture
    <3>. QED  BY <3>2, <3>3
  <2>4. AreBands(GcBandsDrawn)
           /\ \A plot \in Picturing!Plots :
                StackShows(frame[plot].gc, GcBandsDrawn, GcScale(GcSeries(app)), plot)
    BY <2>2, <2>3 DEF GcBandsDrawn, series
  <2>. QED  BY <2>4, StackShownIs
<1>2. Inv => IInv /\ ReadingsAreNumbers
  BY DEF Inv, NInv
<1>. QED  BY <1>1, <1>2, StreamIsRead, PTL
=============================================================================
