----------------------------- MODULE ProfileProofs -----------------------------
(***************************************************************************)
(* What is proved of Profile, for any stacks, methods and bounds: no       *)
(* sample loses its stack to the turning over of the stack table, no       *)
(* sample is counted twice or dropped, and the profile that is shown adds  *)
(* up.  Three invariants, each resting on the one before: TypeInv, that    *)
(* events and tallies are of the types draining needs; TableInv, which     *)
(* generation of the table answers for which id; CountInv, where each      *)
(* sample is.                                                              *)
(***************************************************************************)
EXTENDS Profile, FoldFacts

----------------------------------------------------------------------------
(* The samples of a list of events.                                        *)

SampleSet(batch) == {batch[k] : k \in {i \in DOMAIN batch : batch[i].type = "Sample"}}

\* The samples among the first n events, as SamplesIn computes them.
IsSamplesUpto(u, batch) ==
  u = [n \in 0 .. Len(batch) |->
         IF n = 0 THEN <<>>
         ELSE IF batch[n].type = "Sample" THEN Append(u[n - 1], batch[n]) ELSE u[n - 1]]

SamplesUpto(batch) == CHOOSE u : IsSamplesUpto(u, batch)

\* The samples of a batch are those of all of its events.
LEMMA SamplesInIsUpto ==
  ASSUME NEW batch
  PROVE  SamplesIn(batch) = SamplesUpto(batch)[Len(batch)]
BY DEF SamplesIn, SamplesUpto, IsSamplesUpto

\* The samples of the first n events, one event after another.
LEMMA SamplesUptoWorks ==
  ASSUME NEW E, NEW batch \in Seq(E)
  PROVE  /\ IsSamplesUpto(SamplesUpto(batch), batch)
         /\ \A n \in 0 .. Len(batch) : SamplesUpto(batch)[n] \in Seq(SampleSet(batch))
<1>. DEFINE T == Seq(SampleSet(batch))
            N == Len(batch)
            next == [ks \in (1 .. N) \X T |->
                       IF batch[ks[1]].type = "Sample" THEN Append(ks[2], batch[ks[1]]) ELSE ks[2]]
<1>0. N \in Nat /\ <<>> \in T
  OBVIOUS
<1>1. next \in [(1 .. N) \X T -> T]
  <2>1. ASSUME NEW k \in 1 .. N, NEW s \in T
        PROVE  (IF batch[k].type = "Sample" THEN Append(s, batch[k]) ELSE s) \in T
    <3>1. batch[k].type = "Sample" => batch[k] \in SampleSet(batch)
      BY DEF SampleSet
    <3>. QED  BY <3>1
  <2>. HIDE DEF T
  <2>. QED  BY <2>1
<1>2. PICK u \in [0 .. N -> T] : IsUpto(u, N, <<>>, next)
  <2>. HIDE DEF T, next, N
  <2>. QED  BY <1>0, <1>1, UptoExists
<1>3. IsSamplesUpto(u, batch)
  <2>1. ASSUME NEW n \in 0 .. N, n # 0
        PROVE  u[n] = IF batch[n].type = "Sample" THEN Append(u[n - 1], batch[n]) ELSE u[n - 1]
    <3>. HIDE DEF T
    <3>1. n \in 1 .. N /\ n - 1 \in 0 .. N
      BY <1>0, <2>1
    <3>2. u[n] = next[<<n, u[n - 1]>>]
      BY <1>2, <2>1, <3>1 DEF IsUpto
    <3>3. u[n - 1] \in T
      BY <3>1
    <3>. QED  BY <3>1, <3>2, <3>3
  <2>2. u[0] = <<>>
    <3>. HIDE DEF T, next, N
    <3>1. 0 \in 0 .. N
      BY <1>0
    <3>. QED  BY <1>2, <3>1 DEF IsUpto
  <2>3. u = [n \in 0 .. N |-> u[n]]
    OBVIOUS
  <2>. HIDE DEF T
  <2>. QED  BY <2>1, <2>2, <2>3 DEF IsSamplesUpto
<1>4. IsSamplesUpto(SamplesUpto(batch), batch)
  BY <1>3 DEF SamplesUpto
<1>. DEFINE typed == {n \in Nat : n <= N => SamplesUpto(batch)[n] \in T}
<1>5. 0 \in typed
  BY <1>0, <1>4 DEF IsSamplesUpto
<1>6. ASSUME NEW n \in Nat, n \in typed PROVE n + 1 \in typed
  <2>. SUFFICES ASSUME n + 1 <= N PROVE SamplesUpto(batch)[n + 1] \in T
    OBVIOUS
  <2>1. SamplesUpto(batch)[n] \in T
    BY <1>0, <1>6
  <2>2. SamplesUpto(batch)[n + 1] =
          IF batch[n + 1].type = "Sample" THEN Append(SamplesUpto(batch)[n], batch[n + 1])
          ELSE SamplesUpto(batch)[n]
    <3>1. n + 1 \in 0 .. N /\ n + 1 # 0 /\ (n + 1) - 1 = n
      BY <1>0
    <3>. QED  BY <1>4, <3>1 DEF IsSamplesUpto
  <2>3. batch[n + 1].type = "Sample" => batch[n + 1] \in SampleSet(batch)
    BY <1>0 DEF SampleSet
  <2>. QED  BY <2>1, <2>2, <2>3
<1>7. Nat \subseteq typed
  <2>. HIDE DEF typed
  <2>. QED  BY <1>5, <1>6, NumbersByInduction
<1>. QED  BY <1>0, <1>4, <1>7

\* The samples of a batch are events of it, and samples.
LEMMA SamplesInType ==
  ASSUME NEW E, NEW batch \in Seq(E)
  PROVE  /\ SamplesIn(batch) \in Seq(SampleSet(batch))
         /\ SampleSet(batch) \subseteq {e \in E : e.type = "Sample"}
<1>1. Len(batch) \in 0 .. Len(batch)
  OBVIOUS
<1>2. SamplesUpto(batch)[Len(batch)] \in Seq(SampleSet(batch))
  BY <1>1, SamplesUptoWorks
<1>3. SamplesIn(batch) \in Seq(SampleSet(batch))
  BY <1>2, SamplesInIsUpto
<1>4. SampleSet(batch) \subseteq {e \in E : e.type = "Sample"}
  BY DEF SampleSet
<1>. QED  BY <1>3, <1>4

\* How the next event counts.
LEMMA SamplesUptoNext ==
  ASSUME NEW E, NEW batch \in Seq(E), NEW n \in Nat, n < Len(batch)
  PROVE  SamplesUpto(batch)[n + 1] =
           IF batch[n + 1].type = "Sample" THEN Append(SamplesUpto(batch)[n], batch[n + 1])
           ELSE SamplesUpto(batch)[n]
<1>1. n + 1 \in 0 .. Len(batch) /\ n + 1 # 0 /\ (n + 1) - 1 = n
  OBVIOUS
<1>2. IsSamplesUpto(SamplesUpto(batch), batch)
  BY SamplesUptoWorks
<1>. QED  BY <1>1, <1>2 DEF IsSamplesUpto

\* There is none among no events.
LEMMA SamplesUptoZero ==
  ASSUME NEW E, NEW batch \in Seq(E)
  PROVE  SamplesUpto(batch)[0] = <<>>
<1>1. 0 \in 0 .. Len(batch)
  OBVIOUS
<1>2. IsSamplesUpto(SamplesUpto(batch), batch)
  BY SamplesUptoWorks
<1>. QED  BY <1>1, <1>2 DEF IsSamplesUpto

\* There is none in an empty batch.
LEMMA SamplesInNone == SamplesIn(<<>>) = <<>>
<1>1. <<>> \in Seq({}) /\ Len(<<>>) = 0
  OBVIOUS
<1>2. SamplesUpto(<<>>)[0] = <<>>
  BY <1>1, SamplesUptoZero
<1>. QED  BY <1>1, <1>2, SamplesInIsUpto

\* The samples of the first n events depend on these events alone.
LEMMA SamplesOfPrefix ==
  ASSUME NEW E, NEW batch \in Seq(E), NEW longer \in Seq(E), Len(batch) <= Len(longer),
         \A i \in 1 .. Len(batch) : longer[i] = batch[i]
  PROVE  SamplesUpto(longer)[Len(batch)] = SamplesIn(batch)
<1>. DEFINE same == {n \in Nat : n <= Len(batch) => SamplesUpto(longer)[n] = SamplesUpto(batch)[n]}
<1>1. 0 \in same
  BY SamplesUptoZero
<1>2. ASSUME NEW n \in Nat, n \in same PROVE n + 1 \in same
  <2>. SUFFICES ASSUME n + 1 <= Len(batch)
                PROVE  SamplesUpto(longer)[n + 1] = SamplesUpto(batch)[n + 1]
    OBVIOUS
  <2>1. SamplesUpto(longer)[n] = SamplesUpto(batch)[n]
    BY <1>2
  <2>2. longer[n + 1] = batch[n + 1]
    OBVIOUS
  <2>3. n < Len(batch) /\ n < Len(longer)
    OBVIOUS
  <2>4. SamplesUpto(longer)[n + 1] =
           IF longer[n + 1].type = "Sample" THEN Append(SamplesUpto(longer)[n], longer[n + 1])
           ELSE SamplesUpto(longer)[n]
    BY <2>3, SamplesUptoNext
  <2>5. SamplesUpto(batch)[n + 1] =
           IF batch[n + 1].type = "Sample" THEN Append(SamplesUpto(batch)[n], batch[n + 1])
           ELSE SamplesUpto(batch)[n]
    BY <2>3, SamplesUptoNext
  <2>. QED  BY <2>1, <2>2, <2>4, <2>5, Zenon
<1>3. Nat \subseteq same
  <2>. HIDE DEF same
  <2>. QED  BY <1>1, <1>2, NumbersByInduction
<1>4. Len(batch) \in same
  BY <1>3
<1>. QED  BY <1>4, SamplesInIsUpto

\* One event more is one sample more, if it is a sample.
LEMMA SamplesInAppend ==
  ASSUME NEW E, NEW batch \in Seq(E), NEW e \in E
  PROVE  SamplesIn(Append(batch, e)) =
           IF e.type = "Sample" THEN Append(SamplesIn(batch), e) ELSE SamplesIn(batch)
<1>. DEFINE longer == Append(batch, e)
<1>1. /\ longer \in Seq(E) /\ Len(longer) = Len(batch) + 1 /\ longer[Len(batch) + 1] = e
      /\ \A i \in 1 .. Len(batch) : longer[i] = batch[i]
  OBVIOUS
<1>. HIDE DEF longer
<1>2. SamplesUpto(longer)[Len(batch)] = SamplesIn(batch)
  BY <1>1, SamplesOfPrefix
<1>3. SamplesUpto(longer)[Len(batch) + 1] =
        IF longer[Len(batch) + 1].type = "Sample"
        THEN Append(SamplesUpto(longer)[Len(batch)], longer[Len(batch) + 1])
        ELSE SamplesUpto(longer)[Len(batch)]
  BY <1>1, SamplesUptoNext
<1>4. SamplesIn(longer) = SamplesUpto(longer)[Len(batch) + 1]
  BY <1>1, SamplesInIsUpto
<1>5. SamplesIn(longer) =
        IF e.type = "Sample" THEN Append(SamplesIn(batch), e) ELSE SamplesIn(batch)
  BY <1>1, <1>2, <1>3, <1>4, Zenon
<1>. QED  BY <1>5 DEF longer

\* Events that are not samples add none.
LEMMA SamplesInRest ==
  ASSUME NEW E, NEW batch \in Seq(E), NEW rest \in Seq(E),
         \A i \in DOMAIN rest : rest[i].type # "Sample"
  PROVE  SamplesIn(batch \o rest) = SamplesIn(batch)
<1>. DEFINE longer == batch \o rest
            same == {n \in Nat : n <= Len(rest) =>
                       SamplesUpto(longer)[Len(batch) + n] = SamplesIn(batch)}
<1>1. /\ longer \in Seq(E) /\ Len(longer) = Len(batch) + Len(rest)
      /\ \A i \in 1 .. Len(batch) : longer[i] = batch[i]
      /\ \A i \in 1 .. Len(rest) : longer[Len(batch) + i] = rest[i]
  OBVIOUS
<1>. HIDE DEF longer
<1>2. 0 \in same
  BY <1>1, SamplesOfPrefix
<1>3. ASSUME NEW n \in Nat, n \in same PROVE n + 1 \in same
  <2>. SUFFICES ASSUME n + 1 <= Len(rest)
                PROVE  SamplesUpto(longer)[Len(batch) + (n + 1)] = SamplesIn(batch)
    OBVIOUS
  <2>. DEFINE m == Len(batch) + n
  <2>1. m \in Nat /\ m < Len(longer) /\ Len(batch) + (n + 1) = m + 1
    BY <1>1
  <2>2. longer[m + 1].type # "Sample"
    BY <1>1, <2>1
  <2>3. SamplesUpto(longer)[m + 1] =
          IF longer[m + 1].type = "Sample" THEN Append(SamplesUpto(longer)[m], longer[m + 1])
          ELSE SamplesUpto(longer)[m]
    <3>. HIDE DEF m
    <3>. QED  BY <1>1, <2>1, SamplesUptoNext
  <2>4. SamplesUpto(longer)[m] = SamplesIn(batch)
    BY <1>3
  <2>. HIDE DEF m
  <2>. QED  BY <2>1, <2>2, <2>3, <2>4
<1>4. Nat \subseteq same
  <2>. HIDE DEF same
  <2>. QED  BY <1>2, <1>3, NumbersByInduction
<1>5. Len(rest) \in same
  BY <1>4
<1>6. SamplesIn(longer) = SamplesUpto(longer)[Len(batch) + Len(rest)]
  BY <1>1, SamplesInIsUpto
<1>7. SamplesIn(longer) = SamplesIn(batch)
  BY <1>5, <1>6
<1>. QED  BY <1>7 DEF longer

----------------------------------------------------------------------------
(* Counting samples.                                                       *)

\* A tally adds up: the usable samples are shared out over their innermost
\* frames, and an address is on the stack in each sample it is innermost in.
AddsUp(st) ==
  /\ UsableSamples(st) = SumFunctionOnSet(st.self, Addresses)
  /\ \A a \in Addresses : st.self[a] <= st.total[a]

\* A sample without a stack counts as a sample, and the tally adds up.
LEMMA RecordMissingStackAddsUp ==
  ASSUME NEW st \in Tally, AddsUp(st)
  PROVE  /\ RecordMissingStack(st) \in Tally /\ AddsUp(RecordMissingStack(st))
         /\ RecordMissingStack(st).samples = st.samples + 1
<1>. DEFINE next == RecordMissingStack(st)
<1>1. /\ st.samples \in Nat /\ st.unresolved \in Nat /\ st.empty \in Nat
      /\ st.self \in Counts /\ st.total \in Counts
  BY DEF Tally
<1>2. next = [self |-> st.self, total |-> st.total, samples |-> st.samples + 1,
              unresolved |-> st.unresolved + 1, empty |-> st.empty]
  <2>1. next = [st EXCEPT !.samples = st.samples + 1, !.unresolved = st.unresolved + 1]
    BY DEF RecordMissingStack
  <2>. HIDE DEF next
  <2>. QED  BY <2>1 DEF Tally
<1>. HIDE DEF next
<1>3. /\ next \in Tally /\ next.self = st.self /\ next.total = st.total
      /\ next.samples = st.samples + 1 /\ next.unresolved = st.unresolved + 1
      /\ next.empty = st.empty
  BY <1>1, <1>2 DEF Tally
<1>4. UsableSamples(next) = UsableSamples(st)
  BY <1>1, <1>3 DEF UsableSamples
<1>5. AddsUp(next)
  BY <1>3, <1>4 DEF AddsUp
<1>. QED  BY <1>3, <1>5 DEF next

\* A stack counts as one sample, and the tally adds up.
LEMMA RecordStackAddsUp ==
  ASSUME NEW st \in Tally, AddsUp(st), NEW frames \in Seq(Addresses)
  PROVE  /\ RecordStack(st, frames) \in Tally /\ AddsUp(RecordStack(st, frames))
         /\ RecordStack(st, frames).samples = st.samples + 1
<1>. DEFINE next == RecordStack(st, frames)
<1>0. /\ st.samples \in Nat /\ st.unresolved \in Nat /\ st.empty \in Nat
      /\ st.self \in [Addresses -> Nat] /\ st.total \in [Addresses -> Nat]
  BY DEF Tally, Counts
<1>1. CASE frames = <<>>
  <2>1. next = [self |-> st.self, total |-> st.total, samples |-> st.samples + 1,
                unresolved |-> st.unresolved, empty |-> st.empty + 1]
    BY <1>1 DEF RecordStack, Tally
  <2>. HIDE DEF next
  <2>2. /\ next \in Tally /\ next.self = st.self /\ next.total = st.total
        /\ next.samples = st.samples + 1 /\ next.empty = st.empty + 1
        /\ next.unresolved = st.unresolved
    BY <1>0, <2>1 DEF Tally, Counts
  <2>3. UsableSamples(next) = UsableSamples(st)
    BY <1>0, <2>2 DEF UsableSamples
  <2>4. AddsUp(next)
    BY <2>2, <2>3 DEF AddsUp
  <2>. QED  BY <2>2, <2>4 DEF next
<1>2. CASE frames # <<>>
  <2>. DEFINE head == Head(frames)
              self == [st.self EXCEPT ![head] = @ + 1]
              total == [a \in Addresses |->
                          IF a \in Range(frames) THEN st.total[a] + 1 ELSE st.total[a]]
  <2>1. head \in Addresses /\ head \in Range(frames)
    <3>1. frames[1] = Head(frames) /\ 1 \in DOMAIN frames
      BY <1>2
    <3>. QED  BY <3>1 DEF Range
  <2>2. next = [self |-> self, total |-> total, samples |-> st.samples + 1,
                unresolved |-> st.unresolved, empty |-> st.empty]
    BY <1>2 DEF RecordStack, Tally
  <2>. HIDE DEF head
  <2>3. self \in [Addresses -> Nat] /\ total \in [Addresses -> Nat]
    <3>1. \A a \in Addresses : st.total[a] \in Nat /\ st.total[a] + 1 \in Nat
      BY <1>0
    <3>2. self \in [Addresses -> Nat]
      BY <1>0, <2>1
    <3>. QED  BY <3>1, <3>2
  <2>4. \A a \in Addresses : self[a] <= total[a]
    <3>1. \A a \in Addresses : st.self[a] <= st.total[a]
      BY DEF AddsUp
    <3>. QED  BY <1>0, <2>1, <3>1
  <2>5. SumFunctionOnSet(self, Addresses) = SumFunctionOnSet(st.self, Addresses) + 1
    <3>1. Numbers(st.self, Addresses)
      BY <1>0, ProfileAssumption DEF Numbers
    <3>2. self[head] = st.self[head] + 1 /\ \A a \in Addresses \ {head} : self[a] = st.self[a]
      BY <1>0, <2>1
    <3>. HIDE DEF self
    <3>. QED  BY <2>1, <3>1, <3>2, SumOneMore
  <2>. HIDE DEF self, total
  <2>6. /\ next \in Tally /\ next.self = self /\ next.total = total
        /\ next.samples = st.samples + 1 /\ next.unresolved = st.unresolved
        /\ next.empty = st.empty
    BY <1>0, <2>2, <2>3 DEF Tally, Counts
  <2>. HIDE DEF next
  <2>7. UsableSamples(next) = UsableSamples(st) + 1
    BY <1>0, <2>6 DEF UsableSamples
  <2>8. AddsUp(next)
    BY <2>4, <2>5, <2>6, <2>7 DEF AddsUp
  <2>. QED  BY <2>6, <2>8 DEF next
<1>. QED  BY <1>1, <1>2

\* What one sample adds.
Recorded(s, sum) ==
  IF s.failed \/ Get(table, s.id) = NoStack THEN RecordMissingStack(sum)
  ELSE RecordStack(sum, Get(table, s.id).frames)

IsDrained(d, st, samples) ==
  d = [s \in SUBSET DOMAIN samples |->
         IF s = {} THEN st ELSE Recorded(samples[Pick(s)], d[s \ {Pick(s)}])]

Drained(st, samples) == CHOOSE d : IsDrained(d, st, samples)

\* Draining is recording each sample in turn.
LEMMA DrainIsDrained ==
  ASSUME NEW st, NEW samples
  PROVE  Drain(st, samples) = Drained(st, samples)[DOMAIN samples]
BY DEF Drain, FoldFunction, FoldFunctionOnSet, MapThenFoldSet, Drained, IsDrained,
       Recorded, Pick

\* A stack in the table is made of addresses.
LEMMA GetType ==
  ASSUME table \in StackTable, NEW id \in StackIds
  PROVE  /\ Get(table, id) \in Definition \cup {NoStack}
         /\ Get(table, id) # NoStack => Get(table, id).frames \in Seq(Addresses)
<1>1. /\ table.current \in [StackIds -> Definition \cup {NoStack}]
      /\ table.previous \in [StackIds -> Definition \cup {NoStack}]
  BY DEF StackTable, Table
<1>2. Get(table, id) \in Definition \cup {NoStack}
  BY <1>1 DEF Get
<1>3. \A d \in Definition : d.frames \in Seq(Addresses)
  BY ProfileAssumption DEF Definition
<1>. QED  BY <1>2, <1>3

\* A sample resolved counts as one, whether its stack is found or not.
LEMMA RecordedAddsUp ==
  ASSUME table \in StackTable, NEW st \in Tally, AddsUp(st), NEW s, s.id \in StackIds
  PROVE  /\ Recorded(s, st) \in Tally /\ AddsUp(Recorded(s, st))
         /\ Recorded(s, st).samples = st.samples + 1
<1>1. CASE s.failed \/ Get(table, s.id) = NoStack
  BY <1>1, RecordMissingStackAddsUp DEF Recorded
<1>2. CASE ~(s.failed \/ Get(table, s.id) = NoStack)
  <2>1. Get(table, s.id).frames \in Seq(Addresses)
    BY <1>2, GetType
  <2>2. Recorded(s, st) = RecordStack(st, Get(table, s.id).frames)
    BY <1>2 DEF Recorded
  <2>. QED  BY <2>1, <2>2, RecordStackAddsUp
<1>. QED  BY <1>1, <1>2

\* Draining a list of samples records each of them once.
LEMMA DrainAddsUp ==
  ASSUME table \in StackTable, NEW st \in Tally, AddsUp(st),
         NEW E, NEW samples \in Seq(E), \A i \in DOMAIN samples : samples[i].id \in StackIds
  PROVE  /\ Drain(st, samples) \in Tally /\ AddsUp(Drain(st, samples))
         /\ Drain(st, samples).samples = st.samples + Len(samples)
<1>. DEFINE sound == {x \in Tally : AddsUp(x)}
            places == DOMAIN samples
            next == [is \in places \X sound |-> Recorded(samples[is[1]], is[2])]
<1>0. places = 1 .. Len(samples) /\ Len(samples) \in Nat
  OBVIOUS
<1>1. IsFiniteSet(places) /\ Cardinality(places) = Len(samples)
  <2>. DEFINE N == Len(samples)
  <2>1. /\ IsFiniteSet(1 .. N)
        /\ Cardinality(1 .. N) = IF 1 > N THEN 0 ELSE N - 1 + 1
    <3>1. N \in Int /\ 1 \in Int
      BY <1>0
    <3>. HIDE DEF N
    <3>. QED  BY <3>1, FS_Interval
  <2>2. Cardinality(1 .. N) = N
    BY <1>0, <2>1
  <2>. QED  BY <1>0, <2>1, <2>2
<1>2. next \in [places \X sound -> sound] /\ st \in sound
  BY RecordedAddsUp
<1>3. PICK d \in [SUBSET places -> sound] : IsFold(d, places, st, next)
  <2>. HIDE DEF sound, places, next
  <2>. QED  BY <1>1, <1>2, FoldExists
<1>4. IsDrained(d, st, samples)
  <2>1. ASSUME NEW s \in SUBSET places, s # {}
        PROVE  d[s] = Recorded(samples[Pick(s)], d[s \ {Pick(s)}])
    <3>. HIDE DEF sound, places
    <3>1. Pick(s) \in s
      BY <2>1, Picked
    <3>2. d[s] = next[<<Pick(s), d[s \ {Pick(s)}]>>]
      BY <1>3, <2>1 DEF IsFold
    <3>3. d[s \ {Pick(s)}] \in sound /\ Pick(s) \in places
      BY <3>1
    <3>. QED  BY <3>2, <3>3
  <2>2. \A s \in SUBSET places : s = {} => d[s] = st
    <3>. HIDE DEF sound, places, next
    <3>. QED  BY <1>3 DEF IsFold
  <2>3. d = [s \in SUBSET places |-> d[s]]
    OBVIOUS
  <2>. QED  BY <2>1, <2>2, <2>3 DEF IsDrained
<1>. DEFINE D == Drained(st, samples)
            counted == {U \in SUBSET places : /\ D[U] \in Tally /\ AddsUp(D[U])
                                              /\ D[U].samples = st.samples + Cardinality(U)}
<1>5. IsDrained(D, st, samples)
  BY <1>4 DEF Drained
<1>6. Hereditary(counted, places)
  <2>. HIDE DEF D
  <2>1. ASSUME NEW U \in SUBSET places, \A x \in U : U \ {x} \in counted PROVE U \in counted
    <3>1. CASE U = {}
      <4>1. D[U] = st /\ st.samples \in Nat
        BY <1>5, <3>1 DEF IsDrained, Tally
      <4>2. Cardinality(U) = 0
        BY <3>1, FS_EmptySet
      <4>. QED  BY <4>1, <4>2
    <3>2. CASE U # {}
      <4>. DEFINE x == Pick(U)
                  V == U \ {x}
      <4>1. x \in U
        BY <3>2, Picked
      <4>2. D[U] = Recorded(samples[x], D[V])
        BY <1>5, <3>2 DEF IsDrained
      <4>3. D[V] \in Tally /\ AddsUp(D[V]) /\ D[V].samples = st.samples + Cardinality(V)
        BY <2>1, <4>1
      <4>4. Cardinality(V) = Cardinality(U) - 1 /\ Cardinality(U) \in Nat
        BY <1>1, <4>1, FS_Subset, FS_RemoveElement, FS_CardinalityType
      <4>. HIDE DEF x, V
      <4>5. /\ D[U] \in Tally /\ AddsUp(D[U]) /\ D[U].samples = D[V].samples + 1
        <5>1. samples[x].id \in StackIds
          BY <4>1
        <5>. DEFINE t == D[V]
        <5>2. t \in Tally /\ AddsUp(t)
          BY <4>3
        <5>. HIDE DEF t
        <5>3. /\ Recorded(samples[x], t) \in Tally /\ AddsUp(Recorded(samples[x], t))
              /\ Recorded(samples[x], t).samples = t.samples + 1
          BY <5>1, <5>2, RecordedAddsUp
        <5>. QED  BY <4>2, <5>3 DEF t
      <4>6. D[U].samples = st.samples + Cardinality(U)
        <5>1. st.samples \in Nat
          BY DEF Tally
        <5>. QED  BY <4>3, <4>4, <4>5, <5>1
      <4>. QED  BY <4>5, <4>6
    <3>. QED  BY <3>1, <3>2
  <2>. QED  BY <2>1 DEF Hereditary
<1>7. SUBSET places \subseteq counted
  <2>. HIDE DEF counted, places
  <2>. QED  BY <1>1, <1>6, SubsetsByInduction
<1>8. places \in counted
  BY <1>7
<1>. QED  BY <1>1, <1>8, DrainIsDrained

----------------------------------------------------------------------------
(* The rows by method.                                                     *)

\* A tally that adds up makes a profile that does, whatever the methods.
SharesOut(st, all, busy) ==
  /\ all.waiting = 0 /\ all.working = UsableSamples(st)
  /\ busy.working + busy.waiting = UsableSamples(st)
  /\ \A row \in all.rows : row.self <= row.total
  /\ busy.rows = {row \in all.rows : row.name \notin WaitFrames}

\* The ranking shares out the samples of a tally that adds up.
LEMMA HotMethodsOfATally ==
  ASSUME NEW st \in Tally, AddsUp(st), NEW known
  PROVE  SharesOut(st, HotMethods(st, known, TRUE), HotMethods(st, known, FALSE))
<1>. SUFFICES ASSUME NEW all, all = HotMethods(st, known, TRUE),
                     NEW busy, busy = HotMethods(st, known, FALSE)
              PROVE  SharesOut(st, all, busy)
  OBVIOUS
<1>. DEFINE label == [a \in Addresses |-> LabelFor(known, a)]
            shown == {a \in Addresses : label[a] \notin WaitFrames}
            Under(n) == {a \in Addresses : label[a] = n}
            Row(n) == [name |-> n, self |-> SumFunctionOnSet(st.self, Under(n)),
                       total |-> SumFunctionOnSet(st.total, Under(n))]
            counted == {a \in Addresses : st.self[a] + st.total[a] > 0}
<1>0. Numbers(st.self, Addresses) /\ Numbers(st.total, Addresses)
  BY ProfileAssumption DEF Tally, Counts, Numbers
<1>1. /\ all.rows = {Row(n) : n \in {label[a] : a \in counted}}
      /\ all.working = SumFunctionOnSet(st.self, Addresses)
      /\ all.waiting = SumFunctionOnSet(st.self, {})
  <2>1. /\ {a \in Addresses : TRUE \/ label[a] \notin WaitFrames} = Addresses
        /\ Addresses \ Addresses = {}
    OBVIOUS
  <2>. QED  BY <2>1 DEF HotMethods
<1>2. /\ busy.rows = {Row(n) : n \in {label[a] : a \in {b \in counted : label[b] \notin WaitFrames}}}
      /\ busy.working = SumFunctionOnSet(st.self, shown)
      /\ busy.waiting = SumFunctionOnSet(st.self, Addresses \ shown)
  <2>1. {a \in Addresses : FALSE \/ label[a] \notin WaitFrames} = shown
    OBVIOUS
  <2>2. {b \in shown : st.self[b] + st.total[b] > 0} = {b \in counted : label[b] \notin WaitFrames}
    OBVIOUS
  <2>3. ASSUME NEW n, n \notin WaitFrames
        PROVE  {a \in shown : label[a] = n} = Under(n)
    BY <2>3
  <2>. DEFINE OfShown(n) == [name |-> n, self |-> SumFunctionOnSet(st.self, {a \in shown : label[a] = n}),
                             total |-> SumFunctionOnSet(st.total, {a \in shown : label[a] = n})]
              names == {label[a] : a \in {b \in shown : st.self[b] + st.total[b] > 0}}
  <2>4. /\ busy.rows = {OfShown(n) : n \in names}
        /\ busy.working = SumFunctionOnSet(st.self, shown)
        /\ busy.waiting = SumFunctionOnSet(st.self, Addresses \ shown)
    BY <2>1 DEF HotMethods
  <2>5. names = {label[a] : a \in {b \in counted : label[b] \notin WaitFrames}}
    BY <2>2
  <2>6. \A n \in names : n \notin WaitFrames
    OBVIOUS
  <2>7. \A n \in names : OfShown(n) = Row(n)
    BY <2>3, <2>6
  <2>. HIDE DEF names, OfShown, Row
  <2>8. {OfShown(n) : n \in names} = {Row(n) : n \in names}
    BY <2>7
  <2>. QED  BY <2>4, <2>5, <2>8
<1>. HIDE DEF label, shown
<1>3. all.waiting = 0 /\ all.working = UsableSamples(st)
  BY <1>1, SumOfNothing DEF AddsUp
<1>4. busy.working + busy.waiting = UsableSamples(st)
  <2>1. shown \in SUBSET Addresses
    BY DEF shown
  <2>2. SumFunctionOnSet(st.self, Addresses) =
          SumFunctionOnSet(st.self, shown) + SumFunctionOnSet(st.self, Addresses \ shown)
    BY <1>0, <2>1, SumOfParts
  <2>. QED  BY <1>2, <2>2 DEF AddsUp
<1>5. ASSUME NEW n PROVE Row(n).self <= Row(n).total
  <2>1. Under(n) \in SUBSET Addresses /\ \A a \in Under(n) : st.self[a] <= st.total[a]
    BY DEF AddsUp
  <2>. HIDE DEF Under
  <2>2. Numbers(st.self, Under(n)) /\ Numbers(st.total, Under(n))
    BY <1>0, <2>1, NumbersOnSubset
  <2>3. SumFunctionOnSet(st.self, Under(n)) <= SumFunctionOnSet(st.total, Under(n))
    BY <2>1, <2>2, SumMonotonic
  <2>. QED  BY <2>3
<1>6. \A n : Row(n).name = n
  OBVIOUS
<1>. HIDE DEF Row, counted
<1>7. \A row \in all.rows : row.self <= row.total
  BY <1>1, <1>5
<1>8. busy.rows = {row \in all.rows : row.name \notin WaitFrames}
  <2>. DEFINE names == {label[a] : a \in counted}
  <2>1. {label[a] : a \in {b \in counted : label[b] \notin WaitFrames}} =
          {n \in names : n \notin WaitFrames}
    OBVIOUS
  <2>. HIDE DEF names
  <2>2. all.rows = {Row(n) : n \in names}
    BY <1>1 DEF names
  <2>3. busy.rows = {Row(n) : n \in {m \in names : m \notin WaitFrames}}
    BY <1>2, <2>1
  <2>4. {Row(n) : n \in {m \in names : m \notin WaitFrames}} =
          {row \in {Row(n) : n \in names} : row.name \notin WaitFrames}
    BY <1>6
  <2>. QED  BY <2>2, <2>3, <2>4
<1>. QED  BY <1>3, <1>4, <1>7, <1>8 DEF SharesOut

----------------------------------------------------------------------------
(* Types.  What TypeOK says of events and blocks is not enough to resolve  *)
(* a sample: it must name a stack, and mean one.                           *)

Proper ==
  {e \in Event : e.type = "Sample" => e.id \in StackIds /\ e.frames \in Stacks /\ e.gen > 0}
ProperSample == {e \in Proper : e.type = "Sample"}
ProperBlock == {b \in Block : b.events \in Seq(Proper)}

TypeInv ==
  /\ TypeOK
  /\ events \in Seq(Proper)
  /\ stream \in Seq(ProperBlock)
  /\ pending \in Seq(ProperSample)
  /\ AddsUp(tally)

\* A new tally adds up.
LEMMA NewTallyAddsUp == NewTally \in Tally /\ AddsUp(NewTally)
<1>1. NewTally \in Tally
  BY DEF NewTally, Tally, Counts
<1>2. SumFunctionOnSet(NewTally.self, Addresses) = 0
  <2>1. \A a \in Addresses : NewTally.self[a] = 0
    BY DEF NewTally
  <2>. QED  BY <2>1, ProfileAssumption, SumOfZeros
<1>3. UsableSamples(NewTally) = 0
  BY DEF UsableSamples, NewTally
<1>4. \A a \in Addresses : NewTally.self[a] <= NewTally.total[a]
  BY DEF NewTally
<1>. QED  BY <1>1, <1>2, <1>3, <1>4 DEF AddsUp

\* As a profile starts.
LEMMA InitTypes == Init => TypeInv
<1>. SUFFICES ASSUME Init PROVE TypeInv
  OBVIOUS
<1>1. TypeOK
  <2>1. table \in StackTable
    BY DEF Init, NewStackTable, Undefined, StackTable, Table
  <2>2. tally \in Tally
    BY NewTallyAddsUp DEF Init
  <2>3. gen \in 1 .. MaxGenerations /\ sampled \in 0 .. MaxSamples
    BY CollectAssumption DEF Init
  <2>4. Len(defined) <= MaxStacks /\ written \in 0 .. Len(defined) /\ defined \in Seq(Stacks)
    BY ProfileAssumption DEF Init
  <2>5. /\ session \in {"open", "stopped", "rundown", "closed"}
        /\ seen \in BOOLEAN /\ finished \in BOOLEAN
    BY DEF Init
  <2>7. events \in Seq(Event) /\ stream \in Seq(Block) /\ pending \in Seq(Event)
    <3>1. events = <<>> /\ stream = <<>> /\ pending = <<>>
      BY DEF Init
    <3>. QED  BY <3>1
  <2>6. /\ methods \subseteq {m \in Methods : m.start > 0 /\ m.size > 0}
        /\ resolved \subseteq Resolution
    BY DEF Init
  <2>. HIDE DEF Init
  <2>. QED  BY <2>1, <2>2, <2>3, <2>4, <2>5, <2>6, <2>7 DEF TypeOK
<1>. QED  BY <1>1, NewTallyAddsUp DEF Init, TypeInv

\* The blocks the runtime writes.
EventBlock == [EmptyBlock("EventBlock") EXCEPT !.events = events]

\* Blocks without events.
LEMMA EmptyBlockType ==
  /\ EmptyBlock("SPBlock") \in ProperBlock
  /\ EmptyBlock("End") \in ProperBlock
<1>1. ASSUME NEW type \in {"SPBlock", "End"} PROVE EmptyBlock(type) \in ProperBlock
  <2>1. EmptyBlock(type) = [type |-> type, events |-> <<>>, first |-> 0, stacks |-> <<>>]
    BY DEF EmptyBlock
  <2>2. <<>> \in Seq(Proper) /\ <<>> \in Seq(Event) /\ <<>> \in Seq(Definition)
    OBVIOUS
  <2>3. EmptyBlock(type) \in Block
    BY <2>1, <2>2 DEF Block
  <2>4. EmptyBlock(type).events \in Seq(Proper)
    BY <2>1, <2>2
  <2>. QED  BY <2>3, <2>4 DEF ProperBlock
<1>. QED  BY <1>1

\* A stack block has the stacks that are not yet written.
LEMMA StackBlockType ==
  ASSUME TypeInv, written < Len(defined)
  PROVE  /\ StackBlock \in ProperBlock
         /\ StackBlock.type = "StackBlock" /\ StackBlock.events = <<>>
         /\ StackBlock.first = written + 1
         /\ Len(StackBlock.stacks) = Len(defined) - written
         /\ \A i \in 1 .. Len(defined) - written :
              StackBlock.stacks[i] = [gen |-> gen, frames |-> defined[written + i]]
<1>. DEFINE n == Len(defined) - written
            stacks == [i \in 1 .. n |-> [gen |-> gen, frames |-> defined[written + i]]]
<1>1. n \in Nat /\ written + 1 \in StackIds
  BY ProfileAssumption DEF TypeInv, TypeOK, StackIds
<1>2. stacks \in Seq(Definition)
  <2>1. \A i \in 1 .. n : defined[written + i] \in Stacks
    BY <1>1 DEF TypeInv, TypeOK
  <2>2. gen \in Nat
    BY CollectAssumption DEF TypeInv, TypeOK
  <2>3. \A i \in 1 .. n : stacks[i] \in Definition
    BY <2>1, <2>2 DEF Definition
  <2>. HIDE DEF n
  <2>. QED  BY <1>1, <2>3
<1>3. StackBlock = [type |-> "StackBlock", events |-> <<>>, first |-> written + 1, stacks |-> stacks]
  <2>. DEFINE empty == EmptyBlock("StackBlock")
  <2>1. empty = [type |-> "StackBlock", events |-> <<>>, first |-> 0, stacks |-> <<>>]
    BY DEF EmptyBlock
  <2>2. StackBlock = [empty EXCEPT !.first = written + 1, !.stacks = stacks]
    BY DEF StackBlock
  <2>. HIDE DEF stacks, empty
  <2>. QED  BY <2>1, <2>2
<1>4. Len(stacks) = n /\ \A i \in 1 .. n : stacks[i] = [gen |-> gen, frames |-> defined[written + i]]
  BY <1>1
<1>. HIDE DEF stacks
<1>5. StackBlock \in ProperBlock
  <2>1. <<>> \in Seq(Proper) /\ <<>> \in Seq(Event)
    OBVIOUS
  <2>2. StackBlock \in Block
    BY <1>1, <1>2, <1>3, <2>1 DEF Block
  <2>. QED  BY <1>3, <2>1, <2>2 DEF ProperBlock
<1>. QED  BY <1>3, <1>4, <1>5

\* An event block has the events that are not yet written.
LEMMA EventBlockType ==
  ASSUME TypeInv
  PROVE  /\ EventBlock \in ProperBlock
         /\ EventBlock.type = "EventBlock" /\ EventBlock.events = events
<1>1. EventBlock = [type |-> "EventBlock", events |-> events, first |-> 0, stacks |-> <<>>]
  BY DEF EventBlock, EmptyBlock
<1>2. events \in Seq(Proper) /\ events \in Seq(Event)
  BY DEF TypeInv, TypeOK
<1>. QED  BY <1>1, <1>2 DEF ProperBlock, Block

\* What a flush writes is blocks.
LEMMA UnwrittenType ==
  ASSUME TypeInv
  PROVE  Unwritten \in Seq(ProperBlock)
<1>. DEFINE first == IF written < Len(defined) THEN <<StackBlock>> ELSE <<>>
            second == IF events # <<>> THEN <<EventBlock>> ELSE <<>>
<1>1. first \in Seq(ProperBlock)
  BY StackBlockType
<1>2. second \in Seq(ProperBlock)
  BY EventBlockType
<1>3. Unwritten = first \o second
  BY DEF Unwritten, EventBlock
<1>. HIDE DEF first, second
<1>. QED  BY <1>1, <1>2, <1>3

\* What the samples of a list mean, and what draining it takes, are of the
\* right types.
LEMMA ResolutionsType ==
  ASSUME TypeInv, NEW samples \in Seq(ProperSample)
  PROVE  Resolutions(samples) \subseteq Resolution
<1>. SUFFICES ASSUME NEW i \in DOMAIN samples
              PROVE  [frames |-> samples[i].frames, gen |-> samples[i].gen,
                      with |-> Get(table, samples[i].id)] \in Resolution
  BY DEF Resolutions, Range
<1>1. samples[i] \in ProperSample
  OBVIOUS
<1>2. samples[i].id \in StackIds /\ samples[i].frames \in Stacks /\ samples[i].gen \in Nat
  BY <1>1 DEF ProperSample, Proper, Event
<1>3. Get(table, samples[i].id) \in Definition \cup {NoStack}
  BY <1>2, GetType DEF TypeInv, TypeOK
<1>. QED  BY <1>2, <1>3 DEF Resolution

\* Draining counts each pending sample once.
LEMMA DrainType ==
  ASSUME TypeInv, NEW samples \in Seq(ProperSample)
  PROVE  /\ Drain(tally, samples) \in Tally /\ AddsUp(Drain(tally, samples))
         /\ Drain(tally, samples).samples = tally.samples + Len(samples)
<1>1. ASSUME NEW i \in DOMAIN samples PROVE samples[i].id \in StackIds
  <2>1. samples[i] \in ProperSample
    OBVIOUS
  <2>. QED  BY <2>1 DEF ProperSample, Proper
<1>2. table \in StackTable /\ tally \in Tally /\ AddsUp(tally)
  BY DEF TypeInv, TypeOK
<1>. QED  BY <1>1, <1>2, DrainAddsUp

\* The samples of a batch of well-formed events are well formed.
LEMMA BatchType ==
  ASSUME NEW batch \in Seq(Proper)
  PROVE  SamplesIn(batch) \in Seq(ProperSample)
<1>1. SampleSet(batch) \subseteq ProperSample
  BY SamplesInType DEF ProperSample
<1>2. SamplesIn(batch) \in Seq(SampleSet(batch))
  BY SamplesInType
<1>. QED  BY <1>1, <1>2

\* The event of a method, and of a sample.
LEMMA MethodEventType ==
  ASSUME NEW m \in Methods
  PROVE  MethodEvent(m) \in Proper /\ MethodEvent(m).type = "Method"
BY DEF MethodEvent, Proper, Event

\* A sample is a well-formed event.
LEMMA SampleEventType ==
  ASSUME TypeInv, NEW id \in StackIds, NEW f \in Stacks, NEW failed \in BOOLEAN
  PROVE  SampleEvent(id, f, failed) \in Proper /\ SampleEvent(id, f, failed).type = "Sample"
<1>1. gen \in Nat /\ gen > 0
  BY CollectAssumption DEF TypeInv, TypeOK
<1>. QED  BY <1>1 DEF SampleEvent, Proper, Event

\* What is well formed has its type.
LEMMA ProperIsEvent ==
  /\ \A s : s \in Seq(Proper) => s \in Seq(Event)
  /\ \A s : s \in Seq(ProperSample) => s \in Seq(Event) /\ s \in Seq(Proper)
  /\ \A s : s \in Seq(ProperBlock) => s \in Seq(Block)
<1>1. Proper \subseteq Event /\ ProperSample \subseteq Proper /\ ProperBlock \subseteq Block
  BY DEF Proper, ProperSample, ProperBlock
<1>. QED  BY <1>1

\* A sample taken keeps the types.
LEMMA SampleTypes ==
  ASSUME TypeInv, NEW f \in Stacks, NEW failed \in BOOLEAN, Sample(f, failed)
  PROVE  TypeInv'
<1>1. /\ sampled' = sampled + 1 /\ sampled' \in 0 .. MaxSamples
  BY CollectAssumption DEF Sample, TypeInv, TypeOK
<1>2. /\ defined' \in Seq(Stacks) /\ Len(defined') <= MaxStacks
      /\ written' \in 0 .. Len(defined')
      /\ \E id \in StackIds : events' = Append(events, SampleEvent(id, f, failed))
  <2>0. /\ defined \in Seq(Stacks) /\ Len(defined) <= MaxStacks /\ written \in 0 .. Len(defined)
        /\ written' = written
    BY DEF Sample, TypeInv, TypeOK
  <2>1. CASE \E id \in DOMAIN defined :
               /\ defined[id] = f
               /\ events' = Append(events, SampleEvent(id, f, failed))
               /\ UNCHANGED defined
    BY <2>0, <2>1, ProfileAssumption DEF StackIds
  <2>2. CASE /\ f \notin Range(defined) /\ Len(defined) < MaxStacks
             /\ defined' = Append(defined, f)
             /\ events' = Append(events, SampleEvent(Len(defined) + 1, f, failed))
    <3>1. Len(defined) + 1 \in StackIds
      BY <2>0, <2>2, ProfileAssumption DEF StackIds
    <3>2. defined' \in Seq(Stacks) /\ Len(defined') = Len(defined) + 1
      BY <2>0, <2>2
    <3>. QED  BY <2>0, <2>2, <3>1, <3>2, ProfileAssumption
  <2>. QED  BY <2>1, <2>2 DEF Sample
<1>3. events' \in Seq(Proper)
  BY <1>2, SampleEventType DEF TypeInv
<1>4. UNCHANGED <<session, gen, written, stream, collectorVars>>
  BY DEF Sample
<1>5. TypeOK'
  BY <1>1, <1>2, <1>3, <1>4, ProperIsEvent DEF TypeInv, TypeOK, collectorVars
<1>. QED  BY <1>3, <1>4, <1>5 DEF TypeInv, collectorVars, AddsUp

\* A method compiled keeps the types.
LEMMA JitTypes ==
  ASSUME TypeInv, NEW m \in Jitted, Jit(m)
  PROVE  TypeInv'
<1>1. events' \in Seq(Proper)
  <2>1. MethodEvent(m) \in Proper
    BY MethodEventType, CollectAssumption
  <2>. QED  BY <2>1 DEF Jit, TypeInv
<1>2. UNCHANGED <<session, gen, defined, written, sampled, stream, collectorVars>>
  BY DEF Jit
<1>3. TypeOK'
  BY <1>1, <1>2, ProperIsEvent DEF TypeInv, TypeOK, collectorVars
<1>. QED  BY <1>1, <1>2, <1>3 DEF TypeInv, collectorVars, AddsUp

\* What the runtime writes, whatever it ends with.
LEMMA WriteTypes ==
  ASSUME TypeInv, UNCHANGED <<sampled, collectorVars>>,
         session' \in {"open", "stopped", "rundown", "closed"},
         gen' \in 1 .. MaxGenerations,
         defined' \in Seq(Stacks), Len(defined') <= MaxStacks, written' \in 0 .. Len(defined'),
         events' \in Seq(Proper), stream' \in Seq(ProperBlock)
  PROVE  TypeInv'
<1>1. TypeOK'
  BY ProperIsEvent DEF TypeInv, TypeOK, collectorVars
<1>. QED  BY <1>1 DEF TypeInv, collectorVars, AddsUp

\* A flush keeps the types.
LEMMA FlushTypes ==
  ASSUME TypeInv, Flush
  PROVE  TypeInv'
<1>1. stream' \in Seq(ProperBlock)
  BY UnwrittenType DEF Flush
<1>2. written' \in 0 .. Len(defined') /\ Len(defined') <= MaxStacks /\ defined' \in Seq(Stacks)
  BY DEF Flush, TypeInv, TypeOK
<1>3. events' \in Seq(Proper)
  BY DEF Flush
<1>4. /\ session' \in {"open", "stopped", "rundown", "closed"} /\ gen' \in 1 .. MaxGenerations
      /\ UNCHANGED <<sampled, collectorVars>>
  BY DEF Flush, TypeInv, TypeOK
<1>. QED  BY <1>1, <1>2, <1>3, <1>4, WriteTypes

\* A sequence point keeps the types.
LEMMA SequencePointTypes ==
  ASSUME TypeInv, SequencePoint
  PROVE  TypeInv'
<1>1. stream' \in Seq(ProperBlock)
  BY UnwrittenType, EmptyBlockType DEF SequencePoint
<1>2. written' \in 0 .. Len(defined') /\ Len(defined') <= MaxStacks /\ defined' \in Seq(Stacks)
  BY ProfileAssumption DEF SequencePoint
<1>3. events' \in Seq(Proper)
  BY DEF SequencePoint
<1>4. gen' \in 1 .. MaxGenerations
  BY CollectAssumption DEF SequencePoint, TypeInv, TypeOK
<1>5. /\ session' \in {"open", "stopped", "rundown", "closed"}
      /\ UNCHANGED <<sampled, collectorVars>>
  BY DEF SequencePoint, TypeInv, TypeOK
<1>. QED  BY <1>1, <1>2, <1>3, <1>4, <1>5, WriteTypes

\* A stop keeps the types.
LEMMA StopTypes ==
  ASSUME TypeInv, Stop
  PROVE  TypeInv'
<1>1. /\ session' \in {"open", "stopped", "rundown", "closed"} /\ gen' \in 1 .. MaxGenerations
      /\ UNCHANGED <<sampled, collectorVars>>
      /\ written' \in 0 .. Len(defined') /\ Len(defined') <= MaxStacks /\ defined' \in Seq(Stacks)
      /\ events' \in Seq(Proper) /\ stream' \in Seq(ProperBlock)
  BY DEF Stop, TypeInv, TypeOK
<1>. QED  BY <1>1, WriteTypes

\* The methods are finitely many, so there is an order to report them in.
LEMMA RundownEvents ==
  ASSUME Rundown
  PROVE  \E all \in Seq(Proper) : /\ events' = events \o all
                                  /\ \A i \in DOMAIN all : all[i].type = "Method"
<1>. DEFINE N == Cardinality(Methods)
            Order(o) == o \in [1 .. N -> Methods] /\ Range(o) = Methods
            order == CHOOSE o \in [1 .. N -> Methods] : Range(o) = Methods
<1>1. N \in Nat /\ \E o : Order(o)
  <2>1. IsFiniteSet(Methods)
    BY ProfileAssumption
  <2>2. N \in Nat /\ ExistsBijection(1 .. N, Methods)
    BY <2>1, FS_CardinalityType
  <2>3. PICK o \in Bijection(1 .. N, Methods) : TRUE
    BY <2>2 DEF ExistsBijection
  <2>4. o \in [1 .. N -> Methods] /\ \A m \in Methods : \E i \in 1 .. N : o[i] = m
    BY DEF Bijection, Injection, Surjection
  <2>5. Range(o) = Methods
    BY <2>4 DEF Range
  <2>. QED  BY <2>2, <2>4, <2>5
<1>2. order \in [1 .. N -> Methods]
  <2>. HIDE DEF N
  <2>. QED  BY <1>1
<1>. DEFINE all == [i \in DOMAIN order |-> MethodEvent(order[i])]
<1>3. events' = events \o all
  BY DEF Rundown
<1>. HIDE DEF order, N
<1>4. DOMAIN all = 1 .. N /\ \A i \in 1 .. N : all[i] \in Proper /\ all[i].type = "Method"
  BY <1>2, MethodEventType
<1>5. all \in Seq(Proper)
  <2>1. all = [i \in 1 .. N |-> all[i]]
    BY <1>2
  <2>. HIDE DEF all
  <2>. QED  BY <1>1, <1>4, <2>1
<1>. HIDE DEF all
<1>. QED  BY <1>3, <1>4, <1>5

\* The rundown keeps the types.
LEMMA RundownTypes ==
  ASSUME TypeInv, Rundown
  PROVE  TypeInv'
<1>1. events' \in Seq(Proper)
  <2>1. PICK all \in Seq(Proper) : events' = events \o all
    BY RundownEvents
  <2>. QED  BY <2>1 DEF TypeInv
<1>2. /\ session' \in {"open", "stopped", "rundown", "closed"} /\ gen' \in 1 .. MaxGenerations
      /\ UNCHANGED <<sampled, collectorVars>>
      /\ written' \in 0 .. Len(defined') /\ Len(defined') <= MaxStacks /\ defined' \in Seq(Stacks)
      /\ stream' \in Seq(ProperBlock)
  BY DEF Rundown, TypeInv, TypeOK
<1>. QED  BY <1>1, <1>2, WriteTypes

\* The end of the stream keeps the types.
LEMMA CloseStreamTypes ==
  ASSUME TypeInv, CloseStream
  PROVE  TypeInv'
<1>1. stream' \in Seq(ProperBlock)
  BY UnwrittenType, EmptyBlockType DEF CloseStream
<1>2. written' \in 0 .. Len(defined') /\ Len(defined') <= MaxStacks /\ defined' \in Seq(Stacks)
  BY DEF CloseStream, TypeInv, TypeOK
<1>3. events' \in Seq(Proper)
  BY DEF CloseStream
<1>4. /\ session' \in {"open", "stopped", "rundown", "closed"} /\ gen' \in 1 .. MaxGenerations
      /\ UNCHANGED <<sampled, collectorVars>>
  BY DEF CloseStream, TypeInv, TypeOK
<1>. QED  BY <1>1, <1>2, <1>3, <1>4, WriteTypes

\* The block being parsed, and the rest.
LEMMA HeadType ==
  ASSUME TypeInv, Parsing
  PROVE  /\ Head(stream) \in ProperBlock /\ Tail(stream) \in Seq(ProperBlock)
         /\ Head(stream) = stream[1] /\ 1 \in DOMAIN stream
BY DEF TypeInv, Parsing

\* What the collector does, whatever it finds.
LEMMA CollectTypes ==
  ASSUME TypeInv, Parsing, Parsed,
         table' \in StackTable, seen' \in BOOLEAN, pending' \in Seq(ProperSample),
         tally' \in Tally, AddsUp(tally'),
         methods' \subseteq {m \in Methods : m.start > 0 /\ m.size > 0},
         finished' \in BOOLEAN, resolved' \subseteq Resolution
  PROVE  TypeInv'
<1>1. stream' \in Seq(ProperBlock)
  BY HeadType DEF Parsed
<1>2. UNCHANGED runtimeVars
  BY DEF Parsed
<1>3. TypeOK'
  BY <1>1, <1>2, ProperIsEvent DEF TypeInv, TypeOK, runtimeVars
<1>. QED  BY <1>1, <1>2, <1>3 DEF TypeInv, runtimeVars, AddsUp

\* Definitions enter the table as they are, and leave it as they were.
LEMMA DefineType ==
  ASSUME NEW t \in StackTable, NEW b \in Block
  PROVE  /\ Define(t, b.first, b.stacks) \in StackTable
         /\ Define(t, b.first, b.stacks).previous = t.previous
         /\ \A id \in StackIds : Define(t, b.first, b.stacks).current[id] =
              IF id \in b.first .. b.first + Len(b.stacks) - 1 THEN b.stacks[id - b.first + 1]
              ELSE t.current[id]
<1>. DEFINE next == Define(t, b.first, b.stacks)
            now == [id \in StackIds |-> IF id \in b.first .. b.first + Len(b.stacks) - 1
                                        THEN b.stacks[id - b.first + 1] ELSE t.current[id]]
<1>1. t.current \in Table /\ t.previous \in Table
  BY DEF StackTable
<1>2. b.first \in Nat /\ b.stacks \in Seq(Definition)
  BY ProfileAssumption DEF Block, StackIds
<1>3. next = [t EXCEPT !.current = now]
  BY DEF Define
<1>4. now \in Table
  <2>1. ASSUME NEW id \in StackIds, id \in b.first .. b.first + Len(b.stacks) - 1
        PROVE  b.stacks[id - b.first + 1] \in Definition
    <3>1. id - b.first + 1 \in 1 .. Len(b.stacks)
      BY <1>2, <2>1 DEF StackIds
    <3>. QED  BY <1>2, <3>1
  <2>. QED  BY <1>1, <2>1 DEF Table
<1>5. \A id \in StackIds : now[id] =
        IF id \in b.first .. b.first + Len(b.stacks) - 1 THEN b.stacks[id - b.first + 1]
        ELSE t.current[id]
  OBVIOUS
<1>. HIDE DEF now, next
<1>6. next.current = now /\ next.previous = t.previous /\ next \in StackTable
  BY <1>1, <1>3, <1>4 DEF StackTable
<1>. QED  BY <1>5, <1>6 DEF next

\* A rotated table is a table.
LEMMA RotateType ==
  ASSUME NEW t \in StackTable
  PROVE  Rotate(t) \in StackTable
BY DEF StackTable, Rotate, Undefined, Table

\* Reading a stack block keeps the types.
LEMMA ParseStacksTypes ==
  ASSUME TypeInv, ParseStacks
  PROVE  TypeInv'
<1>0. Parsing /\ Parsed
  BY DEF ParseStacks, IsBlock
<1>1. table' \in StackTable
  <2>1. Head(stream) \in Block
    BY <1>0, HeadType DEF ProperBlock
  <2>. QED  BY <2>1, DefineType DEF ParseStacks, TypeInv, TypeOK
<1>2. UNCHANGED <<seen, pending, tally, methods, finished, resolved>>
  BY DEF ParseStacks
<1>3. /\ seen' \in BOOLEAN /\ pending' \in Seq(ProperSample)
      /\ tally' \in Tally /\ AddsUp(tally')
      /\ methods' \subseteq {m \in Methods : m.start > 0 /\ m.size > 0}
      /\ finished' \in BOOLEAN /\ resolved' \subseteq Resolution
  BY <1>2 DEF TypeInv, TypeOK
<1>. QED  BY <1>0, <1>1, <1>3, CollectTypes

\* Reading a sequence point keeps the types.
LEMMA ParseSequencePointTypes ==
  ASSUME TypeInv, ParseSequencePoint
  PROVE  TypeInv'
<1>0. Parsing /\ Parsed
  BY DEF ParseSequencePoint, IsBlock
<1>1. seen' = TRUE /\ UNCHANGED <<table, pending, tally, methods, finished, resolved>>
  BY DEF ParseSequencePoint
<1>2. /\ table' \in StackTable /\ seen' \in BOOLEAN /\ pending' \in Seq(ProperSample)
      /\ tally' \in Tally /\ AddsUp(tally')
      /\ methods' \subseteq {m \in Methods : m.start > 0 /\ m.size > 0}
      /\ finished' \in BOOLEAN /\ resolved' \subseteq Resolution
  BY <1>1 DEF TypeInv, TypeOK
<1>. QED  BY <1>0, <1>2, CollectTypes

\* The samples a batch of events leaves to be resolved.
Known == pending \o SamplesIn(Head(stream).events)

\* The pending samples and those of a block, together.
LEMMA KnownType ==
  ASSUME TypeInv, IsBlock("EventBlock")
  PROVE  /\ Head(stream).events \in Seq(Proper)
         /\ SamplesIn(Head(stream).events) \in Seq(ProperSample)
         /\ Known \in Seq(ProperSample)
         /\ Len(Known) = Len(pending) + Len(SamplesIn(Head(stream).events))
<1>1. Head(stream).events \in Seq(Proper)
  BY HeadType DEF IsBlock, ProperBlock
<1>2. SamplesIn(Head(stream).events) \in Seq(ProperSample)
  BY <1>1, BatchType
<1>. QED  BY <1>1, <1>2 DEF Known, TypeInv

\* The two ways a batch of events ends.
LEMMA ParseEventsCases ==
  ASSUME ParseEvents
  PROVE  \/ /\ seen /\ seen' = FALSE
            /\ tally' = Drain(tally, Known) /\ resolved' = Resolutions(Known)
            /\ pending' = <<>> /\ table' = Rotate(table)
         \/ /\ ~seen /\ pending' = Known
            /\ UNCHANGED <<seen, tally, resolved, table>>
BY DEF ParseEvents, Known

\* Reading an event block keeps the types.
LEMMA ParseEventsTypes ==
  ASSUME TypeInv, ParseEvents
  PROVE  TypeInv'
<1>0. IsBlock("EventBlock") /\ Parsing /\ Parsed /\ UNCHANGED finished
  BY DEF ParseEvents, IsBlock
<1>1. methods' \subseteq {m \in Methods : m.start > 0 /\ m.size > 0}
  <2>. DEFINE batch == Head(stream).events
  <2>1. methods' = methods \cup
               UNION {Insert({}, e.method) : e \in {f \in Range(batch) : f.type = "Method"}}
    BY DEF ParseEvents
  <2>2. ASSUME NEW e \in Range(batch)
        PROVE  Insert({}, e.method) \subseteq {m \in Methods : m.start > 0 /\ m.size > 0}
    <3>1. e \in Event
      <4>1. batch \in Seq(Proper)
        BY <1>0, KnownType
      <4>. HIDE DEF batch
      <4>. QED  BY <4>1 DEF Range, Proper
    <3>2. e.method \in Methods \/ e.method = NoMethod
      BY <3>1 DEF Event
    <3>3. Insert({}, NoMethod) = {}
      <4>1. NoMethod.start = 0
        BY DEF NoMethod
      <4>. QED  BY <4>1 DEF Insert
    <3>4. ASSUME NEW m \in Methods
          PROVE  Insert({}, m) \subseteq {n \in Methods : n.start > 0 /\ n.size > 0}
      <4>1. m.start \in Nat /\ m.size \in Nat
        BY ProfileAssumption DEF Method
      <4>2. \A n \in Insert({}, m) : n = m /\ m.start # 0 /\ m.size # 0
        BY DEF Insert
      <4>. QED  BY <4>1, <4>2
    <3>. QED  BY <3>2, <3>3, <3>4
  <2>3. methods \subseteq {m \in Methods : m.start > 0 /\ m.size > 0}
    BY DEF TypeInv, TypeOK
  <2>. HIDE DEF batch
  <2>. QED  BY <2>1, <2>2, <2>3
<1>2. Known \in Seq(ProperSample)
  BY <1>0, KnownType
<1>3. CASE /\ seen /\ seen' = FALSE
           /\ tally' = Drain(tally, Known) /\ resolved' = Resolutions(Known)
           /\ pending' = <<>> /\ table' = Rotate(table)
  <2>1. tally' \in Tally /\ AddsUp(tally')
    BY <1>2, <1>3, DrainType
  <2>2. resolved' \subseteq Resolution
    BY <1>2, <1>3, ResolutionsType
  <2>3. table' \in StackTable /\ pending' \in Seq(ProperSample) /\ finished' \in BOOLEAN
    BY <1>0, <1>3, RotateType DEF TypeInv, TypeOK
  <2>. QED  BY <1>0, <1>1, <1>3, <2>1, <2>2, <2>3, CollectTypes
<1>4. CASE ~seen /\ pending' = Known /\ UNCHANGED <<seen, tally, resolved, table>>
  <2>1. /\ table' \in StackTable /\ seen' \in BOOLEAN /\ pending' \in Seq(ProperSample)
        /\ tally' \in Tally /\ AddsUp(tally') /\ finished' \in BOOLEAN /\ resolved' \subseteq Resolution
    BY <1>0, <1>2, <1>4 DEF TypeInv, TypeOK
  <2>. QED  BY <1>0, <1>1, <2>1, CollectTypes
<1>. QED  BY <1>3, <1>4, ParseEventsCases

\* The end of collecting keeps the types.
LEMMA FinishCollectingTypes ==
  ASSUME TypeInv, FinishCollecting
  PROVE  TypeInv'
<1>0. Parsing /\ Parsed /\ pending \in Seq(ProperSample)
  BY DEF FinishCollecting, IsBlock, TypeInv
<1>1. /\ tally' = Drain(tally, pending) /\ resolved' = Resolutions(pending) /\ pending' = <<>>
      /\ finished' = TRUE /\ UNCHANGED <<table, seen, methods>>
  BY DEF FinishCollecting
<1>2. tally' \in Tally /\ AddsUp(tally') /\ resolved' \subseteq Resolution
  BY <1>0, <1>1, DrainType, ResolutionsType
<1>3. /\ table' \in StackTable /\ seen' \in BOOLEAN /\ pending' \in Seq(ProperSample)
      /\ methods' \subseteq {m \in Methods : m.start > 0 /\ m.size > 0} /\ finished' \in BOOLEAN
  BY <1>1 DEF TypeInv, TypeOK
<1>. QED  BY <1>0, <1>2, <1>3, CollectTypes

\* Every step keeps the types, and that the tally adds up.
LEMMA NextTypes == TypeInv /\ [Next]_vars => TypeInv'
<1>. SUFFICES ASSUME TypeInv, [Next]_vars PROVE TypeInv'
  OBVIOUS
<1>1. ASSUME NEW f \in Stacks, NEW failed \in BOOLEAN, Sample(f, failed) PROVE TypeInv'
  BY <1>1, SampleTypes
<1>2. ASSUME NEW m \in Jitted, Jit(m) PROVE TypeInv'
  BY <1>2, JitTypes
<1>3. CASE UNCHANGED vars
  BY <1>3 DEF TypeInv, TypeOK, AddsUp, vars, runtimeVars, collectorVars
<1>. QED  BY <1>1, <1>2, <1>3, FlushTypes, SequencePointTypes, StopTypes, RundownTypes,
             CloseStreamTypes, ParseStacksTypes, ParseSequencePointTypes, ParseEventsTypes,
             FinishCollectingTypes DEF Next

\* Every state is of the type declared for it: ids stay in the table, what is
\* pending names a stack, and no count of a tally is lost (run profile).
THEOREM ProfileTypeCorrect == Spec => []TypeOK
<1>1. TypeInv => TypeOK
  BY DEF TypeInv
<1>. QED  BY <1>1, InitTypes, NextTypes, PTL DEF Spec

\* The profile shown at the end adds up, whatever was sampled and whatever the
\* methods: rows and waiting threads share out the usable samples, no method
\* works longer than it is on the stack, and leaving the waiting threads out
\* changes no other row.
THEOREM ProfileAddsUp == Spec => []HotMethodsAddUp
<1>1. ASSUME TypeInv PROVE HotMethodsAddUp
  <2>1. tally \in Tally /\ AddsUp(tally)
    BY <1>1 DEF TypeInv, TypeOK
  <2>2. SharesOut(tally, HotMethods(tally, methods, TRUE), HotMethods(tally, methods, FALSE))
    BY <2>1, HotMethodsOfATally
  <2>. QED  BY <2>2 DEF SharesOut, HotMethodsAddUp
<1>. QED  BY <1>1, InitTypes, NextTypes, PTL DEF Spec

----------------------------------------------------------------------------
(* Why no stack is lost.  A sample is resolved some time after its stack   *)
(* was written, by a table that has turned over in between; what has to be *)
(* known is which generation answers for an id, now and once the block     *)
(* being parsed is done with.                                              *)

HasIn(type, s) == \E i \in DOMAIN s : s[i].type = type

\* The table once the definitions about to be parsed are in.
After(t, s) ==
  IF s # <<>> /\ Head(s).type = "StackBlock" THEN Define(t, Head(s).first, Head(s).stacks) ELSE t
Effective == After(table, stream)

\* Definitions come first, then events; what ends a stretch comes last.
InOrder(s) ==
  \A i \in DOMAIN s :
    /\ s[i].type = "StackBlock" => i = 1
    /\ s[i].type = "EventBlock" => \A j \in 1 .. i - 1 : s[j].type = "StackBlock"
    /\ s[i].type \in {"SPBlock", "End"} => i = Len(s)
    /\ s[i].type # "EventBlock" => s[i].events = <<>>

\* An event in hand refers to a stack of the generation it was taken in, and a
\* stack is not defined without one.
EventsOfNow ==
  /\ \A i \in DOMAIN events : events[i].type = "Sample" =>
       events[i].gen = gen /\ events[i].id \in 1 .. Len(defined)
  /\ written < Len(defined) => events # <<>>

\* A stack that was written is found, in the generation it was defined in, ...
WrittenFound == \A id \in 1 .. written : Get(Effective, id).gen = gen

\* ... and in the younger half of the table while that is about to turn over.
WrittenFresh == seen => \A id \in 1 .. written : Effective.current[id].gen = gen

\* After a sequence point ids start again.
StartsAgain ==
  /\ seen /\ ~HasIn("EventBlock", stream) => written = 0
  /\ HasIn("SPBlock", stream) => written = 0

\* What a block of events refers to is found.
StreamFound ==
  \A i \in DOMAIN stream : \A k \in DOMAIN stream[i].events :
    LET e == stream[i].events[k] IN
    e.type = "Sample" =>
      /\ Get(Effective, e.id).gen = e.gen
      /\ e.gen = IF HasIn("SPBlock", stream) THEN gen - 1 ELSE gen
      /\ ~HasIn("SPBlock", stream) => e.id \in 1 .. written

\* What is pending is found too, in its own generation or in the next, and is
\* of this generation or the one before; it is older only when it is about to
\* be resolved.
PendingFound ==
  \A i \in DOMAIN pending :
    LET p == pending[i] IN
    /\ Get(Effective, p.id).gen \in {p.gen, p.gen + 1}
    /\ \/ p.gen \in {gen, gen - 1}
       \/ p.gen = gen - 2 /\ seen /\ HasIn("EventBlock", stream)
    /\ p.gen = gen - 1 => seen \/ HasIn("SPBlock", stream)
    /\ p.gen = gen => p.id \in 1 .. written

TableInv ==
  /\ TypeInv
  /\ InOrder(stream)
  /\ EventsOfNow
  /\ WrittenFound
  /\ WrittenFresh
  /\ StartsAgain
  /\ StreamFound
  /\ PendingFound
  /\ NothingMissing
  /\ NoOlderStack

\* What is written, block by block.
LEMMA UnwrittenIs ==
  ASSUME TypeInv
  PROVE  /\ written < Len(defined) /\ events # <<>> => Unwritten = Append(<<StackBlock>>, EventBlock)
         /\ written < Len(defined) /\ events = <<>> => Unwritten = <<StackBlock>>
         /\ ~(written < Len(defined)) /\ events # <<>> => Unwritten = <<EventBlock>>
         /\ ~(written < Len(defined)) /\ events = <<>> => Unwritten = <<>>
<1>. DEFINE first == IF written < Len(defined) THEN <<StackBlock>> ELSE <<>>
            second == IF events # <<>> THEN <<EventBlock>> ELSE <<>>
<1>1. Unwritten = first \o second
  BY DEF Unwritten, EventBlock
<1>2. /\ <<StackBlock>> \o <<EventBlock>> = Append(<<StackBlock>>, EventBlock)
      /\ <<StackBlock>> \o <<>> = <<StackBlock>>
      /\ <<>> \o <<EventBlock>> = <<EventBlock>>
      /\ <<>> \o <<>> = <<>>
  OBVIOUS
<1>. QED  BY <1>1, <1>2

\* What a list of blocks may hold of what is in hand.
Holds(s) ==
  /\ InOrder(s)
  /\ HasIn("EventBlock", s) <=> events # <<>>
  /\ \A i \in DOMAIN s : s[i].events \in {<<>>, events}
  /\ After(table, s) = IF written < Len(defined)
                       THEN Define(table, written + 1, StackBlock.stacks) ELSE table

\* A flush writes stacks ahead of the events that use them, and no sequence point.
LEMMA UnwrittenHolds ==
  ASSUME TypeInv
  PROVE  Holds(Unwritten) /\ ~HasIn("SPBlock", Unwritten) /\ ~HasIn("End", Unwritten)
<1>1. CASE written < Len(defined) /\ events # <<>>
  <2>1. Unwritten = Append(<<StackBlock>>, EventBlock)
    BY <1>1, UnwrittenIs
  <2>2. /\ StackBlock.type = "StackBlock" /\ StackBlock.events = <<>>
        /\ StackBlock.first = written + 1
        /\ EventBlock.type = "EventBlock" /\ EventBlock.events = events
    BY <1>1, StackBlockType, EventBlockType
  <2>. DEFINE s == Append(<<StackBlock>>, EventBlock)
  <2>3. /\ DOMAIN s = {1, 2} /\ s[1] = StackBlock /\ s[2] = EventBlock /\ Head(s) = StackBlock
        /\ s # <<>> /\ Len(s) = 2
    OBVIOUS
  <2>. HIDE DEF s
  <2>4. InOrder(s)
    BY <2>2, <2>3 DEF InOrder
  <2>5. HasIn("EventBlock", s) /\ ~HasIn("SPBlock", s) /\ ~HasIn("End", s)
    BY <2>2, <2>3 DEF HasIn
  <2>6. \A i \in DOMAIN s : s[i].events \in {<<>>, events}
    BY <2>2, <2>3
  <2>7. After(table, s) = Define(table, written + 1, StackBlock.stacks)
    BY <2>2, <2>3 DEF After
  <2>8. Holds(s)
    BY <1>1, <2>4, <2>5, <2>6, <2>7 DEF Holds
  <2>. QED  BY <2>1, <2>5, <2>8 DEF s
<1>2. CASE written < Len(defined) /\ events = <<>>
  <2>1. Unwritten = <<StackBlock>>
    BY <1>2, UnwrittenIs
  <2>2. /\ StackBlock.type = "StackBlock" /\ StackBlock.events = <<>>
        /\ StackBlock.first = written + 1
    BY <1>2, StackBlockType
  <2>. DEFINE s == <<StackBlock>>
  <2>3. DOMAIN s = {1} /\ s[1] = StackBlock /\ Head(s) = StackBlock /\ s # <<>>
    OBVIOUS
  <2>. HIDE DEF s
  <2>. QED  BY <1>2, <2>1, <2>2, <2>3 DEF s, Holds, InOrder, HasIn, After
<1>3. CASE ~(written < Len(defined)) /\ events # <<>>
  <2>1. Unwritten = <<EventBlock>>
    BY <1>3, UnwrittenIs
  <2>2. EventBlock.type = "EventBlock" /\ EventBlock.events = events
    BY EventBlockType
  <2>. DEFINE s == <<EventBlock>>
  <2>3. DOMAIN s = {1} /\ s[1] = EventBlock /\ Head(s) = EventBlock /\ s # <<>>
    OBVIOUS
  <2>. HIDE DEF s
  <2>. QED  BY <1>3, <2>1, <2>2, <2>3 DEF s, Holds, InOrder, HasIn, After
<1>4. CASE ~(written < Len(defined)) /\ events = <<>>
  <2>1. Unwritten = <<>>
    BY <1>4, UnwrittenIs
  <2>. QED  BY <1>4, <2>1 DEF Holds, InOrder, HasIn, After
<1>. QED  BY <1>1, <1>2, <1>3, <1>4

\* The block that ends a stretch changes nothing but the end.
LEMMA EndedHolds ==
  ASSUME TypeInv, NEW type \in {"SPBlock", "End"}, NEW s, s = Unwritten \o <<EmptyBlock(type)>>
  PROVE  /\ Holds(s)
         /\ HasIn("SPBlock", s) <=> type = "SPBlock"
         /\ HasIn("End", s) <=> type = "End"
<1>. DEFINE u == Unwritten
            b == EmptyBlock(type)
            n == Len(u)
<1>1. u \in Seq(ProperBlock) /\ n \in Nat
  BY UnwrittenType
<1>2. b.type = type /\ b.events = <<>>
  BY DEF EmptyBlock
<1>3. Holds(u) /\ ~HasIn("SPBlock", u) /\ ~HasIn("End", u)
  BY UnwrittenHolds
<1>. HIDE DEF u, b
<1>4. /\ DOMAIN s = 1 .. n + 1 /\ Len(s) = n + 1 /\ s[n + 1] = b
      /\ DOMAIN u = 1 .. n
      /\ \A i \in 1 .. n : s[i] = u[i]
      /\ s # <<>> /\ (u # <<>> => Head(s) = Head(u)) /\ (u = <<>> => Head(s) = b)
  BY <1>1 DEF u, b
<1>. HIDE DEF n
<1>5. ASSUME NEW kind PROVE HasIn(kind, s) <=> HasIn(kind, u) \/ type = kind
  <2>1. 1 .. n + 1 = (1 .. n) \cup {n + 1}
    BY <1>1
  <2>. QED  BY <1>2, <1>4, <2>1 DEF HasIn
<1>6. InOrder(s)
  <2>1. ASSUME NEW i \in 1 .. n, s[i].type = "EventBlock", NEW j \in 1 .. i - 1
        PROVE  s[j].type = "StackBlock"
    <3>1. j \in 1 .. n
      BY <1>1
    <3>2. u[i].type = "EventBlock" /\ s[j] = u[j] /\ i \in DOMAIN u
      BY <1>4, <2>1, <3>1
    <3>3. InOrder(u)
      BY <1>3 DEF Holds
    <3>. QED  BY <3>2, <3>3 DEF InOrder
  <2>2. ASSUME NEW i \in 1 .. n
        PROVE  /\ s[i].type = "StackBlock" => i = 1
               /\ s[i].type \notin {"SPBlock", "End"}
               /\ s[i].type # "EventBlock" => s[i].events = <<>>
    <3>1. s[i] = u[i] /\ i \in DOMAIN u
      BY <1>4
    <3>2. InOrder(u)
      BY <1>3 DEF Holds
    <3>3. /\ u[i].type = "StackBlock" => i = 1
          /\ u[i].type # "EventBlock" => u[i].events = <<>>
      BY <3>1, <3>2 DEF InOrder
    <3>4. u[i].type # "SPBlock" /\ u[i].type # "End"
      BY <1>3, <3>1 DEF HasIn
    <3>. QED  BY <3>1, <3>3, <3>4
  <2>3. 1 .. n + 1 = (1 .. n) \cup {n + 1}
    BY <1>1
  <2>. QED  BY <1>2, <1>4, <2>1, <2>2, <2>3 DEF InOrder
<1>7. \A i \in DOMAIN s : s[i].events \in {<<>>, events}
  <2>1. 1 .. n + 1 = (1 .. n) \cup {n + 1}
    BY <1>1
  <2>. QED  BY <1>2, <1>3, <1>4, <2>1 DEF Holds
<1>8. After(table, s) = After(table, u)
  BY <1>2, <1>4 DEF After
<1>. QED  BY <1>3, <1>5, <1>6, <1>7, <1>8 DEF Holds

\* A definition with a generation is a definition.
LEMMA GetGen ==
  ASSUME NEW t, NEW id
  PROVE  /\ t.current[id].gen > 0 => Get(t, id) = t.current[id]
         /\ Get(t, id).gen > 0 => Get(t, id) # NoStack
BY DEF Get, NoStack

\* The table once the stacks in hand are in it: each is found in its own
\* generation, and what is pending still is.
LEMMA WrittenTable ==
  ASSUME TableInv, stream = <<>>,
         NEW T, T = IF written < Len(defined)
                    THEN Define(table, written + 1, StackBlock.stacks) ELSE table
  PROVE  /\ \A id \in 1 .. Len(defined) : Get(T, id).gen = gen
         /\ seen => \A id \in 1 .. Len(defined) : T.current[id].gen = gen
         /\ \A i \in DOMAIN pending : Get(T, pending[i].id).gen \in {pending[i].gen, pending[i].gen + 1}
<1>0. /\ table \in StackTable /\ gen \in Nat /\ gen > 0 /\ Effective = table
      /\ written \in Nat /\ Len(defined) \in Nat /\ written <= Len(defined)
      /\ \A id \in 1 .. Len(defined) : id \in StackIds
  BY CollectAssumption, ProfileAssumption
  DEF TableInv, TypeInv, TypeOK, Effective, After, StackIds
<1>1. \A i \in DOMAIN pending : pending[i].id \in StackIds /\ pending[i].gen \in Nat
  <2>1. ASSUME NEW i \in DOMAIN pending PROVE pending[i] \in ProperSample
    BY DEF TableInv, TypeInv
  <2>. QED  BY <2>1 DEF ProperSample, Proper, Event
<1>2. /\ T.previous = table.previous
      /\ \A id \in StackIds :
           IF id \in written + 1 .. Len(defined) THEN T.current[id].gen = gen
           ELSE T.current[id] = table.current[id]
  <2>1. CASE ~(written < Len(defined))
    BY <1>0, <2>1
  <2>2. CASE written < Len(defined)
    <3>. DEFINE b == StackBlock
                stacks == StackBlock.stacks
    <3>1. /\ b \in Block /\ b.first = written + 1
          /\ Len(stacks) = Len(defined) - written
          /\ \A i \in 1 .. Len(defined) - written : stacks[i].gen = gen
      <4>1. /\ StackBlock \in ProperBlock /\ StackBlock.first = written + 1
            /\ Len(StackBlock.stacks) = Len(defined) - written
            /\ \A i \in 1 .. Len(defined) - written :
                 StackBlock.stacks[i] = [gen |-> gen, frames |-> defined[written + i]]
        BY <2>2, StackBlockType DEF TableInv
      <4>2. ASSUME NEW i \in 1 .. Len(defined) - written PROVE stacks[i].gen = gen
        <5>1. stacks[i] = [gen |-> gen, frames |-> defined[written + i]]
          BY <4>1
        <5>. QED  BY <5>1
      <4>. QED  BY <4>1, <4>2 DEF ProperBlock
    <3>. HIDE DEF b
    <3>2. /\ Define(table, b.first, b.stacks).previous = table.previous
          /\ \A id \in StackIds : Define(table, b.first, b.stacks).current[id] =
               IF id \in b.first .. b.first + Len(b.stacks) - 1 THEN b.stacks[id - b.first + 1]
               ELSE table.current[id]
      BY <1>0, <3>1, DefineType
    <3>3. T = Define(table, b.first, b.stacks) /\ b.stacks = stacks
      BY <2>2, <3>1 DEF b
    <3>. HIDE DEF stacks
    <3>4. b.first .. b.first + Len(b.stacks) - 1 = written + 1 .. Len(defined)
      <4>1. b.first = written + 1 /\ Len(b.stacks) = Len(defined) - written
        BY <3>1, <3>3, Zenon
      <4>2. (written + 1) + (Len(defined) - written) - 1 = Len(defined)
        BY <1>0
      <4>. QED  BY <4>1, <4>2, Zenon
    <3>5. \A id \in StackIds : T.current[id] =
            IF id \in written + 1 .. Len(defined) THEN stacks[id - written] ELSE table.current[id]
      <4>1. ASSUME NEW id \in StackIds PROVE id - (written + 1) + 1 = id - written
        BY <1>0 DEF StackIds
      <4>. QED  BY <3>1, <3>2, <3>3, <3>4, <4>1
    <3>6. ASSUME NEW id \in written + 1 .. Len(defined) PROVE stacks[id - written].gen = gen
      <4>1. id - written \in 1 .. Len(defined) - written
        BY <1>0
      <4>. QED  BY <3>1, <4>1
    <3>. QED  BY <3>2, <3>3, <3>5, <3>6
  <2>. QED  BY <2>1, <2>2
<1>3. ASSUME NEW id \in StackIds
      PROVE  IF id \in written + 1 .. Len(defined) THEN Get(T, id).gen = gen
             ELSE Get(T, id) = Get(table, id)
  BY <1>0, <1>2, GetGen DEF Get
<1>4. ASSUME NEW id \in 1 .. Len(defined) PROVE id \in 1 .. written \/ id \in written + 1 .. Len(defined)
  BY <1>0
<1>5. ASSUME NEW id \in 1 .. written PROVE id \notin written + 1 .. Len(defined) /\ id \in 1 .. Len(defined)
  BY <1>0
<1>6. \A id \in 1 .. Len(defined) : Get(T, id).gen = gen
  BY <1>0, <1>3, <1>4, <1>5 DEF TableInv, WrittenFound
<1>7. seen => \A id \in 1 .. Len(defined) : T.current[id].gen = gen
  BY <1>0, <1>2, <1>4, <1>5 DEF TableInv, WrittenFresh
<1>8. ASSUME NEW i \in DOMAIN pending
      PROVE  Get(T, pending[i].id).gen \in {pending[i].gen, pending[i].gen + 1}
  <2>. DEFINE p == pending[i]
  <2>1. /\ Get(table, p.id).gen \in {p.gen, p.gen + 1} /\ p.gen \in {gen, gen - 1}
        /\ p.gen = gen => p.id \in 1 .. written
    BY <1>0 DEF TableInv, PendingFound, HasIn
  <2>2. p.id \in StackIds /\ p.gen \in Nat
    BY <1>1
  <2>. HIDE DEF p
  <2>3. CASE p.id \in written + 1 .. Len(defined)
    <3>1. Get(T, p.id).gen = gen /\ p.gen # gen
      BY <1>3, <1>5, <2>1, <2>2, <2>3
    <3>. QED  BY <1>0, <2>1, <2>2, <3>1 DEF p
  <2>4. CASE p.id \notin written + 1 .. Len(defined)
    BY <1>3, <2>1, <2>2, <2>4 DEF p
  <2>. QED  BY <2>3, <2>4
<1>. QED  BY <1>6, <1>7, <1>8

\* What is known of an event in hand.
LEMMA EventInHand ==
  ASSUME TableInv, NEW k \in DOMAIN events, events[k].type = "Sample"
  PROVE  events[k].gen = gen /\ events[k].id \in 1 .. Len(defined)
BY DEF TableInv, EventsOfNow

\* Writing what is in hand, and no sequence point: flushed, or at the end.
LEMMA WriteKeepsTable ==
  ASSUME TableInv, TypeInv', stream = <<>>, Holds(stream'), ~HasIn("SPBlock", stream'),
         written' = Len(defined), events' = <<>>,
         written < Len(defined) => events # <<>>,
         UNCHANGED <<gen, defined, collectorVars>>
  PROVE  TableInv'
<1>. DEFINE T == IF written < Len(defined)
                 THEN Define(table, written + 1, StackBlock.stacks) ELSE table
<1>0. /\ UNCHANGED <<table, seen, pending, resolved>> /\ Effective' = T
      /\ Effective' = After(table', stream') /\ gen \in Nat /\ gen > 0
      /\ written \in Nat /\ Len(defined) \in Nat /\ written <= Len(defined)
  BY CollectAssumption DEF collectorVars, Holds, Effective, TableInv, TypeInv, TypeOK
<1>1. /\ \A id \in 1 .. Len(defined) : Get(T, id).gen = gen
      /\ seen => \A id \in 1 .. Len(defined) : T.current[id].gen = gen
      /\ \A i \in DOMAIN pending : Get(T, pending[i].id).gen \in {pending[i].gen, pending[i].gen + 1}
  <2>. HIDE DEF T
  <2>. QED  BY WrittenTable DEF T
<1>. HIDE DEF T
<1>2. InOrder(stream')
  BY DEF Holds
<1>3. EventsOfNow'
  BY <1>0 DEF EventsOfNow
<1>4. WrittenFound' /\ WrittenFresh'
  BY <1>0, <1>1 DEF WrittenFound, WrittenFresh
<1>5. StartsAgain'
  <2>1. ASSUME seen, ~HasIn("EventBlock", stream') PROVE written' = 0
    <3>1. written' = written
      BY <1>0, <2>1 DEF Holds
    <3>2. written = 0
      BY <2>1 DEF TableInv, StartsAgain, HasIn
    <3>. QED  BY <3>1, <3>2
  <2>. QED  BY <1>0, <2>1 DEF StartsAgain
<1>6. StreamFound'
  <2>. SUFFICES ASSUME NEW i \in DOMAIN stream', NEW k \in DOMAIN stream'[i].events,
                       stream'[i].events[k].type = "Sample"
                PROVE  /\ Get(Effective', stream'[i].events[k].id).gen = stream'[i].events[k].gen
                       /\ stream'[i].events[k].gen = gen
                       /\ stream'[i].events[k].id \in 1 .. Len(defined)
    BY DEF StreamFound
  <2>1. stream'[i].events = events
    BY DEF Holds
  <2>2. events[k].gen = gen /\ events[k].id \in 1 .. Len(defined)
    BY <2>1, EventInHand
  <2>. QED  BY <1>0, <1>1, <2>1, <2>2
<1>7. PendingFound'
  <2>. SUFFICES ASSUME NEW i \in DOMAIN pending
                PROVE  /\ Get(T, pending[i].id).gen \in {pending[i].gen, pending[i].gen + 1}
                       /\ pending[i].gen \in {gen, gen - 1}
                       /\ pending[i].gen = gen - 1 => seen
                       /\ pending[i].gen = gen => pending[i].id \in 1 .. Len(defined)
    BY <1>0 DEF PendingFound
  <2>1. /\ pending[i].gen \in {gen, gen - 1}
        /\ pending[i].gen = gen - 1 => seen
        /\ pending[i].gen = gen => pending[i].id \in 1 .. written
    BY DEF TableInv, PendingFound, HasIn
  <2>. QED  BY <1>0, <1>1, <2>1
<1>8. NothingMissing' /\ NoOlderStack'
  BY <1>0 DEF NothingMissing, NoOlderStack, TableInv
<1>. QED  BY <1>2, <1>3, <1>4, <1>5, <1>6, <1>7, <1>8 DEF TableInv

\* A flush keeps what the stack table is relied on for.
LEMMA FlushKeepsTable ==
  ASSUME TableInv, Flush
  PROVE  TableInv'
<1>1. TypeInv'
  BY FlushTypes DEF TableInv
<1>2. stream = <<>> /\ stream' = Unwritten /\ Holds(stream') /\ ~HasIn("SPBlock", stream')
  BY UnwrittenHolds DEF Flush, Parsing, TableInv
<1>3. /\ written' = Len(defined) /\ events' = <<>> /\ events # <<>>
      /\ UNCHANGED <<gen, defined, collectorVars>>
  BY DEF Flush
<1>. QED  BY <1>1, <1>2, <1>3, WriteKeepsTable

\* The end of the stream keeps what the stack table is relied on for.
LEMMA CloseStreamKeepsTable ==
  ASSUME TableInv, CloseStream
  PROVE  TableInv'
<1>1. TypeInv'
  BY CloseStreamTypes DEF TableInv
<1>2. stream = <<>> /\ Holds(stream') /\ ~HasIn("SPBlock", stream')
  BY EndedHolds DEF CloseStream, Parsing, TableInv
<1>3. /\ written' = Len(defined) /\ events' = <<>>
      /\ UNCHANGED <<gen, defined, collectorVars>>
  BY DEF CloseStream
<1>4. written < Len(defined) => events # <<>>
  BY DEF TableInv, EventsOfNow
<1>. QED  BY <1>1, <1>2, <1>3, <1>4, WriteKeepsTable

\* A sequence point: what was written out is of the generation before.
LEMMA SequencePointKeepsTable ==
  ASSUME TableInv, SequencePoint
  PROVE  TableInv'
<1>. DEFINE T == IF written < Len(defined)
                 THEN Define(table, written + 1, StackBlock.stacks) ELSE table
<1>1. TypeInv'
  BY SequencePointTypes DEF TableInv
<1>2. stream = <<>> /\ Holds(stream') /\ HasIn("SPBlock", stream')
  BY EndedHolds DEF SequencePoint, Parsing, TableInv
<1>3. /\ gen' = (IF defined = <<>> THEN gen ELSE gen + 1)
      /\ defined' = <<>> /\ written' = 0 /\ events' = <<>> /\ UNCHANGED collectorVars
  BY DEF SequencePoint
<1>0. /\ UNCHANGED <<table, seen, pending, resolved>> /\ Effective' = T
      /\ Effective' = After(table', stream') /\ gen \in Nat /\ gen > 0
      /\ written \in Nat /\ Len(defined) \in Nat /\ written <= Len(defined)
      /\ defined = <<>> <=> Len(defined) = 0
  BY <1>2, <1>3, CollectAssumption DEF collectorVars, Holds, Effective, TableInv, TypeInv, TypeOK
<1>4. /\ \A id \in 1 .. Len(defined) : Get(T, id).gen = gen
      /\ \A i \in DOMAIN pending : Get(T, pending[i].id).gen \in {pending[i].gen, pending[i].gen + 1}
  <2>. HIDE DEF T
  <2>. QED  BY <1>2, WrittenTable DEF T
<1>. HIDE DEF T
<1>5. InOrder(stream') /\ EventsOfNow'
  BY <1>2, <1>3 DEF Holds, EventsOfNow
<1>6. WrittenFound' /\ WrittenFresh' /\ StartsAgain'
  BY <1>2, <1>3 DEF WrittenFound, WrittenFresh, StartsAgain
<1>7. StreamFound'
  <2>. SUFFICES ASSUME NEW i \in DOMAIN stream', NEW k \in DOMAIN stream'[i].events,
                       stream'[i].events[k].type = "Sample"
                PROVE  /\ Get(Effective', stream'[i].events[k].id).gen = stream'[i].events[k].gen
                       /\ stream'[i].events[k].gen = gen' - 1
    BY <1>2 DEF StreamFound
  <2>1. stream'[i].events = events
    BY <1>2 DEF Holds
  <2>2. events[k].gen = gen /\ events[k].id \in 1 .. Len(defined)
    BY <2>1, EventInHand
  <2>3. gen' = gen + 1
    BY <1>0, <1>3, <2>2
  <2>. QED  BY <1>0, <1>4, <2>1, <2>2, <2>3
<1>8. PendingFound'
  <2>. SUFFICES ASSUME NEW i \in DOMAIN pending
                PROVE  /\ Get(T, pending[i].id).gen \in {pending[i].gen, pending[i].gen + 1}
                       /\ \/ pending[i].gen \in {gen', gen' - 1}
                          \/ pending[i].gen = gen' - 2 /\ seen /\ HasIn("EventBlock", stream')
                       /\ pending[i].gen = gen' => pending[i].id \in 1 .. written'
    BY <1>0, <1>2 DEF PendingFound
  <2>1. /\ pending[i].gen \in {gen, gen - 1}
        /\ pending[i].gen = gen - 1 => seen
        /\ pending[i].gen = gen => pending[i].id \in 1 .. written
    BY <1>2 DEF TableInv, PendingFound, HasIn
  <2>2. CASE defined = <<>>
    BY <1>0, <1>3, <1>4, <2>1, <2>2
  <2>3. CASE defined # <<>>
    <3>1. gen' = gen + 1
      BY <1>3, <2>3
    <3>2. pending[i].gen = gen - 1 => HasIn("EventBlock", stream')
      <4>1. ASSUME seen, events = <<>> PROVE FALSE
        <5>1. ~(written < Len(defined))
          BY <4>1 DEF TableInv, EventsOfNow
        <5>2. written = 0
          BY <1>2, <4>1 DEF TableInv, StartsAgain, HasIn
        <5>. QED  BY <1>0, <2>3, <5>1, <5>2
      <4>. QED  BY <1>2, <2>1, <4>1 DEF Holds
    <3>. QED  BY <1>0, <1>4, <2>1, <3>1, <3>2
  <2>. QED  BY <2>2, <2>3
<1>9. NothingMissing' /\ NoOlderStack'
  BY <1>0 DEF NothingMissing, NoOlderStack, TableInv
<1>. QED  BY <1>1, <1>5, <1>6, <1>7, <1>8, <1>9 DEF TableInv

\* Between writes the runtime only takes events in hand.
LEMMA InHandKeepsTable ==
  ASSUME TableInv, TypeInv', EventsOfNow', UNCHANGED <<gen, written, stream, collectorVars>>
  PROVE  TableInv'
<1>1. UNCHANGED <<table, seen, pending, resolved>> /\ Effective' = Effective
  BY DEF collectorVars, Effective
<1>. HIDE DEF Effective
<1>. QED  BY <1>1 DEF TableInv, InOrder, WrittenFound, WrittenFresh, StartsAgain, StreamFound,
                      PendingFound, NothingMissing, NoOlderStack, Effective

\* A sample taken keeps what the stack table is relied on for.
LEMMA SampleKeepsTable ==
  ASSUME TableInv, NEW f \in Stacks, NEW failed \in BOOLEAN, Sample(f, failed)
  PROVE  TableInv'
<1>1. TypeInv'
  BY SampleTypes DEF TableInv
<1>2. UNCHANGED <<gen, written, stream, collectorVars>>
  BY DEF Sample
<1>3. \E id \in 1 .. Len(defined') : /\ events' = Append(events, SampleEvent(id, f, failed))
                                     /\ Len(defined) <= Len(defined')
  <2>0. defined \in Seq(Stacks)
    BY DEF TableInv, TypeInv, TypeOK
  <2>1. CASE \E id \in DOMAIN defined :
               /\ defined[id] = f
               /\ events' = Append(events, SampleEvent(id, f, failed))
               /\ UNCHANGED defined
    BY <2>0, <2>1
  <2>2. CASE /\ f \notin Range(defined) /\ Len(defined) < MaxStacks
             /\ defined' = Append(defined, f)
             /\ events' = Append(events, SampleEvent(Len(defined) + 1, f, failed))
    BY <2>0, <2>2
  <2>. QED  BY <2>1, <2>2 DEF Sample
<1>4. PICK id \in 1 .. Len(defined') : /\ events' = Append(events, SampleEvent(id, f, failed))
                                       /\ Len(defined) <= Len(defined')
  BY <1>3
<1>5. SampleEvent(id, f, failed).gen = gen /\ SampleEvent(id, f, failed).id = id
  BY DEF SampleEvent
<1>6. EventsOfNow'
  <2>0. events \in Seq(Proper) /\ Len(defined) \in Nat /\ Len(defined') \in Nat
    BY <1>1 DEF TableInv, TypeInv, TypeOK
  <2>. DEFINE n == Len(events)
              e == SampleEvent(id, f, failed)
  <2>. HIDE DEF e
  <2>1. /\ DOMAIN events = 1 .. n /\ DOMAIN events' = 1 .. n + 1 /\ n \in Nat
        /\ events'[n + 1] = e /\ \A i \in 1 .. n : events'[i] = events[i]
        /\ events' # <<>>
    BY <1>4, <2>0 DEF e
  <2>2. ASSUME NEW i \in 1 .. n + 1, events'[i].type = "Sample"
        PROVE  events'[i].gen = gen /\ events'[i].id \in 1 .. Len(defined')
    <3>1. CASE i = n + 1
      BY <1>4, <1>5, <2>1, <3>1 DEF e
    <3>2. CASE i \in 1 .. n
      <4>1. events[i].gen = gen /\ events[i].id \in 1 .. Len(defined)
        BY <2>1, <2>2, <3>2, EventInHand
      <4>. QED  BY <1>4, <2>0, <2>1, <3>2, <4>1
    <3>. QED  BY <2>1, <3>1, <3>2
  <2>. QED  BY <1>2, <2>1, <2>2 DEF EventsOfNow
<1>. QED  BY <1>1, <1>2, <1>6, InHandKeepsTable

\* Events of methods refer to no stack.
LEMMA MethodsKeepTable ==
  ASSUME TableInv, TypeInv', UNCHANGED <<gen, defined, written, stream, collectorVars>>,
         NEW rest \in Seq(Proper), events' = events \o rest,
         \A i \in DOMAIN rest : rest[i].type = "Method"
  PROVE  TableInv'
<1>. DEFINE n == Len(events)
<1>1. events \in Seq(Proper)
  BY DEF TableInv, TypeInv
<1>2. /\ n \in Nat /\ DOMAIN events = 1 .. n /\ DOMAIN events' = 1 .. n + Len(rest)
      /\ \A i \in 1 .. n : events'[i] = events[i]
      /\ \A i \in 1 .. Len(rest) : events'[n + i] = rest[i]
      /\ events # <<>> => events' # <<>>
  BY <1>1
<1>3. ASSUME NEW i \in 1 .. n + Len(rest), events'[i].type = "Sample" PROVE i \in 1 .. n
  <2>1. CASE i > n
    <3>1. i - n \in 1 .. Len(rest) /\ i = n + (i - n)
      BY <1>2, <2>1
    <3>2. events'[i] = rest[i - n]
      BY <1>2, <3>1
    <3>. QED  BY <1>3, <3>1, <3>2
  <2>. QED  BY <1>2, <2>1
<1>4. EventsOfNow'
  <2>1. ASSUME NEW i \in DOMAIN events', events'[i].type = "Sample"
        PROVE  events'[i].gen = gen' /\ events'[i].id \in 1 .. Len(defined')
    <3>1. i \in 1 .. n /\ events'[i] = events[i]
      BY <1>2, <1>3, <2>1
    <3>2. events[i].gen = gen /\ events[i].id \in 1 .. Len(defined)
      BY <1>2, <2>1, <3>1, EventInHand
    <3>. QED  BY <3>1, <3>2
  <2>2. written < Len(defined) => events' # <<>>
    BY <1>2 DEF TableInv, EventsOfNow
  <2>. QED  BY <2>1, <2>2 DEF EventsOfNow
<1>. QED  BY <1>4, InHandKeepsTable

\* A method compiled keeps what the stack table is relied on for.
LEMMA JitKeepsTable ==
  ASSUME TableInv, NEW m \in Jitted, Jit(m)
  PROVE  TableInv'
<1>1. TypeInv'
  BY JitTypes DEF TableInv
<1>2. MethodEvent(m) \in Proper /\ MethodEvent(m).type = "Method"
  BY MethodEventType, CollectAssumption
<1>3. events' = events \o <<MethodEvent(m)>>
  BY DEF Jit, TableInv, TypeInv
<1>4. UNCHANGED <<gen, defined, written, stream, collectorVars>>
  BY DEF Jit
<1>5. <<MethodEvent(m)>> \in Seq(Proper) /\ \A i \in DOMAIN <<MethodEvent(m)>> : <<MethodEvent(m)>>[i].type = "Method"
  BY <1>2
<1>. QED  BY <1>1, <1>3, <1>4, <1>5, MethodsKeepTable

\* The rundown keeps what the stack table is relied on for.
LEMMA RundownKeepsTable ==
  ASSUME TableInv, Rundown
  PROVE  TableInv'
<1>1. TypeInv'
  BY RundownTypes DEF TableInv
<1>2. PICK all \in Seq(Proper) : /\ events' = events \o all
                                 /\ \A i \in DOMAIN all : all[i].type = "Method"
  BY RundownEvents
<1>3. UNCHANGED <<gen, defined, written, stream, collectorVars>>
  BY DEF Rundown
<1>. QED  BY <1>1, <1>2, <1>3, MethodsKeepTable

\* A stop keeps what the stack table is relied on for.
LEMMA StopKeepsTable ==
  ASSUME TableInv, Stop
  PROVE  TableInv'
<1>1. TypeInv'
  BY StopTypes DEF TableInv
<1>2. UNCHANGED <<gen, defined, written, events, stream, collectorVars>>
  BY DEF Stop
<1>3. EventsOfNow'
  BY <1>2 DEF TableInv, EventsOfNow
<1>. QED  BY <1>1, <1>2, <1>3, InHandKeepsTable

\* What is left of the stream when its first block is parsed.
LEMMA RestOfStream ==
  ASSUME TableInv, Parsing, Parsed
  PROVE  /\ InOrder(stream')
         /\ \A type : HasIn(type, stream) <=> Head(stream).type = type \/ HasIn(type, stream')
         /\ Head(stream).type # "StackBlock" => Effective = table
         /\ \A t : After(t, stream') = t
         /\ Head(stream).type \in {"EventBlock", "SPBlock", "End"} =>
              \A i \in DOMAIN stream' : stream'[i].events = <<>> /\ stream'[i].type # "EventBlock"
         /\ Head(stream).type \in {"SPBlock", "End"} => stream' = <<>>
         /\ \A i \in DOMAIN stream' : i + 1 \in DOMAIN stream /\ stream'[i] = stream[i + 1]
<1>. DEFINE n == Len(stream)
<1>0. stream \in Seq(ProperBlock) /\ stream # <<>> /\ stream' = Tail(stream)
  BY DEF TableInv, TypeInv, Parsing, Parsed
<1>1. /\ n \in Nat /\ n > 0 /\ DOMAIN stream = 1 .. n /\ Head(stream) = stream[1]
      /\ DOMAIN stream' = 1 .. n - 1 /\ Len(stream') = n - 1
      /\ \A i \in 1 .. n - 1 : stream'[i] = stream[i + 1]
      /\ n = 1 => stream' = <<>>
  BY <1>0
<1>2. \A i \in 1 .. n : stream[i].type \in {"EventBlock", "StackBlock", "SPBlock", "End"}
  <2>1. ASSUME NEW i \in 1 .. n PROVE stream[i] \in Block
    BY <1>0, <1>1 DEF ProperBlock
  <2>. QED  BY <2>1 DEF Block
<1>3. \A i \in 1 .. n :
        /\ stream[i].type = "StackBlock" => i = 1
        /\ stream[i].type = "EventBlock" => \A j \in 1 .. i - 1 : stream[j].type = "StackBlock"
        /\ stream[i].type \in {"SPBlock", "End"} => i = n
        /\ stream[i].type # "EventBlock" => stream[i].events = <<>>
  BY <1>1 DEF TableInv, InOrder
<1>. HIDE DEF n
<1>4. \A i \in 1 .. n - 1 : i + 1 \in 1 .. n /\ stream'[i] = stream[i + 1] /\ i + 1 # 1
  BY <1>1
<1>5. \A i \in 1 .. n - 1 : stream'[i].type # "StackBlock"
  BY <1>3, <1>4
<1>6. InOrder(stream')
  <2>1. ASSUME NEW i \in 1 .. n - 1, stream'[i].type = "EventBlock", NEW j \in 1 .. i - 1 PROVE FALSE
    <3>1. j + 1 \in 1 .. (i + 1) - 1 /\ j \in 1 .. n - 1
      BY <1>1
    <3>2. stream[j + 1].type = "StackBlock"
      BY <1>3, <1>4, <2>1, <3>1
    <3>. QED  BY <1>3, <1>4, <3>1, <3>2
  <2>2. ASSUME NEW i \in 1 .. n - 1
        PROVE  /\ stream'[i].type \in {"SPBlock", "End"} => i = n - 1
               /\ stream'[i].type # "EventBlock" => stream'[i].events = <<>>
    BY <1>1, <1>3, <1>4
  <2>. QED  BY <1>1, <1>5, <2>1, <2>2 DEF InOrder
<1>7. ASSUME NEW type PROVE HasIn(type, stream) <=> Head(stream).type = type \/ HasIn(type, stream')
  <2>1. \A i \in 1 .. n : i = 1 \/ (i - 1 \in 1 .. n - 1 /\ stream[i] = stream'[i - 1])
    BY <1>1
  <2>2. ASSUME HasIn(type, stream) PROVE Head(stream).type = type \/ HasIn(type, stream')
    <3>1. PICK i \in 1 .. n : stream[i].type = type
      BY <1>1, <2>2 DEF HasIn
    <3>2. i = 1 \/ (i - 1 \in DOMAIN stream' /\ stream[i] = stream'[i - 1])
      BY <1>1, <2>1
    <3>. QED  BY <1>1, <3>1, <3>2 DEF HasIn
  <2>3. Head(stream).type = type => HasIn(type, stream)
    <3>1. 1 \in DOMAIN stream
      BY <1>1
    <3>. QED  BY <1>1, <3>1 DEF HasIn
  <2>4. HasIn(type, stream') => HasIn(type, stream)
    BY <1>1, <1>4 DEF HasIn
  <2>. QED  BY <2>2, <2>3, <2>4
<1>8. Head(stream).type # "StackBlock" => Effective = table
  BY DEF Effective, After
<1>9. ASSUME NEW t PROVE After(t, stream') = t
  <2>1. CASE stream' = <<>>
    BY <2>1 DEF After
  <2>2. CASE stream' # <<>>
    <3>1. 1 \in 1 .. n - 1 /\ Head(stream') = stream'[1]
      BY <1>0, <1>1, <2>2
    <3>. QED  BY <1>5, <3>1 DEF After
  <2>. QED  BY <2>1, <2>2
<1>10. ASSUME Head(stream).type \in {"EventBlock", "SPBlock", "End"}, NEW i \in 1 .. n - 1
       PROVE  stream'[i].events = <<>> /\ stream'[i].type # "EventBlock"
  <2>1. stream[i + 1].type # "EventBlock"
    <3>1. 1 \in 1 .. (i + 1) - 1 /\ i + 1 \in 1 .. n
      BY <1>1
    <3>. QED  BY <1>1, <1>3, <1>10, <3>1
  <2>. QED  BY <1>3, <1>4, <2>1
<1>11. Head(stream).type \in {"SPBlock", "End"} => stream' = <<>>
  <2>1. 1 \in 1 .. n
    BY <1>1
  <2>. QED  BY <1>1, <1>3, <2>1
<1>. QED  BY <1>1, <1>4, <1>6, <1>7, <1>8, <1>9, <1>10, <1>11

\* Reading a stack block keeps what the stack table is relied on for.
LEMMA ParseStacksKeepsTable ==
  ASSUME TableInv, ParseStacks
  PROVE  TableInv'
<1>0. Parsing /\ Parsed /\ Head(stream).type = "StackBlock"
  BY DEF ParseStacks, IsBlock
<1>1. TypeInv'
  BY ParseStacksTypes DEF TableInv
<1>2. /\ table' = Effective /\ Effective' = After(table', stream')
      /\ UNCHANGED <<seen, pending, resolved, runtimeVars>>
  BY <1>0 DEF ParseStacks, Parsing, Parsed, Effective, After
<1>3. /\ Effective' = Effective /\ InOrder(stream')
      /\ HasIn("EventBlock", stream) <=> HasIn("EventBlock", stream')
      /\ HasIn("SPBlock", stream) <=> HasIn("SPBlock", stream')
      /\ \A i \in DOMAIN stream' : i + 1 \in DOMAIN stream /\ stream'[i] = stream[i + 1]
  BY <1>0, <1>2, RestOfStream
<1>. HIDE DEF Effective
<1>4. EventsOfNow' /\ WrittenFound' /\ WrittenFresh' /\ StartsAgain'
  BY <1>2, <1>3 DEF TableInv, EventsOfNow, WrittenFound, WrittenFresh, StartsAgain, runtimeVars
<1>5. StreamFound'
  BY <1>2, <1>3 DEF TableInv, StreamFound, runtimeVars
<1>6. PendingFound'
  BY <1>2, <1>3 DEF TableInv, PendingFound, runtimeVars
<1>7. NothingMissing' /\ NoOlderStack'
  BY <1>2 DEF TableInv, NothingMissing, NoOlderStack
<1>. QED  BY <1>1, <1>3, <1>4, <1>5, <1>6, <1>7 DEF TableInv

\* Reading a sequence point keeps what the stack table is relied on for.
LEMMA ParseSequencePointKeepsTable ==
  ASSUME TableInv, ParseSequencePoint
  PROVE  TableInv'
<1>0. Parsing /\ Parsed /\ Head(stream).type = "SPBlock"
  BY DEF ParseSequencePoint, IsBlock
<1>1. TypeInv'
  BY ParseSequencePointTypes DEF TableInv
<1>2. /\ seen' = TRUE /\ Effective' = After(table', stream')
      /\ UNCHANGED <<table, pending, resolved, runtimeVars>>
  BY <1>0 DEF ParseSequencePoint, Parsed, Effective
<1>3. /\ stream' = <<>> /\ Effective = table /\ Effective' = Effective /\ InOrder(stream')
      /\ HasIn("SPBlock", stream) /\ ~HasIn("EventBlock", stream)
      /\ ~HasIn("SPBlock", stream') /\ ~HasIn("EventBlock", stream')
  <2>1. stream' = <<>> /\ InOrder(stream')
    BY <1>0, RestOfStream
  <2>2. Effective = table /\ After(table', stream') = table'
    BY <1>0, RestOfStream
  <2>3. \A type : ~HasIn(type, stream')
    BY <2>1 DEF HasIn
  <2>4. \A type : HasIn(type, stream) <=> Head(stream).type = type \/ HasIn(type, stream')
    BY <1>0, RestOfStream
  <2>5. HasIn("SPBlock", stream) /\ ~HasIn("EventBlock", stream)
    BY <1>0, <2>3, <2>4
  <2>. HIDE DEF Effective
  <2>. QED  BY <1>2, <2>1, <2>2, <2>3, <2>5
<1>. HIDE DEF Effective
<1>4. written = 0
  BY <1>3 DEF TableInv, StartsAgain
<1>5. EventsOfNow' /\ WrittenFound' /\ WrittenFresh' /\ StartsAgain'
  BY <1>2, <1>3, <1>4 DEF TableInv, EventsOfNow, WrittenFound, WrittenFresh, StartsAgain, runtimeVars
<1>6. StreamFound'
  BY <1>3 DEF StreamFound
<1>7. PendingFound'
  BY <1>2, <1>3 DEF TableInv, PendingFound, runtimeVars
<1>8. NothingMissing' /\ NoOlderStack'
  BY <1>2 DEF TableInv, NothingMissing, NoOlderStack
<1>. QED  BY <1>1, <1>3, <1>5, <1>6, <1>7, <1>8 DEF TableInv

\* What is resolved is found, in its own generation or in the next.
LEMMA ResolvedIsFound ==
  ASSUME NEW samples \in Seq(ProperSample),
         \A i \in DOMAIN samples :
           Get(table, samples[i].id).gen \in {samples[i].gen, samples[i].gen + 1}
  PROVE  \A r \in Resolutions(samples) : r.with # NoStack /\ r.with.gen \in {r.gen, r.gen + 1}
<1>. SUFFICES ASSUME NEW i \in DOMAIN samples,
                     NEW r, r = [frames |-> samples[i].frames, gen |-> samples[i].gen,
                                 with |-> Get(table, samples[i].id)]
              PROVE  r.with # NoStack /\ r.with.gen \in {r.gen, r.gen + 1}
  BY DEF Resolutions, Range
<1>1. samples[i] \in ProperSample
  OBVIOUS
<1>2. samples[i].gen \in Nat /\ samples[i].gen > 0
  BY <1>1 DEF ProperSample, Proper, Event
<1>3. Get(table, samples[i].id).gen > 0
  BY <1>2
<1>. QED  BY <1>3, GetGen

\* The samples of a batch are samples of the stream.
LEMMA BatchFound ==
  ASSUME TableInv, IsBlock("EventBlock"),
         NEW i \in DOMAIN SamplesIn(Head(stream).events), NEW e, e = SamplesIn(Head(stream).events)[i]
  PROVE  /\ Get(table, e.id).gen = e.gen
         /\ e.gen = IF HasIn("SPBlock", stream) THEN gen - 1 ELSE gen
         /\ ~HasIn("SPBlock", stream) => e.id \in 1 .. written
<1>. DEFINE batch == Head(stream).events
<1>1. batch \in Seq(Proper) /\ Parsing /\ Head(stream).type = "EventBlock"
  BY KnownType DEF TableInv, IsBlock
<1>2. Head(stream) = stream[1] /\ 1 \in DOMAIN stream
  BY <1>1, HeadType DEF TableInv
<1>3. e \in SampleSet(batch)
  <2>1. SamplesIn(batch) \in Seq(SampleSet(batch))
    BY <1>1, SamplesInType
  <2>. QED  BY <2>1
<1>4. PICK k \in DOMAIN batch : batch[k] = e /\ e.type = "Sample"
  BY <1>3 DEF SampleSet
<1>5. Effective = table
  BY <1>1 DEF Effective, After
<1>6. /\ Get(Effective, e.id).gen = e.gen
      /\ e.gen = IF HasIn("SPBlock", stream) THEN gen - 1 ELSE gen
      /\ ~HasIn("SPBlock", stream) => e.id \in 1 .. written
  <2>. HIDE DEF Effective
  <2>. QED  BY <1>2, <1>4 DEF TableInv, StreamFound
<1>. QED  BY <1>5, <1>6

\* Reading an event block keeps what the stack table is relied on for.
LEMMA ParseEventsKeepsTable ==
  ASSUME TableInv, ParseEvents
  PROVE  TableInv'
<1>0. /\ IsBlock("EventBlock") /\ Parsing /\ Parsed /\ Head(stream).type = "EventBlock"
      /\ UNCHANGED runtimeVars
  BY DEF ParseEvents, IsBlock, Parsed
<1>1. TypeInv'
  BY ParseEventsTypes DEF TableInv
<1>2. /\ Effective = table /\ Effective' = table' /\ InOrder(stream')
      /\ HasIn("EventBlock", stream) /\ ~HasIn("EventBlock", stream')
      /\ HasIn("SPBlock", stream) <=> HasIn("SPBlock", stream')
      /\ \A i \in DOMAIN stream' : stream'[i].events = <<>>
  <2>1. ~HasIn("EventBlock", stream')
    BY <1>0, RestOfStream DEF HasIn
  <2>2. HasIn("EventBlock", stream) /\ (HasIn("SPBlock", stream) <=> HasIn("SPBlock", stream'))
    BY <1>0, RestOfStream
  <2>3. /\ Effective = table /\ Effective' = table' /\ InOrder(stream')
        /\ \A i \in DOMAIN stream' : stream'[i].events = <<>>
    BY <1>0, RestOfStream DEF Effective
  <2>. QED  BY <2>1, <2>2, <2>3
<1>. HIDE DEF Effective
<1>3. /\ Known \in Seq(ProperSample)
      /\ \A i \in DOMAIN Known :
           /\ Get(table, Known[i].id).gen \in {Known[i].gen, Known[i].gen + 1}
           /\ ~seen => /\ Known[i].gen \in {gen, gen - 1}
                       /\ Known[i].gen = gen - 1 => HasIn("SPBlock", stream)
                       /\ Known[i].gen = gen => Known[i].id \in 1 .. written
  <2>. DEFINE batch == SamplesIn(Head(stream).events)
              n == Len(pending)
  <2>1. /\ pending \in Seq(ProperSample) /\ batch \in Seq(ProperSample)
        /\ Known \in Seq(ProperSample) /\ Known = pending \o batch
        /\ gen \in Nat
    BY <1>0, KnownType, CollectAssumption DEF Known, TableInv, TypeInv, TypeOK
  <2>. HIDE DEF batch
  <2>2. /\ DOMAIN Known = 1 .. n + Len(batch) /\ n \in Nat /\ Len(batch) \in Nat
        /\ \A i \in 1 .. n : Known[i] = pending[i]
        /\ \A i \in 1 .. Len(batch) : Known[n + i] = batch[i]
    BY <2>1
  <2>3. ASSUME NEW i \in DOMAIN Known
        PROVE  /\ Get(table, Known[i].id).gen \in {Known[i].gen, Known[i].gen + 1}
               /\ ~seen => /\ Known[i].gen \in {gen, gen - 1}
                           /\ Known[i].gen = gen - 1 => HasIn("SPBlock", stream)
                           /\ Known[i].gen = gen => Known[i].id \in 1 .. written
    <3>1. CASE i <= n
      <4>1. i \in DOMAIN pending /\ Known[i] = pending[i]
        BY <2>1, <2>2, <3>1
      <4>. QED  BY <1>2, <4>1 DEF TableInv, PendingFound
    <3>2. CASE i > n
      <4>1. i - n \in DOMAIN batch /\ i = n + (i - n)
        BY <2>1, <2>2, <3>2
      <4>2. Known[i] = batch[i - n]
        BY <2>1, <2>2, <4>1
      <4>3. /\ Get(table, Known[i].id).gen = Known[i].gen
            /\ Known[i].gen = IF HasIn("SPBlock", stream) THEN gen - 1 ELSE gen
            /\ ~HasIn("SPBlock", stream) => Known[i].id \in 1 .. written
        BY <1>0, <4>1, <4>2, BatchFound DEF batch
      <4>. QED  BY <2>1, <4>3
    <3>. QED  BY <2>2, <3>1, <3>2
  <2>. QED  BY <2>1, <2>3
<1>4. EventsOfNow' /\ InOrder(stream') /\ StreamFound'
  BY <1>0, <1>2 DEF TableInv, EventsOfNow, StreamFound, runtimeVars
<1>5. CASE /\ seen /\ seen' = FALSE
           /\ tally' = Drain(tally, Known) /\ resolved' = Resolutions(Known)
           /\ pending' = <<>> /\ table' = Rotate(table)
  <2>1. \A id \in 1 .. written : Get(table', id).gen = gen
    <3>1. ASSUME NEW id \in 1 .. written PROVE Get(table', id) = table.current[id]
      <4>1. id \in StackIds
        BY <3>1, ProfileAssumption DEF TableInv, TypeInv, TypeOK, StackIds
      <4>. QED  BY <1>5, <4>1 DEF Rotate, Get, Undefined
    <3>2. \A id \in 1 .. written : table.current[id].gen = gen
      BY <1>2, <1>5 DEF TableInv, WrittenFresh
    <3>. QED  BY <3>1, <3>2
  <2>2. WrittenFound' /\ WrittenFresh'
    BY <1>0, <1>2, <1>5, <2>1 DEF WrittenFound, WrittenFresh, runtimeVars
  <2>3. StartsAgain' /\ PendingFound'
    BY <1>0, <1>2, <1>5 DEF StartsAgain, PendingFound, TableInv, runtimeVars
  <2>4. NothingMissing' /\ NoOlderStack'
    BY <1>3, <1>5, ResolvedIsFound DEF NothingMissing, NoOlderStack
  <2>. QED  BY <1>1, <1>4, <2>2, <2>3, <2>4 DEF TableInv
<1>6. CASE ~seen /\ pending' = Known /\ UNCHANGED <<seen, tally, resolved, table>>
  <2>1. WrittenFound' /\ WrittenFresh' /\ StartsAgain'
    BY <1>0, <1>2, <1>6 DEF TableInv, WrittenFound, WrittenFresh, StartsAgain, runtimeVars
  <2>2. PendingFound'
    BY <1>0, <1>2, <1>3, <1>6 DEF PendingFound, runtimeVars
  <2>3. NothingMissing' /\ NoOlderStack'
    BY <1>6 DEF TableInv, NothingMissing, NoOlderStack
  <2>. QED  BY <1>1, <1>4, <2>1, <2>2, <2>3 DEF TableInv
<1>. QED  BY <1>5, <1>6, ParseEventsCases

\* The end of collecting keeps what the stack table is relied on for.
LEMMA FinishCollectingKeepsTable ==
  ASSUME TableInv, FinishCollecting
  PROVE  TableInv'
<1>0. /\ Parsing /\ Parsed /\ Head(stream).type = "End" /\ UNCHANGED runtimeVars
      /\ resolved' = Resolutions(pending) /\ pending' = <<>> /\ UNCHANGED <<table, seen>>
  BY DEF FinishCollecting, IsBlock, Parsed
<1>1. TypeInv'
  BY FinishCollectingTypes DEF TableInv
<1>2. /\ Effective = table /\ Effective' = table /\ InOrder(stream') /\ stream' = <<>>
      /\ HasIn("EventBlock", stream) <=> HasIn("EventBlock", stream')
  BY <1>0, RestOfStream DEF Effective
<1>. HIDE DEF Effective
<1>3. EventsOfNow' /\ WrittenFound' /\ WrittenFresh' /\ StreamFound' /\ PendingFound'
  BY <1>0, <1>2 DEF TableInv, EventsOfNow, WrittenFound, WrittenFresh, StreamFound, PendingFound,
                    runtimeVars
<1>4. StartsAgain'
  <2>1. ~HasIn("SPBlock", stream')
    BY <1>2 DEF HasIn
  <2>. QED  BY <1>0, <1>2, <2>1 DEF TableInv, StartsAgain, runtimeVars
<1>5. NothingMissing' /\ NoOlderStack'
  <2>1. \A i \in DOMAIN pending :
          Get(table, pending[i].id).gen \in {pending[i].gen, pending[i].gen + 1}
    BY <1>2 DEF TableInv, PendingFound
  <2>2. pending \in Seq(ProperSample)
    BY DEF TableInv, TypeInv
  <2>3. \A r \in Resolutions(pending) : r.with # NoStack /\ r.with.gen \in {r.gen, r.gen + 1}
    BY <2>1, <2>2, ResolvedIsFound
  <2>. QED  BY <1>0, <2>3 DEF NothingMissing, NoOlderStack
<1>. QED  BY <1>1, <1>2, <1>3, <1>4, <1>5 DEF TableInv

\* As a profile starts.
LEMMA InitTable == Init => TableInv
<1>. SUFFICES ASSUME Init PROVE TableInv
  OBVIOUS
<1>1. /\ events = <<>> /\ stream = <<>> /\ pending = <<>> /\ defined = <<>> /\ written = 0
      /\ resolved = {} /\ seen = FALSE
  BY DEF Init
<1>2. InOrder(stream) /\ EventsOfNow /\ WrittenFound /\ WrittenFresh /\ StartsAgain
      /\ StreamFound /\ PendingFound
  BY <1>1 DEF InOrder, EventsOfNow, WrittenFound, WrittenFresh, StartsAgain, StreamFound,
              PendingFound, HasIn
<1>3. NothingMissing /\ NoOlderStack
  BY <1>1 DEF NothingMissing, NoOlderStack
<1>. QED  BY <1>2, <1>3, InitTypes DEF TableInv

\* Every step keeps what the stack table is relied on for.
LEMMA NextTable == TableInv /\ [Next]_vars => TableInv'
<1>. SUFFICES ASSUME TableInv, [Next]_vars PROVE TableInv'
  OBVIOUS
<1>1. ASSUME NEW f \in Stacks, NEW failed \in BOOLEAN, Sample(f, failed) PROVE TableInv'
  BY <1>1, SampleKeepsTable
<1>2. ASSUME NEW m \in Jitted, Jit(m) PROVE TableInv'
  BY <1>2, JitKeepsTable
<1>3. CASE UNCHANGED vars
  <2>1. TypeInv'
    BY <1>3, NextTypes DEF TableInv
  <2>2. EventsOfNow' /\ UNCHANGED <<gen, written, stream, collectorVars>>
    BY <1>3 DEF TableInv, EventsOfNow, vars, runtimeVars
  <2>. QED  BY <2>1, <2>2, InHandKeepsTable
<1>. QED  BY <1>1, <1>2, <1>3, FlushKeepsTable, SequencePointKeepsTable, StopKeepsTable,
             RundownKeepsTable, CloseStreamKeepsTable, ParseStacksKeepsTable,
             ParseSequencePointKeepsTable, ParseEventsKeepsTable, FinishCollectingKeepsTable
          DEF Next

\* No sample whose stack was walked is lost for want of its stack, wherever the
\* blocks and the sequence points fall: two generations are enough.
THEOREM ProfileLosesNoStack == Spec => []NothingMissing
<1>1. TableInv => NothingMissing
  BY DEF TableInv
<1>. QED  BY <1>1, InitTable, NextTable, PTL DEF Spec

\* No sample is resolved with a stack of an earlier generation than its own, or
\* of a later one than the next.
THEOREM ProfileResolvesNoOlderStack == Spec => []NoOlderStack
<1>1. TableInv => NoOlderStack
  BY DEF TableInv
<1>. QED  BY <1>1, InitTable, NextTable, PTL DEF Spec

----------------------------------------------------------------------------
(* Every sample is somewhere: in hand, in the stream, pending or counted.  *)

SamplesOf(b) == Len(SamplesIn(b.events))
Unparsed(s) == SumFunction([b \in DOMAIN s |-> SamplesOf(s[b])])

\* A block has a number of samples.
LEMMA SamplesOfType ==
  ASSUME NEW b \in ProperBlock
  PROVE  SamplesOf(b) \in Nat
<1>1. SamplesIn(b.events) \in Seq(ProperSample)
  BY BatchType DEF ProperBlock
<1>. QED  BY <1>1 DEF SamplesOf

\* The samples in a stream, as a sum over its blocks.
LEMMA UnparsedIs ==
  ASSUME NEW s \in Seq(ProperBlock)
  PROVE  \E f : /\ Unparsed(s) = SumFunctionOnSet(f, 1 .. Len(s))
                /\ \A i \in 1 .. Len(s) : f[i] = SamplesOf(s[i]) /\ f[i] \in Nat
                /\ Unparsed(s) \in Nat
<1>. DEFINE f == [b \in DOMAIN s |-> SamplesOf(s[b])]
<1>1. DOMAIN f = 1 .. Len(s) /\ \A i \in 1 .. Len(s) : f[i] = SamplesOf(s[i]) /\ f[i] \in Nat
  <2>1. ASSUME NEW i \in 1 .. Len(s) PROVE s[i] \in ProperBlock
    OBVIOUS
  <2>. QED  BY <2>1, SamplesOfType
<1>2. Unparsed(s) = SumFunctionOnSet(f, DOMAIN f)
  BY DEF Unparsed, SumFunction
<1>. HIDE DEF f
<1>3. Numbers(f, 1 .. Len(s))
  <2>1. IsFiniteSet(1 .. Len(s))
    BY FS_Interval
  <2>. QED  BY <1>1, <2>1 DEF Numbers
<1>4. SumFunctionOnSet(f, 1 .. Len(s)) \in Nat
  BY <1>3, SumType
<1>. QED  BY <1>1, <1>2, <1>4

\* An empty stream has none.
LEMMA UnparsedNothing == Unparsed(<<>>) = 0
<1>1. PICK f : Unparsed(<<>>) = SumFunctionOnSet(f, 1 .. Len(<<>>))
  BY UnparsedIs, <<>> \in Seq(ProperBlock)
<1>2. 1 .. Len(<<>>) = {}
  OBVIOUS
<1>. QED  BY <1>1, <1>2, SumOfNothing

\* A block written adds its own.
LEMMA UnparsedAppend ==
  ASSUME NEW s \in Seq(ProperBlock), NEW b \in ProperBlock
  PROVE  Unparsed(Append(s, b)) = Unparsed(s) + SamplesOf(b)
<1>. DEFINE longer == Append(s, b)
            n == Len(s)
<1>1. /\ longer \in Seq(ProperBlock) /\ n \in Nat /\ Len(longer) = n + 1
      /\ longer[n + 1] = b /\ \A i \in 1 .. n : longer[i] = s[i]
  OBVIOUS
<1>. HIDE DEF longer
<1>2. PICK f : /\ Unparsed(s) = SumFunctionOnSet(f, 1 .. n)
               /\ \A i \in 1 .. n : f[i] = SamplesOf(s[i]) /\ f[i] \in Nat
  BY UnparsedIs
<1>3. PICK g : /\ Unparsed(longer) = SumFunctionOnSet(g, 1 .. n + 1)
               /\ \A i \in 1 .. n + 1 : g[i] = SamplesOf(longer[i]) /\ g[i] \in Nat
  BY <1>1, UnparsedIs
<1>. HIDE DEF n
<1>4. \A i \in 1 .. n + 1 : g[i] \in Nat
  BY <1>3
<1>5. \A i \in 1 .. n : f[i] = g[i]
  BY <1>1, <1>2, <1>3
<1>6. SumFunctionOnSet(g, 1 .. n + 1) = SumFunctionOnSet(f, 1 .. n) + g[n + 1]
  BY <1>1, <1>4, <1>5, SumOfLonger
<1>7. g[n + 1] = SamplesOf(b)
  BY <1>1, <1>3
<1>. QED  BY <1>2, <1>3, <1>6, <1>7 DEF longer

\* A block read takes its own away.
LEMMA UnparsedTail ==
  ASSUME NEW s \in Seq(ProperBlock), s # <<>>
  PROVE  Unparsed(s) = SamplesOf(Head(s)) + Unparsed(Tail(s))
<1>. DEFINE rest == Tail(s)
            n == Len(s) - 1
<1>1. /\ rest \in Seq(ProperBlock) /\ n \in Nat /\ Len(rest) = n /\ Len(s) = n + 1
      /\ Head(s) = s[1] /\ \A i \in 1 .. n : rest[i] = s[i + 1]
  OBVIOUS
<1>. HIDE DEF rest, n
<1>2. PICK f : /\ Unparsed(rest) = SumFunctionOnSet(f, 1 .. n)
               /\ \A i \in 1 .. n : f[i] = SamplesOf(rest[i]) /\ f[i] \in Nat
  BY <1>1, UnparsedIs
<1>3. PICK g : /\ Unparsed(s) = SumFunctionOnSet(g, 1 .. n + 1)
               /\ \A i \in 1 .. n + 1 : g[i] = SamplesOf(s[i]) /\ g[i] \in Nat
  BY <1>1, UnparsedIs
<1>4. \A i \in 1 .. n + 1 : g[i] \in Nat
  BY <1>3
<1>5. \A i \in 1 .. n : f[i] = g[i + 1]
  BY <1>1, <1>2, <1>3
<1>6. SumFunctionOnSet(g, 1 .. n + 1) = g[1] + SumFunctionOnSet(f, 1 .. n)
  BY <1>1, <1>4, <1>5, SumOfTail
<1>7. g[1] = SamplesOf(Head(s))
  BY <1>1, <1>3
<1>. QED  BY <1>2, <1>3, <1>6, <1>7 DEF rest

\* A flush adds those of the events not yet written.
LEMMA UnparsedUnwritten ==
  ASSUME TypeInv
  PROVE  /\ Unparsed(Unwritten) = Len(SamplesIn(events))
         /\ \A type \in {"SPBlock", "End"} :
              Unparsed(Unwritten \o <<EmptyBlock(type)>>) = Len(SamplesIn(events))
<1>. DEFINE n == Len(SamplesIn(events))
<1>0. n \in Nat /\ (events = <<>> => n = 0)
  <2>1. SamplesIn(events) \in Seq(ProperSample)
    BY BatchType DEF TypeInv
  <2>. QED  BY <2>1, SamplesInNone
<1>1. /\ EventBlock \in ProperBlock /\ SamplesOf(EventBlock) = n
      /\ written < Len(defined) => StackBlock \in ProperBlock /\ SamplesOf(StackBlock) = 0
  BY EventBlockType, StackBlockType, SamplesInNone DEF SamplesOf
<1>2. \A b \in ProperBlock : Append(<<>>, b) = <<b>> /\ Unparsed(<<b>>) = SamplesOf(b)
  <2>. SUFFICES ASSUME NEW b \in ProperBlock
                PROVE  Append(<<>>, b) = <<b>> /\ Unparsed(<<b>>) = SamplesOf(b)
    OBVIOUS
  <2>1. Unparsed(Append(<<>>, b)) = Unparsed(<<>>) + SamplesOf(b)
    BY UnparsedAppend, <<>> \in Seq(ProperBlock)
  <2>2. Append(<<>>, b) = <<b>>
    OBVIOUS
  <2>3. Unparsed(<<b>>) = 0 + SamplesOf(b)
    BY <2>1, <2>2, UnparsedNothing, Zenon
  <2>4. SamplesOf(b) \in Nat
    BY SamplesOfType
  <2>. QED  BY <2>2, <2>3, <2>4
<1>. HIDE DEF n
<1>3. Unparsed(Unwritten) = n
  <2>1. CASE written < Len(defined) /\ events # <<>>
    <3>1. <<StackBlock>> \in Seq(ProperBlock)
      BY <1>1, <2>1
    <3>2. Unparsed(Append(<<StackBlock>>, EventBlock)) = Unparsed(<<StackBlock>>) + n
      BY <1>1, <3>1, UnparsedAppend
    <3>3. Unparsed(<<StackBlock>>) = 0
      BY <1>1, <1>2, <2>1
    <3>4. Unwritten = Append(<<StackBlock>>, EventBlock)
      BY <2>1, UnwrittenIs
    <3>5. Unparsed(Unwritten) = 0 + n
      BY <3>2, <3>3, <3>4, Zenon
    <3>. QED  BY <1>0, <3>5
  <2>2. CASE written < Len(defined) /\ events = <<>>
    BY <1>0, <1>1, <1>2, <2>2, UnwrittenIs
  <2>3. CASE ~(written < Len(defined)) /\ events # <<>>
    BY <1>0, <1>1, <1>2, <2>3, UnwrittenIs
  <2>4. CASE ~(written < Len(defined)) /\ events = <<>>
    BY <1>0, <2>4, UnwrittenIs, UnparsedNothing
  <2>. QED  BY <2>1, <2>2, <2>3, <2>4
<1>4. ASSUME NEW type \in {"SPBlock", "End"}
      PROVE  Unparsed(Unwritten \o <<EmptyBlock(type)>>) = n
  <2>1. Unwritten \in Seq(ProperBlock) /\ EmptyBlock(type) \in ProperBlock
    BY UnwrittenType, EmptyBlockType
  <2>2. SamplesOf(EmptyBlock(type)) = 0
    BY SamplesInNone DEF SamplesOf, EmptyBlock
  <2>3. Unwritten \o <<EmptyBlock(type)>> = Append(Unwritten, EmptyBlock(type))
    BY <2>1
  <2>4. Unparsed(Append(Unwritten, EmptyBlock(type))) =
          Unparsed(Unwritten) + SamplesOf(EmptyBlock(type))
    BY <2>1, UnparsedAppend
  <2>5. Unparsed(Unwritten \o <<EmptyBlock(type)>>) = n + 0
    BY <1>3, <2>2, <2>3, <2>4, Zenon
  <2>. QED  BY <1>0, <2>5
<1>. QED  BY <1>3, <1>4 DEF n

\* Every sample taken is counted, pending, in the stream or in hand; and once
\* the collector has returned, nothing is left but the count.
Accounted == tally.samples + Len(pending) + Len(SamplesIn(events)) + Unparsed(stream) = sampled

Ended ==
  /\ session = "closed" => events = <<>>
  /\ HasIn("End", stream) => session = "closed"
  /\ finished => session = "closed" /\ stream = <<>> /\ pending = <<>>

CountInv == TableInv /\ Accounted /\ Ended

\* The counts are numbers.
LEMMA CountTypes ==
  ASSUME TypeInv
  PROVE  /\ tally.samples \in Nat /\ Len(pending) \in Nat /\ Len(SamplesIn(events)) \in Nat
         /\ Unparsed(stream) \in Nat /\ sampled \in Nat
<1>1. SamplesIn(events) \in Seq(ProperSample) /\ pending \in Seq(ProperSample)
  BY BatchType DEF TypeInv
<1>2. Unparsed(stream) \in Nat
  BY UnparsedIs DEF TypeInv
<1>3. tally.samples \in Nat /\ sampled \in Nat
  BY CollectAssumption DEF TypeInv, TypeOK, Tally
<1>. QED  BY <1>1, <1>2, <1>3

\* As a profile starts.
LEMMA InitCount == Init => CountInv
<1>. SUFFICES ASSUME Init PROVE CountInv
  OBVIOUS
<1>1. /\ tally.samples = 0 /\ pending = <<>> /\ events = <<>> /\ stream = <<>> /\ sampled = 0
      /\ session = "open" /\ finished = FALSE
  BY DEF Init, NewTally
<1>2. Accounted
  BY <1>1, SamplesInNone, UnparsedNothing DEF Accounted
<1>3. Ended
  BY <1>1 DEF Ended, HasIn
<1>. QED  BY <1>2, <1>3, InitTable DEF CountInv

\* Taking events in hand.
LEMMA TakeCounts ==
  ASSUME CountInv, UNCHANGED <<stream, collectorVars>>, session # "closed", session' # "closed",
         Len(SamplesIn(events')) - Len(SamplesIn(events)) = sampled' - sampled,
         Len(SamplesIn(events')) \in Nat, sampled' \in Nat
  PROVE  Accounted' /\ Ended'
<1>1. UNCHANGED <<tally, pending, stream, finished>>
  BY DEF collectorVars
<1>2. Accounted'
  <2>. DEFINE a == tally.samples
              b == Len(pending)
              c == Len(SamplesIn(events))
              d == Unparsed(stream)
  <2>1. a \in Nat /\ b \in Nat /\ c \in Nat /\ d \in Nat /\ sampled \in Nat
    BY CountTypes DEF CountInv, TableInv
  <2>2. a + b + c + d = sampled
    BY DEF CountInv, Accounted
  <2>3. tally'.samples = a /\ Len(pending') = b /\ Unparsed(stream') = d
    BY <1>1
  <2>. HIDE DEF a, b, d
  <2>4. a + b + Len(SamplesIn(events')) + d = sampled'
    <3>. HIDE DEF c
    <3>1. Len(SamplesIn(events')) - c = sampled' - sampled /\ Len(SamplesIn(events')) \in Nat
      BY DEF c
    <3>. QED  BY <2>1, <2>2, <3>1
  <2>. QED  BY <2>3, <2>4, Zenon DEF Accounted
<1>3. Ended'
  BY <1>1 DEF Ended, CountInv
<1>. QED  BY <1>2, <1>3

\* A sample taken keeps the account of the samples.
LEMMA SampleCounts ==
  ASSUME CountInv, NEW f \in Stacks, NEW failed \in BOOLEAN, Sample(f, failed)
  PROVE  Accounted' /\ Ended'
<1>1. /\ session = "open" /\ sampled' = sampled + 1 /\ UNCHANGED <<session, stream, collectorVars>>
  BY DEF Sample
<1>2. PICK id \in StackIds : events' = Append(events, SampleEvent(id, f, failed))
  <2>0. /\ defined \in Seq(Stacks) /\ Len(defined) <= MaxStacks
    BY DEF Sample, CountInv, TableInv, TypeInv, TypeOK
  <2>1. CASE \E id \in DOMAIN defined : events' = Append(events, SampleEvent(id, f, failed))
    BY <2>0, <2>1, ProfileAssumption DEF StackIds
  <2>2. CASE /\ Len(defined) < MaxStacks
             /\ events' = Append(events, SampleEvent(Len(defined) + 1, f, failed))
    <3>1. Len(defined) + 1 \in StackIds
      BY <2>0, <2>2, ProfileAssumption DEF StackIds
    <3>. QED  BY <2>2, <3>1
  <2>. QED  BY <2>1, <2>2 DEF Sample
<1>3. events \in Seq(Proper) /\ SamplesIn(events) \in Seq(ProperSample)
  BY BatchType DEF CountInv, TableInv, TypeInv
<1>4. SamplesIn(events') = Append(SamplesIn(events), SampleEvent(id, f, failed))
  BY <1>2, <1>3, SampleEventType, SamplesInAppend DEF CountInv, TableInv
<1>5. Len(SamplesIn(events')) = Len(SamplesIn(events)) + 1 /\ Len(SamplesIn(events)) \in Nat
  BY <1>3, <1>4
<1>6. sampled \in Nat
  BY CountTypes DEF CountInv, TableInv
<1>. QED  BY <1>1, <1>5, <1>6, TakeCounts

\* Events of methods take no sample.
LEMMA MethodsCount ==
  ASSUME CountInv, UNCHANGED <<sampled, stream, collectorVars>>,
         session # "closed", session' # "closed",
         NEW rest \in Seq(Proper), events' = events \o rest,
         \A i \in DOMAIN rest : rest[i].type = "Method"
  PROVE  Accounted' /\ Ended'
<1>1. events \in Seq(Proper)
  BY DEF CountInv, TableInv, TypeInv
<1>2. \A i \in DOMAIN rest : rest[i].type # "Sample"
  OBVIOUS
<1>3. SamplesIn(events') = SamplesIn(events)
  BY <1>1, <1>2, SamplesInRest
<1>4. Len(SamplesIn(events)) \in Nat /\ sampled \in Nat
  BY CountTypes DEF CountInv, TableInv
<1>5. Len(SamplesIn(events')) - Len(SamplesIn(events)) = sampled' - sampled
  BY <1>3, <1>4
<1>. QED  BY <1>3, <1>4, <1>5, TakeCounts

\* A method compiled keeps the account of the samples.
LEMMA JitCounts ==
  ASSUME CountInv, NEW m \in Jitted, Jit(m)
  PROVE  Accounted' /\ Ended'
<1>1. MethodEvent(m) \in Proper /\ MethodEvent(m).type = "Method"
  BY MethodEventType, CollectAssumption
<1>2. events' = events \o <<MethodEvent(m)>>
  BY DEF Jit, CountInv, TableInv, TypeInv
<1>3. session = "open" /\ UNCHANGED <<session, sampled, stream, collectorVars>>
  BY DEF Jit
<1>4. /\ <<MethodEvent(m)>> \in Seq(Proper)
      /\ \A i \in DOMAIN <<MethodEvent(m)>> : <<MethodEvent(m)>>[i].type = "Method"
  BY <1>1
<1>. QED  BY <1>2, <1>3, <1>4, MethodsCount

\* The rundown keeps the account of the samples.
LEMMA RundownCounts ==
  ASSUME CountInv, Rundown
  PROVE  Accounted' /\ Ended'
<1>1. PICK all \in Seq(Proper) : /\ events' = events \o all
                                 /\ \A i \in DOMAIN all : all[i].type = "Method"
  BY RundownEvents
<1>2. /\ session = "stopped" /\ session' = "rundown" /\ UNCHANGED <<sampled, stream, collectorVars>>
  BY DEF Rundown
<1>. QED  BY <1>1, <1>2, MethodsCount

\* A stop keeps the account of the samples.
LEMMA StopCounts ==
  ASSUME CountInv, Stop
  PROVE  Accounted' /\ Ended'
<1>1. /\ session = "open" /\ session' = "stopped"
      /\ UNCHANGED <<sampled, events, stream, collectorVars>>
  BY DEF Stop
<1>2. Len(SamplesIn(events)) \in Nat /\ sampled \in Nat
  BY CountTypes DEF CountInv, TableInv
<1>3. Len(SamplesIn(events')) - Len(SamplesIn(events)) = sampled' - sampled
  BY <1>1, <1>2
<1>. QED  BY <1>1, <1>2, <1>3, TakeCounts

\* Writing moves what is in hand to the stream.
LEMMA WriteCounts ==
  ASSUME CountInv, UNCHANGED <<sampled, collectorVars>>, stream = <<>>, events' = <<>>,
         Unparsed(stream') = Len(SamplesIn(events))
  PROVE  Accounted'
<1>1. UNCHANGED <<tally, pending>>
  BY DEF collectorVars
<1>2. Unparsed(stream) = 0 /\ Len(SamplesIn(events')) = 0
  BY SamplesInNone, UnparsedNothing
<1>. QED  BY <1>1, <1>2, CountTypes DEF CountInv, TableInv, Accounted

\* A flush keeps the account of the samples.
LEMMA FlushCounts ==
  ASSUME CountInv, Flush
  PROVE  Accounted' /\ Ended'
<1>1. /\ stream = <<>> /\ stream' = Unwritten /\ events # <<>> /\ events' = <<>>
      /\ UNCHANGED <<session, sampled, collectorVars>> /\ UNCHANGED finished
  BY DEF Flush, Parsing, collectorVars
<1>2. Accounted'
  BY <1>1, UnparsedUnwritten, WriteCounts DEF CountInv, TableInv
<1>3. ~HasIn("End", stream')
  BY <1>1, UnwrittenHolds DEF CountInv, TableInv
<1>4. session # "closed"
  BY <1>1 DEF CountInv, Ended
<1>. QED  BY <1>1, <1>2, <1>3, <1>4 DEF CountInv, Ended

\* A sequence point keeps the account of the samples.
LEMMA SequencePointCounts ==
  ASSUME CountInv, SequencePoint
  PROVE  Accounted' /\ Ended'
<1>1. /\ stream = <<>> /\ stream' = Unwritten \o <<EmptyBlock("SPBlock")>> /\ events' = <<>>
      /\ session # "closed" /\ UNCHANGED <<session, sampled, collectorVars>> /\ UNCHANGED finished
  BY DEF SequencePoint, Parsing, collectorVars
<1>2. Accounted'
  BY <1>1, UnparsedUnwritten, WriteCounts DEF CountInv, TableInv
<1>3. ~HasIn("End", stream')
  BY <1>1, EndedHolds DEF CountInv, TableInv
<1>. QED  BY <1>1, <1>2, <1>3 DEF CountInv, Ended

\* The end of the stream keeps the account of the samples.
LEMMA CloseStreamCounts ==
  ASSUME CountInv, CloseStream
  PROVE  Accounted' /\ Ended'
<1>1. /\ stream = <<>> /\ stream' = Unwritten \o <<EmptyBlock("End")>> /\ events' = <<>>
      /\ session = "rundown" /\ session' = "closed"
      /\ UNCHANGED <<sampled, collectorVars>> /\ UNCHANGED finished
  BY DEF CloseStream, Parsing, collectorVars
<1>2. Accounted'
  BY <1>1, UnparsedUnwritten, WriteCounts DEF CountInv, TableInv
<1>. QED  BY <1>1, <1>2 DEF CountInv, Ended

\* Parsing a block takes its samples out of the stream.
LEMMA ParseCounts ==
  ASSUME CountInv, Parsing, Parsed,
         tally'.samples + Len(pending') = tally.samples + Len(pending) + SamplesOf(Head(stream)),
         tally'.samples \in Nat, Len(pending') \in Nat
  PROVE  Accounted'
<1>1. stream \in Seq(ProperBlock) /\ stream # <<>> /\ stream' = Tail(stream)
  BY DEF CountInv, TableInv, TypeInv, Parsing, Parsed
<1>2. Unparsed(stream) = SamplesOf(Head(stream)) + Unparsed(stream')
  BY <1>1, UnparsedTail
<1>3. UNCHANGED <<sampled, events>>
  BY DEF Parsed, runtimeVars
<1>4. SamplesOf(Head(stream)) \in Nat /\ Unparsed(stream') \in Nat
  <2>1. Head(stream) \in ProperBlock /\ stream' \in Seq(ProperBlock)
    BY <1>1
  <2>. QED  BY <2>1, SamplesOfType, UnparsedIs
<1>. QED  BY <1>2, <1>3, <1>4, CountTypes DEF CountInv, TableInv, Accounted

\* Until the last block is parsed, the collector goes on.
LEMMA ParseGoesOn ==
  ASSUME CountInv, Parsing, Parsed, UNCHANGED finished
  PROVE  Ended'
<1>1. ~finished /\ UNCHANGED <<session, events>>
  BY DEF CountInv, Ended, Parsing, Parsed, runtimeVars
<1>2. HasIn("End", stream') => HasIn("End", stream)
  BY RestOfStream DEF CountInv
<1>. QED  BY <1>1, <1>2 DEF CountInv, Ended

\* A block that is not of events has no sample.
LEMMA NoSamplesIn ==
  ASSUME CountInv, Parsing, Head(stream).type # "EventBlock"
  PROVE  SamplesOf(Head(stream)) = 0
<1>1. Head(stream) = stream[1] /\ 1 \in DOMAIN stream
  BY HeadType DEF CountInv, TableInv
<1>2. Head(stream).events = <<>>
  BY <1>1 DEF CountInv, TableInv, InOrder
<1>. QED  BY <1>2, SamplesInNone DEF SamplesOf

\* Reading a stack block keeps the account of the samples.
LEMMA ParseStacksCounts ==
  ASSUME CountInv, ParseStacks
  PROVE  Accounted' /\ Ended'
<1>1. /\ Parsing /\ Parsed /\ Head(stream).type = "StackBlock"
      /\ UNCHANGED <<tally, pending>> /\ UNCHANGED finished
  BY DEF ParseStacks, IsBlock
<1>2. SamplesOf(Head(stream)) = 0
  BY <1>1, NoSamplesIn
<1>3. Accounted'
  BY <1>1, <1>2, CountTypes, ParseCounts DEF CountInv, TableInv
<1>. QED  BY <1>1, <1>3, ParseGoesOn

\* Reading a sequence point keeps the account of the samples.
LEMMA ParseSequencePointCounts ==
  ASSUME CountInv, ParseSequencePoint
  PROVE  Accounted' /\ Ended'
<1>1. /\ Parsing /\ Parsed /\ Head(stream).type = "SPBlock"
      /\ UNCHANGED <<tally, pending>> /\ UNCHANGED finished
  BY DEF ParseSequencePoint, IsBlock
<1>2. SamplesOf(Head(stream)) = 0
  BY <1>1, NoSamplesIn
<1>3. Accounted'
  BY <1>1, <1>2, CountTypes, ParseCounts DEF CountInv, TableInv
<1>. QED  BY <1>1, <1>3, ParseGoesOn

\* Reading an event block keeps the account of the samples.
LEMMA ParseEventsCounts ==
  ASSUME CountInv, ParseEvents
  PROVE  Accounted' /\ Ended'
<1>1. /\ IsBlock("EventBlock") /\ Parsing /\ Parsed /\ UNCHANGED finished
  BY DEF ParseEvents, IsBlock
<1>2. /\ Known \in Seq(ProperSample) /\ Len(Known) = Len(pending) + SamplesOf(Head(stream))
      /\ SamplesOf(Head(stream)) \in Nat /\ tally.samples \in Nat /\ Len(pending) \in Nat
      /\ Len(Known) \in Nat
  BY <1>1, KnownType, CountTypes DEF CountInv, TableInv, SamplesOf
<1>3. /\ tally'.samples + Len(pending') = tally.samples + Len(pending) + SamplesOf(Head(stream))
      /\ tally'.samples \in Nat /\ Len(pending') \in Nat
  <2>1. CASE tally' = Drain(tally, Known) /\ pending' = <<>>
    <3>1. tally'.samples = tally.samples + Len(Known)
      BY <1>2, <2>1, DrainType DEF CountInv, TableInv
    <3>2. Len(pending') = 0
      BY <2>1
    <3>. QED  BY <1>2, <3>1, <3>2
  <2>2. CASE pending' = Known /\ UNCHANGED tally
    BY <1>2, <2>2
  <2>. QED  BY <2>1, <2>2, ParseEventsCases
<1>4. Accounted'
  BY <1>1, <1>3, ParseCounts
<1>. QED  BY <1>1, <1>4, ParseGoesOn

\* The end of collecting keeps the account of the samples.
LEMMA FinishCollectingCounts ==
  ASSUME CountInv, FinishCollecting
  PROVE  Accounted' /\ Ended'
<1>1. /\ Parsing /\ Parsed /\ Head(stream).type = "End" /\ UNCHANGED <<session, events>>
      /\ tally' = Drain(tally, pending) /\ pending' = <<>> /\ pending \in Seq(ProperSample)
  BY DEF FinishCollecting, IsBlock, Parsed, runtimeVars, CountInv, TableInv, TypeInv
<1>2. SamplesOf(Head(stream)) = 0
  BY <1>1, NoSamplesIn
<1>3. tally'.samples = tally.samples + Len(pending)
  BY <1>1, DrainType DEF CountInv, TableInv
<1>4. Accounted'
  <2>1. /\ tally.samples \in Nat /\ Len(pending) \in Nat
    BY CountTypes DEF CountInv, TableInv
  <2>2. Len(pending') = 0
    BY <1>1
  <2>3. /\ tally'.samples + Len(pending') = tally.samples + Len(pending) + SamplesOf(Head(stream))
        /\ tally'.samples \in Nat /\ Len(pending') \in Nat
    BY <1>2, <1>3, <2>1, <2>2
  <2>. QED  BY <1>1, <2>3, ParseCounts
<1>5. stream' = <<>> /\ HasIn("End", stream)
  <2>1. 1 \in DOMAIN stream /\ stream[1] = Head(stream)
    BY <1>1, HeadType DEF CountInv, TableInv
  <2>. QED  BY <1>1, <2>1, RestOfStream DEF CountInv, HasIn
<1>6. Ended'
  BY <1>1, <1>5 DEF CountInv, Ended, HasIn
<1>. QED  BY <1>4, <1>6

\* Every step keeps the account of the samples.
LEMMA NextCount == CountInv /\ [Next]_vars => CountInv'
<1>. SUFFICES ASSUME CountInv, [Next]_vars PROVE CountInv'
  OBVIOUS
<1>1. TableInv'
  BY NextTable DEF CountInv
<1>2. ASSUME NEW f \in Stacks, NEW failed \in BOOLEAN, Sample(f, failed) PROVE Accounted' /\ Ended'
  BY <1>2, SampleCounts
<1>3. ASSUME NEW m \in Jitted, Jit(m) PROVE Accounted' /\ Ended'
  BY <1>3, JitCounts
<1>4. ASSUME UNCHANGED vars PROVE Accounted' /\ Ended'
  BY <1>4 DEF CountInv, Accounted, Ended, vars, runtimeVars, collectorVars
<1>5. Accounted' /\ Ended'
  BY <1>2, <1>3, <1>4, FlushCounts, SequencePointCounts, StopCounts, RundownCounts,
     CloseStreamCounts, ParseStacksCounts, ParseSequencePointCounts, ParseEventsCounts,
     FinishCollectingCounts
  DEF Next
<1>. QED  BY <1>1, <1>5 DEF CountInv

\* Every sample read is pending, without a stack, with an empty one or under
\* its innermost frame, and when collect returns every sample taken has been
\* read: none is counted twice and none is dropped, wherever blocks, sequence
\* points and the end of the stream fall.
THEOREM ProfileCountsSamples == Spec => []SamplesCounted
<1>1. CountInv => SamplesCounted
  <2>. SUFFICES ASSUME CountInv PROVE SamplesCounted
    OBVIOUS
  <2>. DEFINE unparsed == Unparsed(stream)
              hand == Len(SamplesIn(events))
  <2>1. unparsed = SumFunction([b \in DOMAIN stream |-> Len(SamplesIn(stream[b].events))])
    BY DEF Unparsed, SamplesOf
  <2>2. /\ tally.samples \in Nat /\ Len(pending) \in Nat /\ hand \in Nat /\ unparsed \in Nat
        /\ sampled \in Nat /\ tally.samples + Len(pending) + hand + unparsed = sampled
    BY CountTypes DEF CountInv, TableInv, Accounted
  <2>. HIDE DEF unparsed, hand
  <2>3. tally.samples + Len(pending) = sampled - (hand + unparsed)
    BY <2>2
  <2>4. UsableSamples(tally) = SumFunctionOnSet(tally.self, Addresses)
    BY DEF CountInv, TableInv, TypeInv, AddsUp
  <2>5. finished => tally.samples = sampled
    <3>1. ASSUME finished PROVE Len(pending) = 0 /\ hand = 0 /\ unparsed = 0
      BY <3>1, SamplesInNone, UnparsedNothing DEF CountInv, Ended, hand, unparsed
    <3>. QED  BY <2>2, <3>1
  <2>. QED  BY <2>1, <2>3, <2>4, <2>5 DEF SamplesCounted, hand
<1>. QED  BY <1>1, InitCount, NextCount, PTL DEF Spec
==============================================================================
