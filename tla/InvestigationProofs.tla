------------------------- MODULE InvestigationProofs -------------------------
(***************************************************************************)
(* Proofs about Investigation, for every number of collections, findings   *)
(* and sessions, every MaxRecent and every set of occurrences.             *)
(***************************************************************************)
EXTENDS Investigation, FoldFacts, SequenceTheorems

----------------------------------------------------------------------------
(* The inductive invariant.                                                *)

\* A state of the right type whose list is no longer than it may be.
Kept(st) == st \in State /\ Len(st.recent) <= MaxRecent

\* st lists the latest of the collections that started, ss.
Latest(st, ss) ==
  LET listed == Listed(st)
      dropped == Len(ss) - Len(listed)
  IN  /\ st.gcs = Len(ss)
      /\ dropped >= 0
      /\ dropped > 0 => Len(st.recent) = MaxRecent
      /\ \A i \in 1 .. Len(listed) : listed[i].gc = ss[dropped + i]

\* No pause is shown twice, nor held once shown.
Once(st) ==
  \A i, j \in 1 .. Len(Listed(st)) :
    Listed(st)[i].pause # NoPause =>
      /\ Listed(st)[i].pause # st.lastPause
      /\ Listed(st)[i].pause = Listed(st)[j].pause => i = j

\* Time t is after everything that st remembers, sn being the first suspension.
After(st, sn, t) ==
  /\ t > st.suspended /\ t > sn + st.totalPause /\ t > st.lastPause.to
  /\ \A i \in 1 .. Len(Listed(st)) : t > Listed(st)[i].pause.to

\* The pauses so far fit between the first suspension and the one that is open.
Fits(st, sn) ==
  /\ st.suspended # NoTime => sn # NoTime /\ sn + st.totalPause <= st.suspended
  /\ st.totalPause > 0 => sn # NoTime

\* The events that pauses are measured by.
Brackets(e) == e.type \in {"Suspend", "Restart"}

InOrder(s) ==
  \A i, j \in 1 .. Len(s) : i < j /\ Brackets(s[i]) /\ Brackets(s[j]) => s[i].time < s[j].time
Ahead(s, t) ==
  \A i \in 1 .. Len(s), j \in 1 .. Len(t) :
    Brackets(s[i]) /\ Brackets(t[j]) => s[i].time < t[j].time
Quiet(s) == \A i \in 1 .. Len(s) : ~Brackets(s[i])

\* The brackets in s are after all that is remembered, and before now.
Coming(s, st, sn, now) ==
  \A i \in 1 .. Len(s) :
    Brackets(s[i]) => After(st, sn, s[i].time) /\ s[i].time < now

\* Brackets come from one thread, and no block puts them out of their order.
Delivery ==
  /\ InOrder(stream) /\ InOrder(written["collector"]) /\ Ahead(stream, written["collector"])
  /\ Quiet(written["mutator"])
  /\ Coming(stream, state, since, clock + 1)
  /\ Coming(written["collector"], state, since, clock + 1)
  /\ After(state, since, clock + 1)

\* What is to be kept of the state, the collections that started and the first
\* suspension.
Consistent(st, ss, sn) ==
  /\ Kept(st) /\ ss \in Seq(1 .. MaxGcs) /\ sn \in Nat
  /\ Latest(st, ss) /\ Once(st) /\ Fits(st, sn)

\* A collection under way has a number.
GcNumbered == step # "running" => gc > 0

IInv == TypeOK /\ GcNumbered /\ Consistent(state, starts, since) /\ Delivery

----------------------------------------------------------------------------
(* What the operators on the state do.                                     *)

\* The constants, and what there is before anything happens.
LEMMA Constants ==
  /\ MaxRecent \in Nat \ {0} /\ MaxGcs \in Nat /\ MaxFindings \in Nat /\ MaxSessions \in Nat \ {0}
  /\ NoPause \in Pause /\ NoPause.to = 0 /\ NoPause.from = 0 /\ NoTime = 0
  /\ NoCollection \in Collection /\ NoCollection.gc = 0 /\ NoCollection.promoted = 0
  /\ NoCollection.pause = NoPause
BY RecentAssumption, BoundsAssumption DEF NoPause, NoCollection, NoTime, Pause, Collection

\* f is st without a pending collection: its list the one of st, but for the
\* first d.
Flushed(st, f, d) ==
  /\ Kept(f) /\ f.pending = NoCollection /\ f.gcs = st.gcs /\ f.suspended = st.suspended
  /\ f.lastPause = st.lastPause /\ f.totalPause = st.totalPause
  /\ Listed(f) = f.recent
  /\ Len(Listed(f)) = Len(Listed(st)) - d
  /\ \A i \in 1 .. Len(Listed(f)) : Listed(f)[i] = Listed(st)[i + d]
  /\ d = 1 => Len(f.recent) = MaxRecent
  /\ d = 0 => Len(f.recent) >= Len(st.recent)

\* What is listed are collections.
LEMMA ListedType ==
  ASSUME NEW st, Kept(st)
  PROVE  Listed(st) \in Seq(Collection) /\ Len(Listed(st)) \in Nat
<1>1. st.recent \in Seq(Collection) /\ st.pending \in Collection
  BY DEF Kept, State
<1>2. Append(st.recent, st.pending) \in Seq(Collection)
  BY <1>1, AppendProperties
<1>. QED  BY <1>1, <1>2 DEF Listed

\* Flushing keeps the list, but for its oldest when it has become too long.
LEMMA Flushing ==
  ASSUME NEW st, Kept(st)
  PROVE  \E d \in {0, 1} : Flushed(st, FlushPending(st), d)
<1>. DEFINE f == FlushPending(st)
            all == Append(st.recent, st.pending)
<1>0. st \in State /\ Len(st.recent) <= MaxRecent /\ st.recent \in Seq(Collection)
      /\ st.pending \in Collection /\ Len(st.recent) \in Nat
  BY DEF Kept, State
<1>1. CASE st.pending = NoCollection
  <2>1. f = st
    BY <1>1 DEF FlushPending
  <2>2. Listed(st) = st.recent
    BY <1>1 DEF Listed
  <2>. QED  BY <1>0, <1>1, <2>1, <2>2 DEF Kept, Flushed
<1>2. CASE st.pending # NoCollection
  <2>1. f = [st EXCEPT !.recent = Newest(all), !.pending = NoCollection]
    BY <1>2 DEF FlushPending
  <2>2. Listed(st) = all
    BY <1>2 DEF Listed
  <2>3. all \in Seq(Collection) /\ Len(all) = Len(st.recent) + 1 /\ Len(all) \in Nat
    BY <1>0, AppendProperties
  <2>. HIDE DEF all
  <2>4. ASSUME NEW new \in Seq(Collection), Newest(all) = new
        PROVE  /\ f \in State /\ f.recent = new /\ f.pending = NoCollection /\ f.gcs = st.gcs
               /\ f.suspended = st.suspended /\ f.lastPause = st.lastPause
               /\ f.totalPause = st.totalPause /\ Listed(f) = new
    <3>1. f = [pending |-> NoCollection, recent |-> new, gcs |-> st.gcs,
               suspended |-> st.suspended, lastPause |-> st.lastPause,
               totalPause |-> st.totalPause]
      BY <1>0, <2>1, <2>4 DEF State
    <3>2. NoCollection \in Collection /\ st.gcs \in Nat /\ st.suspended \in Nat
          /\ st.lastPause \in Pause /\ st.totalPause \in Nat
      BY <1>0, Constants DEF State
    <3>3. f \in State
      BY <3>1, <3>2 DEF State
    <3>. QED  BY <3>1, <3>3 DEF Listed
  <2>. HIDE DEF f
  <2>5. CASE Len(all) <= MaxRecent
    <3>1. Newest(all) = all
      <4>1. ~(Len(all) > MaxRecent)
        BY <2>3, <2>5, Constants
      <4>. QED  BY <4>1 DEF Newest
    <3>2. Flushed(st, f, 0)
      BY <1>0, <2>2, <2>3, <2>4, <2>5, <3>1 DEF Kept, Flushed
    <3>. QED  BY <3>2 DEF f
  <2>6. CASE Len(all) > MaxRecent
    <3>0. Len(all) = MaxRecent + 1
      BY <1>0, <2>3, <2>6, Constants
    <3>1. Newest(all) = SubSeq(all, 2, MaxRecent + 1)
      <4>1. (MaxRecent + 1) - MaxRecent + 1 = 2
        BY Constants
      <4>. QED  BY <2>6, <3>0, <4>1 DEF Newest
    <3>2. /\ Newest(all) \in Seq(Collection) /\ Len(Newest(all)) = MaxRecent
          /\ \A i \in 1 .. MaxRecent : Newest(all)[i] = all[i + 1]
      <4>1. \A i \in 2 .. MaxRecent + 1 : i \in 1 .. Len(all)
        BY <3>0, Constants
      <4>. QED  BY <2>3, <3>0, <3>1, <4>1, Constants, SubSeqProperties
    <3>3. Flushed(st, f, 1)
      BY <1>0, <2>2, <2>3, <2>4, <3>0, <3>2, Constants DEF Kept, Flushed
    <3>. QED  BY <3>3 DEF f
  <2>. QED  BY <2>3, <2>5, <2>6, Constants
<1>. QED  BY <1>1, <1>2

\* A collection that starts is listed after the rest, with the pause held for it.
LEMMA Starting ==
  ASSUME NEW st, Kept(st), NEW n \in 1 .. MaxGcs, NEW b, b = RecordGcStart(st, n)
  PROVE  /\ Kept(b) /\ b.gcs = st.gcs + 1 /\ b.suspended = st.suspended
         /\ b.lastPause = NoPause /\ b.totalPause = st.totalPause
         /\ b.recent = FlushPending(st).recent
         /\ Listed(b) = Append(FlushPending(st).recent, Started(st, n))
<1>. DEFINE f == FlushPending(st)
<1>1. PICK d \in {0, 1} : Flushed(st, f, d)
  BY Flushing
<1>2. Kept(f)
  BY <1>1 DEF Flushed
<1>3. b = [f EXCEPT !.gcs = @ + 1, !.pending = Started(st, n), !.lastPause = NoPause]
  BY DEF RecordGcStart
<1>. HIDE DEF f
<1>4. b = [pending |-> Started(st, n), recent |-> f.recent, gcs |-> f.gcs + 1,
           suspended |-> f.suspended, lastPause |-> NoPause, totalPause |-> f.totalPause]
  BY <1>2, <1>3 DEF Kept, State
<1>5. Started(st, n) \in Collection /\ Started(st, n).gc = n
  BY Constants DEF Started, Collection, Kept, State
<1>6. b \in State
  BY <1>2, <1>4, <1>5, Constants DEF Kept, State
<1>7. Kept(b)
  BY <1>2, <1>4, <1>6 DEF Kept
<1>8. b.pending # NoCollection
  BY <1>4, <1>5, Constants
<1>9. Listed(b) = Append(f.recent, Started(st, n))
  BY <1>4, <1>8 DEF Listed
<1>. QED  BY <1>1, <1>4, <1>7, <1>9 DEF Flushed, f

\* b is a with the pending collection changed in nothing but its pause and its
\* statistics.
Retold(a, b) ==
  /\ b.recent = a.recent /\ b.gcs = a.gcs
  /\ (b.pending = NoCollection) <=> (a.pending = NoCollection)
  /\ b.pending.gc = a.pending.gc

\* Heap statistics change nothing else.
LEMMA Measuring ==
  ASSUME NEW st, Kept(st), NEW n \in 1 .. MaxGcs, NEW b, b = RecordHeapStats(st, n)
  PROVE  /\ Kept(b) /\ Retold(st, b) /\ b.pending.pause = st.pending.pause
         /\ b.suspended = st.suspended /\ b.lastPause = st.lastPause
         /\ b.totalPause = st.totalPause
<1>1. CASE st.pending = NoCollection
  BY <1>1 DEF RecordHeapStats, Retold
<1>2. CASE st.pending # NoCollection
  <2>1. b = [st EXCEPT !.pending.promoted = n]
    BY <1>2 DEF RecordHeapStats
  <2>2. b = [pending |-> [gc |-> st.pending.gc, pause |-> st.pending.pause, promoted |-> n],
             recent |-> st.recent, gcs |-> st.gcs, suspended |-> st.suspended,
             lastPause |-> st.lastPause, totalPause |-> st.totalPause]
    BY <2>1 DEF Kept, State, Collection
  <2>3. b.pending \in Collection
    BY <2>2, Constants DEF Kept, State, Collection
  <2>4. Kept(b)
    BY <2>2, <2>3 DEF Kept, State
  <2>5. b.pending # NoCollection
    BY <2>2, Constants
  <2>. QED  BY <1>2, <2>2, <2>4, <2>5 DEF Retold
<1>. QED  BY <1>1, <1>2

\* A suspension is remembered, and changes nothing else.
LEMMA Suspending ==
  ASSUME NEW st, Kept(st), NEW t \in Nat, NEW b, b = RecordSuspend(st, t)
  PROVE  /\ Kept(b) /\ Retold(st, b) /\ b.pending = st.pending
         /\ b.suspended = t /\ b.lastPause = st.lastPause
         /\ b.totalPause = st.totalPause
<1>1. b =
        [pending |-> st.pending, recent |-> st.recent, gcs |-> st.gcs, suspended |-> t,
         lastPause |-> st.lastPause, totalPause |-> st.totalPause]
  BY DEF RecordSuspend, Kept, State
<1>. QED  BY <1>1 DEF Kept, State, Retold

\* A restart closes the suspension; the pause, if there is one, is given to the
\* pending collection or held.
LEMMA Restarting ==
  ASSUME NEW st, Kept(st), NEW t \in Nat, NEW b, b = RecordRestart(st, t),
         NEW p, p = [from |-> st.suspended, to |-> t]
  PROVE  /\ Kept(b) /\ Retold(st, b) /\ b.suspended = NoTime
         /\ \/ /\ b.pending.pause = st.pending.pause /\ b.lastPause = st.lastPause
               /\ b.totalPause = st.totalPause
            \/ /\ st.suspended # NoTime /\ t > st.suspended
               /\ b.totalPause = st.totalPause + (t - st.suspended)
               /\ \/ /\ b.pending.pause = p /\ st.pending.pause = NoPause
                     /\ st.pending # NoCollection /\ b.lastPause = st.lastPause
                  \/ b.pending.pause = st.pending.pause /\ b.lastPause = p
<1>. DEFINE resumed == [st EXCEPT !.suspended = NoTime]
            counted == [resumed EXCEPT !.totalPause = @ + Length(p)]
<1>1. resumed = [pending |-> st.pending, recent |-> st.recent, gcs |-> st.gcs,
                 suspended |-> NoTime, lastPause |-> st.lastPause, totalPause |-> st.totalPause]
  BY DEF Kept, State
<1>2. CASE st.suspended = NoTime \/ t <= st.suspended
  <2>1. b = resumed
    BY <1>2 DEF RecordRestart
  <2>. QED  BY <1>1, <2>1, Constants DEF Kept, State, Retold
<1>3. CASE ~(st.suspended = NoTime \/ t <= st.suspended)
  <2>1. b = Attribute(counted, p)
    BY <1>3 DEF RecordRestart
  <2>2. st.suspended \in Nat /\ t > st.suspended /\ Length(p) = t - st.suspended /\ p \in Pause
        /\ Length(p) \in Nat /\ p.to = t /\ p # NoPause
    BY <1>3, Constants DEF Kept, State, Length, Pause
  <2>. HIDE DEF resumed
  <2>3. counted = [pending |-> st.pending, recent |-> st.recent, gcs |-> st.gcs,
                   suspended |-> NoTime, lastPause |-> st.lastPause,
                   totalPause |-> st.totalPause + (t - st.suspended)]
    BY <1>1, <2>2
  <2>. HIDE DEF counted
  <2>4. CASE st.pending # NoCollection /\ st.pending.pause = NoPause
    <3>1. b = [counted EXCEPT !.pending.pause = p]
      BY <2>1, <2>3, <2>4 DEF Attribute
    <3>2. b = [pending |-> [gc |-> st.pending.gc, pause |-> p, promoted |-> st.pending.promoted],
               recent |-> st.recent, gcs |-> st.gcs, suspended |-> NoTime,
               lastPause |-> st.lastPause, totalPause |-> st.totalPause + (t - st.suspended)]
      BY <2>3, <3>1 DEF Kept, State, Collection
    <3>3. b.pending \in Collection /\ b.pending # NoCollection
      <4>1. st.pending \in Collection /\ st.pending # NoCollection
        <5>1. st \in State
          BY DEF Kept
        <5>2. st.pending \in Collection
          BY <5>1 DEF State
        <5>. QED  BY <2>4, <5>2
      <4>2. b.pending = [gc |-> st.pending.gc, pause |-> p, promoted |-> st.pending.promoted]
        BY <3>2
      <4>3. p \in Pause /\ p # NoPause
        BY <2>2
      <4>4. b.pending \in Collection
        <5>1. st.pending.gc \in Nat /\ st.pending.promoted \in Nat
          BY <4>1 DEF Collection
        <5>. QED  BY <4>2, <4>3, <5>1 DEF Collection
      <4>5. b.pending.pause = p
        BY <4>2
      <4>. QED  BY <4>3, <4>4, <4>5, Constants
    <3>4. Kept(b)
      BY <2>2, <3>2, <3>3, Constants DEF Kept, State
    <3>. QED  BY <1>3, <2>2, <2>4, <3>2, <3>3, <3>4 DEF Retold
  <2>5. CASE ~(st.pending # NoCollection /\ st.pending.pause = NoPause)
    <3>1. b = [counted EXCEPT !.lastPause = p]
      BY <2>1, <2>3, <2>5 DEF Attribute
    <3>2. b = [pending |-> st.pending, recent |-> st.recent, gcs |-> st.gcs, suspended |-> NoTime,
               lastPause |-> p, totalPause |-> st.totalPause + (t - st.suspended)]
      BY <2>3, <3>1
    <3>3. Kept(b)
      BY <2>2, <3>2, Constants DEF Kept, State
    <3>. QED  BY <1>3, <2>2, <3>2, <3>3 DEF Retold
  <2>. QED  BY <2>4, <2>5
<1>. QED  BY <1>2, <1>3

----------------------------------------------------------------------------
(* What recording an event keeps.                                          *)

\* The list of b is the one of a; only the pause of the pending collection, the
\* last, may differ.
LEMMA RetoldList ==
  ASSUME NEW a, Kept(a), NEW b, Kept(b), Retold(a, b)
  PROVE  /\ Len(Listed(b)) = Len(Listed(a))
         /\ \A i \in 1 .. Len(Listed(a)) : Listed(b)[i].gc = Listed(a)[i].gc
         /\ \A i \in 1 .. Len(Listed(a)) :
              \/ Listed(b)[i].pause = Listed(a)[i].pause
              \/ /\ i = Len(Listed(a)) /\ a.pending # NoCollection
                 /\ Listed(a)[i].pause = a.pending.pause /\ Listed(b)[i].pause = b.pending.pause
<1>1. /\ a.recent \in Seq(Collection) /\ a.pending \in Collection /\ b.pending \in Collection
      /\ b.recent = a.recent
  BY DEF Kept, State, Retold
<1>2. CASE a.pending = NoCollection
  <2>1. Listed(b) = Listed(a)
    BY <1>1, <1>2 DEF Listed, Retold
  <2>. QED  BY <2>1
<1>3. CASE a.pending # NoCollection
  <2>1. Listed(a) = Append(a.recent, a.pending) /\ Listed(b) = Append(a.recent, b.pending)
    BY <1>1, <1>3 DEF Listed, Retold
  <2>2. /\ Len(Listed(a)) = Len(a.recent) + 1 /\ Len(Listed(b)) = Len(a.recent) + 1
        /\ Len(a.recent) \in Nat
        /\ Listed(a)[Len(a.recent) + 1] = a.pending /\ Listed(b)[Len(a.recent) + 1] = b.pending
        /\ \A i \in 1 .. Len(a.recent) :
             Listed(a)[i] = a.recent[i] /\ Listed(b)[i] = a.recent[i]
    BY <1>1, <2>1, AppendProperties
  <2>3. \A i \in 1 .. Len(Listed(a)) : i \in 1 .. Len(a.recent) \/ i = Len(a.recent) + 1
    BY <2>2
  <2>4. a.pending.gc = b.pending.gc
    BY DEF Retold
  <2>. QED  BY <1>3, <2>2, <2>3, <2>4
<1>. QED  BY <1>2, <1>3

\* The same collections are listed, whatever is told of them.
LEMMA RetoldLatest ==
  ASSUME NEW a, Kept(a), NEW b, Kept(b), Retold(a, b), NEW ss, Latest(a, ss)
  PROVE  Latest(b, ss)
<1>1. /\ Len(Listed(b)) = Len(Listed(a))
      /\ \A i \in 1 .. Len(Listed(a)) : Listed(b)[i].gc = Listed(a)[i].gc
  BY RetoldList, Zenon
<1>2. b.recent = a.recent /\ b.gcs = a.gcs
  BY Zenon DEF Retold
<1>. DEFINE l == Listed(a)
            m == Listed(b)
<1>3. /\ a.gcs = Len(ss) /\ Len(ss) - Len(l) >= 0
      /\ Len(ss) - Len(l) > 0 => Len(a.recent) = MaxRecent
      /\ \A i \in 1 .. Len(l) : l[i].gc = ss[Len(ss) - Len(l) + i]
  BY DEF Latest
<1>. HIDE DEF l, m
<1>4. /\ b.gcs = Len(ss) /\ Len(ss) - Len(m) >= 0
      /\ Len(ss) - Len(m) > 0 => Len(b.recent) = MaxRecent
      /\ \A i \in 1 .. Len(m) : m[i].gc = ss[Len(ss) - Len(m) + i]
  BY <1>1, <1>2, <1>3 DEF l, m
<1>. QED  BY <1>4 DEF m, Latest

\* The oldest is dropped only from a list that is full.
LEMMA FlushedLatest ==
  ASSUME NEW a, Kept(a), NEW f, NEW d \in {0, 1}, Flushed(a, f, d),
         NEW ss \in Seq(1 .. MaxGcs), Latest(a, ss)
  PROVE  Latest(f, ss)
<1>1. /\ Len(ss) \in Nat /\ Len(Listed(a)) \in Nat /\ Len(Listed(f)) = Len(Listed(a)) - d
      /\ Len(Listed(f)) \in Nat
  BY ListedType DEF Flushed
<1>2. Len(ss) - Len(Listed(f)) = (Len(ss) - Len(Listed(a))) + d
  BY <1>1
<1>3. Len(ss) - Len(Listed(a)) >= 0 /\ f.gcs = Len(ss)
  BY DEF Latest, Flushed
<1>4. ASSUME Len(ss) - Len(Listed(f)) > 0 PROVE Len(f.recent) = MaxRecent
  <2>1. CASE d = 1
    BY <2>1 DEF Flushed
  <2>2. CASE d = 0
    <3>1. Len(a.recent) = MaxRecent
      BY <1>1, <1>4, <2>2 DEF Latest
    <3>2. Len(f.recent) >= Len(a.recent) /\ Len(f.recent) <= MaxRecent /\ Len(f.recent) \in Nat
      BY <2>2 DEF Flushed, Kept, State
    <3>. QED  BY <3>1, <3>2, Constants
  <2>. QED  BY <2>1, <2>2
<1>5. ASSUME NEW i \in 1 .. Len(Listed(f))
      PROVE  Listed(f)[i].gc = ss[(Len(ss) - Len(Listed(f))) + i]
  <2>1. i + d \in 1 .. Len(Listed(a)) /\ Listed(f)[i] = Listed(a)[i + d]
    BY <1>1 DEF Flushed
  <2>2. Listed(a)[i + d].gc = ss[(Len(ss) - Len(Listed(a))) + (i + d)]
    BY <2>1 DEF Latest
  <2>3. (Len(ss) - Len(Listed(a))) + (i + d) = (Len(ss) - Len(Listed(f))) + i
    BY <1>1
  <2>. QED  BY <2>1, <2>2, <2>3
<1>. QED  BY <1>1, <1>2, <1>3, <1>4, <1>5 DEF Latest

\* Pauses stay apart when the list is shortened.
LEMMA FlushedOnce ==
  ASSUME NEW a, Kept(a), NEW f, NEW d \in {0, 1}, Flushed(a, f, d), Once(a)
  PROVE  Once(f)
<1>1. /\ Len(Listed(a)) \in Nat /\ Len(Listed(f)) = Len(Listed(a)) - d
      /\ f.lastPause = a.lastPause
  BY ListedType DEF Flushed
<1>2. ASSUME NEW i \in 1 .. Len(Listed(f)), NEW j \in 1 .. Len(Listed(f)),
             Listed(f)[i].pause # NoPause
      PROVE  /\ Listed(f)[i].pause # f.lastPause
             /\ Listed(f)[i].pause = Listed(f)[j].pause => i = j
  <2>1. Listed(f)[i] = Listed(a)[i + d] /\ Listed(f)[j] = Listed(a)[j + d]
    BY DEF Flushed
  <2>2. i + d \in 1 .. Len(Listed(a)) /\ j + d \in 1 .. Len(Listed(a))
    BY <1>1
  <2>3. i + d = j + d => i = j
    OBVIOUS
  <2>. QED  BY <1>1, <1>2, <2>1, <2>2, <2>3 DEF Once
<1>. QED  BY <1>2 DEF Once

\* Nothing new is remembered by flushing.
LEMMA FlushedAfter ==
  ASSUME NEW a, Kept(a), NEW f, NEW d \in {0, 1}, Flushed(a, f, d), NEW sn, NEW t \in Nat,
         After(a, sn, t)
  PROVE  After(f, sn, t)
<1>1. /\ Len(Listed(a)) \in Nat /\ Len(Listed(f)) = Len(Listed(a)) - d
  BY ListedType DEF Flushed
<1>2. ASSUME NEW i \in 1 .. Len(Listed(f)) PROVE t > Listed(f)[i].pause.to
  <2>1. i + d \in 1 .. Len(Listed(a)) /\ Listed(f)[i] = Listed(a)[i + d]
    BY <1>1 DEF Flushed
  <2>. QED  BY <2>1 DEF After
<1>. QED  BY <1>2 DEF After, Flushed

\* A new collection at the end of the list of f: b has gs more than f.
LEMMA StartedLatest ==
  ASSUME NEW f, Kept(f), NEW ss \in Seq(1 .. MaxGcs), Latest(f, ss), Listed(f) = f.recent,
         NEW n \in 1 .. MaxGcs, NEW c, c.gc = n,
         NEW b, b.gcs = f.gcs + 1, b.recent = f.recent, Listed(b) = Append(f.recent, c),
         c \in Collection
  PROVE  Latest(b, Append(ss, n))
<1>0. f.recent \in Seq(Collection)
  BY DEF Kept, State
<1>1. Len(f.recent) \in Nat /\ Len(ss) \in Nat
  BY <1>0
<1>2. /\ Len(Listed(b)) = Len(f.recent) + 1 /\ Listed(b)[Len(f.recent) + 1] = c
      /\ \A i \in 1 .. Len(f.recent) : Listed(b)[i] = f.recent[i]
  BY <1>0, AppendProperties
<1>3. /\ Len(Append(ss, n)) = Len(ss) + 1 /\ Append(ss, n)[Len(ss) + 1] = n
      /\ \A i \in 1 .. Len(ss) : Append(ss, n)[i] = ss[i]
  BY AppendProperties
<1>4. /\ f.gcs = Len(ss) /\ Len(ss) - Len(f.recent) >= 0
      /\ Len(ss) - Len(f.recent) > 0 => Len(f.recent) = MaxRecent
      /\ \A i \in 1 .. Len(f.recent) : f.recent[i].gc = ss[(Len(ss) - Len(f.recent)) + i]
  BY DEF Latest
<1>5. Len(Append(ss, n)) - Len(Listed(b)) = Len(ss) - Len(f.recent)
  BY <1>1, <1>2, <1>3
<1>6. ASSUME NEW i \in 1 .. Len(Listed(b))
      PROVE  Listed(b)[i].gc = Append(ss, n)[(Len(ss) - Len(f.recent)) + i]
  <2>1. CASE i \in 1 .. Len(f.recent)
    <3>1. (Len(ss) - Len(f.recent)) + i \in 1 .. Len(ss)
      BY <1>1, <1>4, <2>1
    <3>. QED  BY <1>2, <1>3, <1>4, <2>1, <3>1
  <2>2. CASE i = Len(f.recent) + 1
    <3>1. \A k, m \in Nat : (m - k) + (k + 1) = m + 1
      OBVIOUS
    <3>2. (Len(ss) - Len(f.recent)) + (Len(f.recent) + 1) = Len(ss) + 1
      BY <1>1, <3>1
    <3>. QED  BY <1>2, <1>3, <2>2, <3>2
  <2>3. i \in 1 .. Len(f.recent) \/ i = Len(f.recent) + 1
    BY <1>1, <1>2
  <2>. QED  BY <2>1, <2>2, <2>3
<1>7. b.gcs = Len(Append(ss, n))
  BY <1>3, <1>4
<1>. QED  BY <1>4, <1>5, <1>6, <1>7 DEF Latest

\* The pause given to the new collection is no longer held.
LEMMA StartedOnce ==
  ASSUME NEW f, Kept(f), Once(f), Listed(f) = f.recent, NEW c \in Collection,
         c.pause = f.lastPause,
         NEW b, b.lastPause = NoPause, Listed(b) = Append(f.recent, c)
  PROVE  Once(b)
<1>0. f.recent \in Seq(Collection)
  BY DEF Kept, State
<1>1. Len(f.recent) \in Nat
  BY <1>0
<1>2. /\ Len(Listed(b)) = Len(f.recent) + 1 /\ Listed(b)[Len(f.recent) + 1] = c
      /\ \A i \in 1 .. Len(f.recent) : Listed(b)[i] = f.recent[i]
  BY <1>0, AppendProperties
<1>3. \A i \in 1 .. Len(Listed(b)) : i \in 1 .. Len(f.recent) \/ i = Len(f.recent) + 1
  BY <1>1, <1>2
<1>4. \A i, j \in 1 .. Len(f.recent) :
        f.recent[i].pause # NoPause =>
          /\ f.recent[i].pause # c.pause
          /\ f.recent[i].pause = f.recent[j].pause => i = j
  BY DEF Once
<1>5. ASSUME NEW i \in 1 .. Len(Listed(b)), NEW j \in 1 .. Len(Listed(b)),
             Listed(b)[i].pause # NoPause
      PROVE  /\ Listed(b)[i].pause # b.lastPause
             /\ Listed(b)[i].pause = Listed(b)[j].pause => i = j
  <2>1. CASE i \in 1 .. Len(f.recent)
    BY <1>2, <1>3, <1>4, <1>5, <2>1
  <2>2. CASE i = Len(f.recent) + 1
    <3>1. CASE j \in 1 .. Len(f.recent)
      BY <1>2, <1>4, <1>5, <2>2, <3>1
    <3>2. CASE j = Len(f.recent) + 1
      BY <1>5, <2>2, <3>2
    <3>. QED  BY <1>3, <3>1, <3>2
  <2>. QED  BY <1>3, <2>1, <2>2
<1>. QED  BY <1>5 DEF Once

\* The pause given to the new collection was known before.
LEMMA StartedAfter ==
  ASSUME NEW f, Kept(f), Listed(f) = f.recent, NEW c \in Collection, c.pause = f.lastPause,
         NEW b, b.lastPause = NoPause, Listed(b) = Append(f.recent, c),
         b.suspended = f.suspended, b.totalPause = f.totalPause,
         NEW sn, NEW t \in Nat, After(f, sn, t)
  PROVE  After(b, sn, t)
<1>0. f.recent \in Seq(Collection) /\ f.lastPause \in Pause
  BY DEF Kept, State
<1>1. Len(f.recent) \in Nat
  BY <1>0
<1>2. /\ Len(Listed(b)) = Len(f.recent) + 1 /\ Listed(b)[Len(f.recent) + 1] = c
      /\ \A i \in 1 .. Len(f.recent) : Listed(b)[i] = f.recent[i]
  BY <1>0, AppendProperties
<1>3. \A i \in 1 .. Len(Listed(b)) : i \in 1 .. Len(f.recent) \/ i = Len(f.recent) + 1
  BY <1>1, <1>2
<1>4. \A i \in 1 .. Len(Listed(b)) : t > Listed(b)[i].pause.to
  BY <1>2, <1>3 DEF After
<1>5. t > b.lastPause.to
  <2>1. f.lastPause.to \in Nat /\ t > f.lastPause.to
    BY <1>0 DEF Pause, After
  <2>. QED  BY <2>1, Constants
<1>. QED  BY <1>4, <1>5 DEF After

----------------------------------------------------------------------------
(* Recording an event, whatever it is.                                     *)

\* What is after all that is remembered stays so when an event before it is
\* recorded.
StaysAfter(st, sn, b, sm, e) ==
  \A t \in Nat : After(st, sn, t) /\ (Brackets(e) => e.time < t) => After(b, sm, t)

\* An end, by flush_pending.
LEMMA RecordsFlush ==
  ASSUME NEW st, NEW ss, NEW sn, Consistent(st, ss, sn), NEW e, NEW b, b = FlushPending(st)
  PROVE  Consistent(b, ss, sn) /\ StaysAfter(st, sn, b, sn, e)
<1>1. PICK d \in {0, 1} : Flushed(st, b, d)
  BY Flushing DEF Consistent
<1>2. Kept(b) /\ Latest(b, ss) /\ Once(b)
  <2>1. Kept(st) /\ ss \in Seq(1 .. MaxGcs) /\ Latest(st, ss) /\ Once(st)
    BY DEF Consistent
  <2>2. Kept(b)
    BY <1>1 DEF Flushed
  <2>3. Latest(b, ss)
    BY <1>1, <2>1, FlushedLatest, Zenon
  <2>4. Once(b)
    BY <1>1, <2>1, FlushedOnce, Zenon
  <2>. QED  BY <2>2, <2>3, <2>4
<1>3. Fits(b, sn)
  BY <1>1 DEF Flushed, Consistent, Fits
<1>4. StaysAfter(st, sn, b, sn, e)
  BY <1>1, FlushedAfter DEF StaysAfter, Consistent
<1>. QED  BY <1>2, <1>3, <1>4 DEF Consistent

\* A start, by record_gc_start.
LEMMA RecordsStart ==
  ASSUME NEW st, NEW ss, NEW sn, Consistent(st, ss, sn), NEW e, NEW n \in 1 .. MaxGcs,
         NEW b, b = RecordGcStart(st, n)
  PROVE  Consistent(b, Append(ss, n), sn) /\ StaysAfter(st, sn, b, sn, e)
<1>. DEFINE f == FlushPending(st)
            c == Started(st, n)
<1>1. Kept(st)
  BY DEF Consistent
<1>2. PICK d \in {0, 1} : Flushed(st, f, d)
  BY <1>1, Flushing
<1>3. Consistent(f, ss, sn) /\ StaysAfter(st, sn, f, sn, e)
  BY RecordsFlush
<1>4. /\ Kept(b) /\ b.gcs = st.gcs + 1 /\ b.suspended = st.suspended
      /\ b.lastPause = NoPause /\ b.totalPause = st.totalPause
      /\ b.recent = f.recent /\ Listed(b) = Append(f.recent, c)
  BY <1>1, Starting
<1>5. /\ Kept(f) /\ Listed(f) = f.recent /\ f.gcs = st.gcs /\ f.suspended = st.suspended
      /\ f.lastPause = st.lastPause /\ f.totalPause = st.totalPause
  BY <1>2 DEF Flushed
<1>6. c \in Collection /\ c.gc = n /\ c.pause = f.lastPause
  BY <1>1, <1>5, Constants DEF Started, Collection, Kept, State
<1>. HIDE DEF f, c
<1>7. Latest(b, Append(ss, n))
  BY <1>3, <1>4, <1>5, <1>6, StartedLatest DEF Consistent
<1>8. Once(b)
  BY <1>3, <1>4, <1>5, <1>6, StartedOnce DEF Consistent
<1>9. Fits(b, sn)
  BY <1>3, <1>4, <1>5 DEF Consistent, Fits
<1>10. StaysAfter(st, sn, b, sn, e)
  <2>1. ASSUME NEW t \in Nat, After(f, sn, t) PROVE After(b, sn, t)
    <3>1. b.suspended = f.suspended /\ b.totalPause = f.totalPause
      BY <1>4, <1>5
    <3>. QED  BY <1>4, <1>5, <1>6, <2>1, <3>1, StartedAfter
  <2>. QED  BY <1>3, <2>1 DEF StaysAfter
<1>11. Append(ss, n) \in Seq(1 .. MaxGcs) /\ sn \in Nat
  BY AppendProperties DEF Consistent
<1>. QED  BY <1>4, <1>7, <1>8, <1>9, <1>10, <1>11 DEF Consistent

\* Statistics, by record_heap_stats.
LEMMA RecordsHeapStats ==
  ASSUME NEW st, NEW ss, NEW sn, Consistent(st, ss, sn), NEW e, NEW n \in 1 .. MaxGcs,
         NEW b, b = RecordHeapStats(st, n)
  PROVE  Consistent(b, ss, sn) /\ StaysAfter(st, sn, b, sn, e)
<1>1. Kept(st)
  BY DEF Consistent
<1>2. /\ Kept(b) /\ Retold(st, b) /\ b.pending.pause = st.pending.pause
      /\ b.suspended = st.suspended /\ b.lastPause = st.lastPause
      /\ b.totalPause = st.totalPause
  BY <1>1, Measuring
<1>3. Latest(b, ss)
  BY <1>1, <1>2, RetoldLatest DEF Consistent
<1>4. /\ Len(Listed(b)) = Len(Listed(st))
      /\ \A i \in 1 .. Len(Listed(st)) : Listed(b)[i].pause = Listed(st)[i].pause
  BY <1>1, <1>2, RetoldList
<1>5. Once(b) /\ Fits(b, sn)
  BY <1>2, <1>4 DEF Consistent, Once, Fits
<1>6. StaysAfter(st, sn, b, sn, e)
  BY <1>2, <1>4 DEF StaysAfter, After
<1>. QED  BY <1>2, <1>3, <1>5, <1>6 DEF Consistent

\* A suspension, by record_suspend.
LEMMA RecordsSuspend ==
  ASSUME NEW st, NEW ss, NEW sn, Consistent(st, ss, sn),
         NEW e, Brackets(e), e.time \in Nat, After(st, sn, e.time),
         NEW b, b = RecordSuspend(st, e.time),
         NEW sm, sm = IF sn = NoTime THEN e.time ELSE sn
  PROVE  Consistent(b, ss, sm) /\ StaysAfter(st, sn, b, sm, e)
<1>1. Kept(st) /\ sn \in Nat /\ st.totalPause \in Nat /\ st.suspended \in Nat
  BY DEF Consistent, Kept, State
<1>2. /\ Kept(b) /\ Retold(st, b) /\ b.pending = st.pending
      /\ b.suspended = e.time /\ b.lastPause = st.lastPause
      /\ b.totalPause = st.totalPause
  <2>1. \A t \in Nat : \A a : a = RecordSuspend(st, t) =>
          /\ Kept(a) /\ Retold(st, a) /\ a.pending = st.pending
          /\ a.suspended = t /\ a.lastPause = st.lastPause
          /\ a.totalPause = st.totalPause
    BY <1>1, Suspending
  <2>. QED  BY <2>1
<1>3. Latest(b, ss)
  BY <1>1, <1>2, RetoldLatest DEF Consistent
<1>4. /\ Len(Listed(b)) = Len(Listed(st))
      /\ \A i \in 1 .. Len(Listed(st)) : Listed(b)[i].pause = Listed(st)[i].pause
  BY <1>1, <1>2, RetoldList
<1>5. sm \in Nat /\ sm # NoTime /\ sm + st.totalPause <= e.time
  <2>1. e.time > st.suspended /\ e.time > sn + st.totalPause
    BY DEF After
  <2>2. st.totalPause > 0 => sn # NoTime
    BY DEF Consistent, Fits
  <2>. QED  BY <1>1, <2>1, <2>2, Constants
<1>6. Fits(b, sm)
  BY <1>2, <1>5 DEF Fits
<1>7. Once(b)
  BY <1>2, <1>4 DEF Consistent, Once
<1>8. ASSUME NEW t \in Nat, After(st, sn, t), e.time < t PROVE After(b, sm, t)
  <2>1. t > b.suspended /\ t > sm + b.totalPause
    BY <1>1, <1>2, <1>5, <1>8
  <2>. QED  BY <1>2, <1>4, <1>8, <2>1 DEF After
<1>. QED  BY <1>2, <1>3, <1>5, <1>6, <1>7, <1>8 DEF Consistent, StaysAfter

\* A restart, by record_restart: its pause is one that was never shown.
LEMMA RecordsRestart ==
  ASSUME NEW st, NEW ss, NEW sn, Consistent(st, ss, sn),
         NEW e, Brackets(e), e.time \in Nat, After(st, sn, e.time),
         NEW b, b = RecordRestart(st, e.time)
  PROVE  Consistent(b, ss, sn) /\ StaysAfter(st, sn, b, sn, e)
<1>. DEFINE p == [from |-> st.suspended, to |-> e.time]
<1>1. Kept(st) /\ sn \in Nat /\ st.totalPause \in Nat /\ st.suspended \in Nat
  BY DEF Consistent, Kept, State
<1>2. /\ Kept(b) /\ Retold(st, b) /\ b.suspended = NoTime
      /\ \/ /\ b.pending.pause = st.pending.pause /\ b.lastPause = st.lastPause
            /\ b.totalPause = st.totalPause
         \/ /\ st.suspended # NoTime /\ e.time > st.suspended
            /\ b.totalPause = st.totalPause + (e.time - st.suspended)
            /\ \/ /\ b.pending.pause = p /\ st.pending.pause = NoPause
                  /\ st.pending # NoCollection /\ b.lastPause = st.lastPause
               \/ b.pending.pause = st.pending.pause /\ b.lastPause = p
  BY <1>1, Restarting
<1>3. Latest(b, ss)
  BY <1>1, <1>2, RetoldLatest DEF Consistent
<1>4. /\ Len(Listed(b)) = Len(Listed(st)) /\ Len(Listed(st)) \in Nat
      /\ \A i \in 1 .. Len(Listed(st)) :
           \/ Listed(b)[i].pause = Listed(st)[i].pause
           \/ /\ i = Len(Listed(st)) /\ st.pending # NoCollection
              /\ Listed(st)[i].pause = st.pending.pause /\ Listed(b)[i].pause = b.pending.pause
  BY <1>1, <1>2, RetoldList, ListedType
<1>5. p.to = e.time /\ p.from = st.suspended
  OBVIOUS
<1>. HIDE DEF p
\* A pause that ends now is none of those that are known.
<1>6. /\ p # st.lastPause /\ \A i \in 1 .. Len(Listed(st)) : p # Listed(st)[i].pause
      /\ p # NoPause
  <2>1. e.time > st.lastPause.to /\ \A i \in 1 .. Len(Listed(st)) : e.time > Listed(st)[i].pause.to
    BY DEF After
  <2>2. st.lastPause.to \in Nat /\ \A i \in 1 .. Len(Listed(st)) : Listed(st)[i].pause.to \in Nat
    <3>1. st.lastPause.to \in Nat
      BY <1>1 DEF Kept, State, Pause
    <3>2. \A i \in 1 .. Len(Listed(st)) : Listed(st)[i] \in Collection
      BY <1>1, ListedType
    <3>3. \A c \in Collection : c.pause.to \in Nat
      BY DEF Collection, Pause
    <3>. QED  BY <3>1, <3>2, <3>3
  <2>3. e.time # 0
    <3>1. e.time > st.suspended
      BY DEF After
    <3>. QED  BY <1>1, <3>1
  <2>. QED  BY <1>5, <2>1, <2>2, <2>3, Constants
<1>7. CASE b.pending.pause = st.pending.pause /\ b.lastPause = st.lastPause
           /\ b.totalPause = st.totalPause
  <2>1. \A i \in 1 .. Len(Listed(st)) : Listed(b)[i].pause = Listed(st)[i].pause
    BY <1>4, <1>7
  <2>2. Once(b)
    BY <1>4, <1>7, <2>1 DEF Consistent, Once
  <2>3. Fits(b, sn)
    BY <1>2, <1>7 DEF Consistent, Fits
  <2>4. ASSUME NEW t \in Nat, After(st, sn, t), e.time < t PROVE After(b, sn, t)
    <3>1. t > b.suspended
      BY <1>2, <2>4, Constants
    <3>. QED  BY <1>4, <1>7, <2>1, <2>4, <3>1 DEF After
  <2>. QED  BY <1>1, <1>2, <1>3, <2>2, <2>3, <2>4 DEF Consistent, StaysAfter
<1>8. ASSUME st.suspended # NoTime, e.time > st.suspended,
             b.totalPause = st.totalPause + (e.time - st.suspended)
      PROVE  /\ Fits(b, sn) /\ b.totalPause \in Nat
             /\ \A t \in Nat : e.time < t => t > b.suspended /\ t > sn + b.totalPause
  <2>1. sn # NoTime /\ sn + st.totalPause <= st.suspended
    BY <1>8 DEF Consistent, Fits
  <2>2. b.totalPause \in Nat /\ sn + b.totalPause <= e.time
    BY <1>1, <1>8, <2>1
  <2>. QED  BY <1>1, <1>2, <2>1, <2>2, Constants DEF Fits
<1>9. CASE /\ st.suspended # NoTime /\ e.time > st.suspended
           /\ b.totalPause = st.totalPause + (e.time - st.suspended)
           /\ b.pending.pause = p /\ st.pending.pause = NoPause
           /\ st.pending # NoCollection /\ b.lastPause = st.lastPause
  <2>1. \A i \in 1 .. Len(Listed(st)) :
          \/ Listed(b)[i].pause = Listed(st)[i].pause
          \/ i = Len(Listed(st)) /\ Listed(b)[i].pause = p
    BY <1>4, <1>9
  <2>2. Once(b)
    BY <1>4, <1>6, <1>9, <2>1 DEF Consistent, Once
  <2>3. ASSUME NEW t \in Nat, After(st, sn, t), e.time < t PROVE After(b, sn, t)
    <3>1. \A i \in 1 .. Len(Listed(b)) : t > Listed(b)[i].pause.to
      BY <1>4, <1>5, <2>1, <2>3 DEF After
    <3>. QED  BY <1>8, <1>9, <2>3, <3>1 DEF After
  <2>. QED  BY <1>1, <1>2, <1>3, <1>8, <1>9, <2>2, <2>3 DEF Consistent, StaysAfter
<1>10. CASE /\ st.suspended # NoTime /\ e.time > st.suspended
            /\ b.totalPause = st.totalPause + (e.time - st.suspended)
            /\ b.pending.pause = st.pending.pause /\ b.lastPause = p
  <2>1. \A i \in 1 .. Len(Listed(st)) : Listed(b)[i].pause = Listed(st)[i].pause
    BY <1>4, <1>10
  <2>2. Once(b)
    BY <1>4, <1>6, <1>10, <2>1 DEF Consistent, Once
  <2>3. ASSUME NEW t \in Nat, After(st, sn, t), e.time < t PROVE After(b, sn, t)
    <3>1. \A i \in 1 .. Len(Listed(b)) : t > Listed(b)[i].pause.to
      BY <1>4, <2>1, <2>3 DEF After
    <3>. QED  BY <1>5, <1>8, <1>10, <2>3, <3>1 DEF After
  <2>. QED  BY <1>1, <1>2, <1>3, <1>8, <1>10, <2>2, <2>3 DEF Consistent, StaysAfter
<1>. QED  BY <1>2, <1>7, <1>9, <1>10

\* Any event, by record.
LEMMA Recording ==
  ASSUME NEW st, NEW ss, NEW sn, Consistent(st, ss, sn),
         NEW e \in Event \cup Finding, Brackets(e) => After(st, sn, e.time),
         NEW b, b = RecordRuntime(st, e),
         NEW sl, sl = IF e.type = "Start" THEN Append(ss, e.gc) ELSE ss,
         NEW sm, sm = IF e.type = "Suspend" /\ sn = NoTime THEN e.time ELSE sn
  PROVE  Consistent(b, sl, sm) /\ StaysAfter(st, sn, b, sm, e)
<1>1. CASE e \in Event
  <2>0. e.gc \in 1 .. MaxGcs /\ e.time \in Nat
        /\ e.type \in {"Suspend", "Start", "End", "HeapStats", "Restart"}
    BY <1>1 DEF Event
  <2>1. CASE e.type = "Start"
    <3>1. b = RecordGcStart(st, e.gc) /\ sl = Append(ss, e.gc) /\ sm = sn
      BY <2>1 DEF RecordRuntime
    <3>2. \A n \in 1 .. MaxGcs : b = RecordGcStart(st, n) =>
            Consistent(b, Append(ss, n), sn) /\ StaysAfter(st, sn, b, sn, e)
      BY RecordsStart
    <3>. QED  BY <2>0, <3>1, <3>2
  <2>2. CASE e.type = "End"
    <3>1. b = FlushPending(st) /\ sl = ss /\ sm = sn
      BY <2>2 DEF RecordRuntime, RecordGcEnd
    <3>. QED  BY <3>1, RecordsFlush
  <2>3. CASE e.type = "HeapStats"
    <3>1. b = RecordHeapStats(st, e.gc) /\ sl = ss /\ sm = sn
      BY <2>3 DEF RecordRuntime
    <3>. QED  BY <2>0, <3>1, RecordsHeapStats
  <2>4. CASE e.type = "Suspend"
    <3>1. b = RecordSuspend(st, e.time) /\ sl = ss
          /\ sm = IF sn = NoTime THEN e.time ELSE sn
      BY <2>4 DEF RecordRuntime
    <3>2. Brackets(e) /\ After(st, sn, e.time)
      BY <2>4 DEF Brackets
    <3>. QED  BY <2>0, <3>1, <3>2, RecordsSuspend
  <2>5. CASE e.type = "Restart"
    <3>1. b = RecordRestart(st, e.time) /\ sl = ss /\ sm = sn
      BY <2>5 DEF RecordRuntime
    <3>2. Brackets(e) /\ After(st, sn, e.time)
      BY <2>5 DEF Brackets
    <3>. QED  BY <2>0, <3>1, <3>2, RecordsRestart
  <2>. QED  BY <2>0, <2>1, <2>2, <2>3, <2>4, <2>5
<1>2. CASE e \in Finding
  <2>1. e.type = "Finding"
    BY <1>2 DEF Finding
  <2>2. b = st /\ sl = ss /\ sm = sn
    BY <2>1 DEF RecordRuntime
  <2>. QED  BY <2>2 DEF StaysAfter
<1>. QED  BY <1>1, <1>2

----------------------------------------------------------------------------
(* The order of the stream.                                                *)

\* Events in sequence.
Events == Seq(Event \cup Finding)

\* The elements of two sequences joined.
LEMMA Joined ==
  ASSUME NEW s \in Events, NEW t \in Events
  PROVE  /\ s \o t \in Events /\ Len(s) \in Nat /\ Len(t) \in Nat
         /\ \A i \in 1 .. Len(s \o t) :
              \/ i \in 1 .. Len(s) /\ (s \o t)[i] = s[i]
              \/ /\ i > Len(s) /\ i - Len(s) \in 1 .. Len(t)
                 /\ (s \o t)[i] = t[i - Len(s)]
<1>1. /\ s \o t \in Events /\ Len(s \o t) = Len(s) + Len(t)
      /\ \A i \in 1 .. Len(s) + Len(t) :
           (s \o t)[i] = IF i <= Len(s) THEN s[i] ELSE t[i - Len(s)]
  BY ConcatProperties DEF Events
<1>2. Len(s) \in Nat /\ Len(t) \in Nat
  BY DEF Events
<1>. QED  BY <1>1, <1>2

\* Two sequences in order, one ahead of the other, are in order when joined.
LEMMA JoinedOrder ==
  ASSUME NEW s \in Events, NEW t \in Events, InOrder(s), InOrder(t), Ahead(s, t)
  PROVE  InOrder(s \o t)
<1>1. ASSUME NEW i \in 1 .. Len(s \o t), NEW j \in 1 .. Len(s \o t), i < j,
             Brackets((s \o t)[i]), Brackets((s \o t)[j])
      PROVE  (s \o t)[i].time < (s \o t)[j].time
  <2>1. CASE j \in 1 .. Len(s)
    BY <1>1, <2>1, Joined DEF InOrder
  <2>2. CASE i > Len(s)
    <3>1. /\ i - Len(s) \in 1 .. Len(t) /\ (s \o t)[i] = t[i - Len(s)]
          /\ j - Len(s) \in 1 .. Len(t) /\ (s \o t)[j] = t[j - Len(s)]
      <4>1. j > Len(s) /\ Len(s) \in Nat
        BY <1>1, <2>2, Joined
      <4>2. ~(i \in 1 .. Len(s)) /\ ~(j \in 1 .. Len(s))
        BY <2>2, <4>1
      <4>. QED  BY <4>2, Joined
    <3>2. i - Len(s) < j - Len(s)
      BY <1>1, Joined
    <3>. QED  BY <1>1, <3>1, <3>2 DEF InOrder
  <2>3. CASE i \in 1 .. Len(s) /\ j > Len(s)
    BY <1>1, <2>3, Joined DEF Ahead
  <2>. QED  BY <2>1, <2>2, <2>3, Joined
<1>. QED  BY <1>1 DEF InOrder

\* Two sequences ahead of a third are so when joined.
LEMMA JoinedAhead ==
  ASSUME NEW s \in Events, NEW t \in Events, NEW u \in Events, Ahead(s, u), Ahead(t, u)
  PROVE  Ahead(s \o t, u)
<1>1. ASSUME NEW i \in 1 .. Len(s \o t), NEW j \in 1 .. Len(u),
             Brackets((s \o t)[i]), Brackets(u[j])
      PROVE  (s \o t)[i].time < u[j].time
  <2>1. CASE i \in 1 .. Len(s) /\ (s \o t)[i] = s[i]
    BY <1>1, <2>1 DEF Ahead
  <2>2. CASE i - Len(s) \in 1 .. Len(t) /\ (s \o t)[i] = t[i - Len(s)]
    BY <1>1, <2>2 DEF Ahead
  <2>. QED  BY <2>1, <2>2, Joined
<1>. QED  BY <1>1 DEF Ahead

\* So are two sequences of what is to come.
LEMMA JoinedComing ==
  ASSUME NEW s \in Events, NEW t \in Events, NEW st, NEW sn, NEW now,
         Coming(s, st, sn, now), Coming(t, st, sn, now)
  PROVE  Coming(s \o t, st, sn, now)
<1>. DEFINE u == s \o t
<1>1. \A i \in 1 .. Len(u) :
        \/ i \in 1 .. Len(s) /\ u[i] = s[i]
        \/ i - Len(s) \in 1 .. Len(t) /\ u[i] = t[i - Len(s)]
  BY Joined
<1>. HIDE DEF u
<1>2. Coming(u, st, sn, now)
  <2>1. ASSUME NEW i \in 1 .. Len(u), Brackets(u[i])
        PROVE  After(st, sn, u[i].time) /\ u[i].time < now
    <3>1. CASE i \in 1 .. Len(s) /\ u[i] = s[i]
      BY <2>1, <3>1, Zenon DEF Coming
    <3>2. CASE i - Len(s) \in 1 .. Len(t) /\ u[i] = t[i - Len(s)]
      BY <2>1, <3>2, Zenon DEF Coming
    <3>. QED  BY <1>1, <3>1, <3>2, Zenon
  <2>. QED  BY <2>1, Zenon DEF Coming
<1>. QED  BY <1>2 DEF u

\* A sequence without brackets is in any order.
LEMMA QuietOrder ==
  ASSUME NEW s \in Events, Quiet(s), NEW t \in Events, NEW st, NEW sn, NEW now
  PROVE  /\ InOrder(s) /\ Ahead(s, t) /\ Ahead(t, s) /\ Coming(s, st, sn, now)
BY DEF Quiet, InOrder, Ahead, Coming

\* A bracket reported now is the last of all.
LEMMA Appended ==
  ASSUME NEW s \in Events, NEW e \in Event \cup Finding, NEW t \in Events, NEW st, NEW sn,
         NEW now \in Nat, Brackets(e) => e.time = now,
         InOrder(s), Ahead(t, s), Coming(s, st, sn, now), Coming(t, st, sn, now),
         After(st, sn, now)
  PROVE  /\ Append(s, e) \in Events /\ InOrder(Append(s, e)) /\ Ahead(t, Append(s, e))
         /\ Coming(Append(s, e), st, sn, now + 1)
         /\ Quiet(s) /\ ~Brackets(e) => Quiet(Append(s, e))
<1>1. /\ Append(s, e) \in Events /\ Len(Append(s, e)) = Len(s) + 1 /\ Len(s) \in Nat
      /\ Append(s, e)[Len(s) + 1] = e
      /\ \A i \in 1 .. Len(s) : Append(s, e)[i] = s[i]
  BY AppendProperties DEF Events
<1>2. \A i \in 1 .. Len(Append(s, e)) :
        \/ i \in 1 .. Len(s) /\ Append(s, e)[i] = s[i]
        \/ i = Len(s) + 1 /\ Append(s, e)[i] = e
  BY <1>1
<1>3. \A i \in 1 .. Len(s) : Brackets(s[i]) => s[i].time < now
  BY DEF Coming
<1>4. InOrder(Append(s, e))
  <2>1. ASSUME NEW i \in 1 .. Len(Append(s, e)), NEW j \in 1 .. Len(Append(s, e)), i < j,
               Brackets(Append(s, e)[i]), Brackets(Append(s, e)[j])
        PROVE  Append(s, e)[i].time < Append(s, e)[j].time
    <3>1. i \in 1 .. Len(s) /\ Append(s, e)[i] = s[i]
      BY <1>1, <1>2, <2>1
    <3>2. CASE j \in 1 .. Len(s)
      BY <1>1, <2>1, <3>1, <3>2 DEF InOrder
    <3>3. CASE j = Len(s) + 1
      BY <1>1, <1>3, <2>1, <3>1, <3>3
    <3>. QED  BY <1>2, <3>2, <3>3
  <2>. QED  BY <2>1 DEF InOrder
<1>5. Ahead(t, Append(s, e))
  BY <1>2 DEF Ahead, Coming
<1>6. Coming(Append(s, e), st, sn, now + 1)
  <2>1. ASSUME NEW i \in 1 .. Len(Append(s, e)), Brackets(Append(s, e)[i])
        PROVE  /\ After(st, sn, Append(s, e)[i].time)
               /\ Append(s, e)[i].time < now + 1
    <3>1. CASE i \in 1 .. Len(s) /\ Append(s, e)[i] = s[i]
      <4>1. s[i].time \in Nat
        <5>1. s[i] \in Event \cup Finding
          BY <3>1 DEF Events
        <5>. QED  BY <2>1, <3>1, <5>1 DEF Brackets, Event, Finding
      <4>. QED  BY <2>1, <3>1, <4>1 DEF Coming
    <3>2. CASE i = Len(s) + 1 /\ Append(s, e)[i] = e
      BY <2>1, <3>2
    <3>. QED  BY <1>2, <3>1, <3>2
  <2>. QED  BY <2>1 DEF Coming
<1>7. Quiet(s) /\ ~Brackets(e) => Quiet(Append(s, e))
  BY <1>2 DEF Quiet
<1>. QED  BY <1>1, <1>4, <1>5, <1>6, <1>7

\* Time passes without harm.
LEMMA Later ==
  ASSUME NEW s \in Events, NEW st \in State, NEW sn \in Nat, NEW now \in Nat
  PROVE  /\ Coming(s, st, sn, now) => Coming(s, st, sn, now + 1)
         /\ Kept(st) /\ After(st, sn, now) => After(st, sn, now + 1)
<1>1. ASSUME NEW i \in 1 .. Len(s), Brackets(s[i]) PROVE s[i].time \in Nat
  <2>1. s[i] \in Event \cup Finding
    BY DEF Events
  <2>. QED  BY <1>1, <2>1 DEF Brackets, Event, Finding
<1>2. Coming(s, st, sn, now) => Coming(s, st, sn, now + 1)
  BY <1>1 DEF Coming
<1>3. ASSUME Kept(st), After(st, sn, now) PROVE After(st, sn, now + 1)
  <2>1. /\ st.suspended \in Nat /\ st.totalPause \in Nat /\ st.lastPause.to \in Nat
    BY DEF State, Pause
  <2>2. ASSUME NEW i \in 1 .. Len(Listed(st)) PROVE now + 1 > Listed(st)[i].pause.to
    <3>1. Listed(st)[i] \in Collection
      BY <1>3, ListedType
    <3>2. Listed(st)[i].pause.to \in Nat
      BY <3>1 DEF Collection, Pause
    <3>. QED  BY <1>3, <3>2 DEF After
  <2>. QED  BY <1>3, <2>1, <2>2 DEF After
<1>. QED  BY <1>2, <1>3

----------------------------------------------------------------------------
(* The steps.                                                              *)

\* The types of the variables the order is about.
LEMMA Typed ==
  ASSUME TypeOK
  PROVE  /\ stream \in Events /\ written["collector"] \in Events
         /\ written["mutator"] \in Events /\ state \in State
         /\ written = [th \in Threads |-> written[th]]
         /\ clock \in Nat /\ since \in Nat
BY DEF TypeOK, Events, Threads

\* Nothing is remembered after a reset.
LEMMA Forgotten ==
  /\ Consistent(NewState, <<>>, NoTime)
  /\ \A t \in Nat : t > 0 => After(NewState, NoTime, t)
<1>1. /\ Listed(NewState) = <<>> /\ NewState.recent = <<>>
      /\ NewState.suspended = 0 /\ NewState.totalPause = 0 /\ NewState.lastPause.to = 0
      /\ NewState.gcs = 0
  BY Constants DEF NewState, Listed
<1>2. NewState \in State
  <2>1. <<>> \in Seq(Collection)
    BY EmptySeq
  <2>. QED  BY <2>1, Constants DEF NewState, State
<1>3. Latest(NewState, <<>>) /\ Once(NewState) /\ Fits(NewState, NoTime) /\ Kept(NewState)
  BY <1>1, <1>2, Constants DEF Latest, Once, Fits, Kept
<1>4. <<>> \in Seq(1 .. MaxGcs)
  BY EmptySeq
<1>. QED  BY <1>1, <1>3, <1>4, Constants DEF Consistent, After

\* The invariant holds at first.
LEMMA Starts == Init => IInv
<1>. SUFFICES ASSUME Init PROVE IInv
  OBVIOUS
<1>1. Consistent(state, starts, since)
  BY Forgotten DEF Init
<1>2. TypeOK
  <2>1. /\ <<>> \in Seq(Event \cup Finding) /\ <<>> \in Seq(DOMAIN Occurrences)
    BY EmptySeq
  <2>2. [n \in 1 .. MaxGcs |-> NoPause] \in [1 .. MaxGcs -> Pause]
    BY Constants
  <2>3. NothingWritten \in [Threads -> Seq(Event \cup Finding)]
    BY <2>1 DEF NothingWritten
  <2>4. step \in Steps /\ watching \in BOOLEAN
    BY DEF Init, Steps
  <2>5. gc = 0 /\ clock = 0 /\ opened = 0 /\ happened = 0
    BY Constants DEF Init
  <2>6. /\ gc \in 0 .. MaxGcs /\ clock \in Nat
        /\ opened \in 0 .. MaxSessions /\ happened \in 0 .. MaxFindings
    BY <2>5, Constants
  <2>7. /\ written \in [Threads -> Seq(Event \cup Finding)]
        /\ brackets \in [1 .. MaxGcs -> Pause]
        /\ stream \in Seq(Event \cup Finding) /\ told \in Seq(DOMAIN Occurrences)
    BY <2>1, <2>2, <2>3 DEF Init
  <2>. QED  BY <1>1, <2>4, <2>6, <2>7 DEF TypeOK, Consistent, Kept
<1>3. GcNumbered
  BY DEF Init, GcNumbered
<1>4. Delivery
  <2>1. After(state, since, clock + 1)
    BY Forgotten, Constants DEF Init
  <2>2. stream = <<>> /\ written["collector"] = <<>> /\ written["mutator"] = <<>>
    BY DEF Init, NothingWritten, Threads
  <2>3. <<>> \in Events /\ Quiet(<<>>)
    BY EmptySeq DEF Events, Quiet
  <2>. QED  BY <2>1, <2>2, <2>3, QuietOrder DEF Delivery
<1>. QED  BY <1>1, <1>2, <1>3, <1>4 DEF IInv

\* Reporting an event.  Only the collector's thread reports a bracket.
LEMMA Reports ==
  ASSUME IInv, NEW th \in Threads, NEW n \in 1 .. MaxGcs,
         NEW type \in {"Suspend", "Start", "End", "HeapStats", "Restart"},
         type \in {"Suspend", "Restart"} => th = "collector",
         Report(th, type, n)
  PROVE  /\ clock' \in Nat /\ clock' = clock + 1
         /\ written' \in [Threads -> Seq(Event \cup Finding)]
         /\ Consistent(state, starts, since)' /\ Delivery'
<1>. DEFINE e == [type |-> type, gc |-> n, time |-> clock + 1]
<1>0. /\ TypeOK /\ Consistent(state, starts, since) /\ Delivery
      /\ stream \in Events /\ written["collector"] \in Events
      /\ written["mutator"] \in Events /\ state \in State
      /\ clock \in Nat /\ since \in Nat
  BY Typed DEF IInv
<1>1. e \in Event \cup Finding /\ (Brackets(e) => e.time = clock + 1)
      /\ (Brackets(e) => th = "collector")
  BY <1>0 DEF Event, Brackets
<1>2. /\ state' = state /\ starts' = starts /\ since' = since /\ stream' = stream
      /\ clock' = clock + 1
      /\ written' = IF watching THEN [written EXCEPT ![th] = Append(@, e)] ELSE written
  BY DEF Report, findingVars
<1>. HIDE DEF e
<1>3. Consistent(state, starts, since)'
  BY <1>0, <1>2
<1>4. /\ InOrder(stream) /\ InOrder(written["collector"])
      /\ Ahead(stream, written["collector"]) /\ Quiet(written["mutator"])
      /\ Coming(stream, state, since, clock + 1)
      /\ Coming(written["collector"], state, since, clock + 1)
      /\ After(state, since, clock + 1) /\ Kept(state) /\ clock + 1 \in Nat
  BY <1>0 DEF Delivery, Consistent
<1>5. /\ Coming(stream, state, since, clock + 2)
      /\ Coming(written["collector"], state, since, clock + 2)
      /\ After(state, since, clock + 2)
  <2>1. (clock + 1) + 1 = clock + 2
    BY <1>0
  <2>. QED  BY <1>0, <1>4, <2>1, Later
<1>6. clock' + 1 = clock + 2
  BY <1>0, <1>2
<1>7. CASE ~watching
  <2>1. written' = written
    BY <1>2, <1>7
  <2>2. Delivery'
    BY <1>2, <1>4, <1>5, <1>6, <2>1 DEF Delivery
  <2>. QED  BY <1>0, <1>2, <1>3, <2>1, <2>2 DEF TypeOK
<1>8. CASE watching /\ th = "collector"
  <2>1. /\ Append(written["collector"], e) \in Events
        /\ InOrder(Append(written["collector"], e))
        /\ Ahead(stream, Append(written["collector"], e))
        /\ Coming(Append(written["collector"], e), state, since, (clock + 1) + 1)
    BY <1>0, <1>1, <1>4, Appended
  <2>2. /\ written' = [written EXCEPT !["collector"] = Append(written["collector"], e)]
        /\ written'["collector"] = Append(written["collector"], e)
        /\ written'["mutator"] = written["mutator"]
    BY <1>0, <1>2, <1>8 DEF TypeOK, Threads
  <2>3. written' \in [Threads -> Seq(Event \cup Finding)]
    BY <1>0, <2>1, <2>2 DEF TypeOK, Threads, Events
  <2>4. (clock + 1) + 1 = clock + 2
    BY <1>0
  <2>5. Delivery'
    BY <1>2, <1>4, <1>5, <1>6, <2>1, <2>2, <2>4 DEF Delivery
  <2>. QED  BY <1>0, <1>2, <1>3, <2>3, <2>5
<1>9. CASE watching /\ th = "mutator"
  <2>1. ~Brackets(e)
    BY <1>1, <1>9
  <2>2. /\ InOrder(written["mutator"]) /\ Ahead(stream, written["mutator"])
        /\ Coming(written["mutator"], state, since, clock + 1)
    BY <1>0, <1>4, QuietOrder
  <2>3. /\ Append(written["mutator"], e) \in Events
        /\ Quiet(Append(written["mutator"], e))
    BY <1>0, <1>1, <1>4, <2>1, <2>2, Appended
  <2>4. /\ written' = [written EXCEPT !["mutator"] = Append(written["mutator"], e)]
        /\ written'["collector"] = written["collector"]
        /\ written'["mutator"] = Append(written["mutator"], e)
    BY <1>0, <1>2, <1>9 DEF TypeOK, Threads
  <2>5. written' \in [Threads -> Seq(Event \cup Finding)]
    BY <1>0, <2>3, <2>4 DEF TypeOK, Threads, Events
  <2>6. Delivery'
    BY <1>2, <1>4, <1>5, <1>6, <2>3, <2>4 DEF Delivery
  <2>. QED  BY <1>0, <1>2, <1>3, <2>5, <2>6
<1>. QED  BY <1>7, <1>8, <1>9 DEF Threads

\* A step that reports an event and otherwise changes only the runtime's own
\* variables.
LEMMA RuntimeStep ==
  ASSUME IInv, NEW th \in Threads, NEW n \in 1 .. MaxGcs,
         NEW type \in {"Suspend", "Start", "End", "HeapStats", "Restart"},
         type \in {"Suspend", "Restart"} => th = "collector",
         Report(th, type, n),
         step' \in Steps, gc' \in 1 .. MaxGcs, brackets' \in [1 .. MaxGcs -> Pause]
  PROVE  IInv'
<1>1. /\ clock' \in Nat /\ clock' = clock + 1
      /\ written' \in [Threads -> Seq(Event \cup Finding)]
      /\ Consistent(state, starts, since)' /\ Delivery'
  BY Reports
<1>2. /\ happened' = happened /\ told' = told /\ opened' = opened /\ watching' = watching
      /\ stream' = stream /\ state' = state /\ starts' = starts /\ since' = since
  BY DEF Report, findingVars
<1>3. TypeOK
  BY DEF IInv
<1>4. gc' \in 0 .. MaxGcs /\ gc' > 0
  BY Constants
<1>5. TypeOK'
  BY <1>1, <1>2, <1>3, <1>4 DEF TypeOK
<1>. QED  BY <1>1, <1>4, <1>5 DEF IInv, GcNumbered

\* The runtime suspends its threads.
LEMMA SuspendStep ==
  ASSUME IInv, Suspend
  PROVE  IInv'
<1>1. /\ step' = "suspended" /\ gc' = gc + 1 /\ Report("collector", "Suspend", gc + 1)
      /\ brackets' = [brackets EXCEPT ![gc + 1].from = clock + 1]
      /\ gc + happened < MaxGcs
  BY DEF Suspend
<1>2. /\ gc \in 0 .. MaxGcs /\ happened \in 0 .. MaxFindings /\ clock \in Nat
      /\ brackets \in [1 .. MaxGcs -> Pause]
  BY DEF IInv, TypeOK
<1>3. gc + 1 \in 1 .. MaxGcs
  BY <1>1, <1>2, Constants
<1>4. brackets' \in [1 .. MaxGcs -> Pause]
  <2>1. clock + 1 \in Nat /\ brackets[gc + 1] \in Pause
    BY <1>2, <1>3
  <2>2. [brackets[gc + 1] EXCEPT !.from = clock + 1] \in Pause
    BY <2>1 DEF Pause
  <2>. QED  BY <1>1, <1>2, <2>2
<1>. QED  BY <1>1, <1>3, <1>4, RuntimeStep DEF Steps, Threads

\* A collection starts, on any thread.
LEMMA CollectStep ==
  ASSUME IInv, NEW th \in Threads, Collect(th)
  PROVE  IInv'
<1>1. /\ step = "suspended" /\ step' = "collecting" /\ gc' = gc /\ brackets' = brackets
      /\ Report(th, "Start", gc)
  BY DEF Collect
<1>2. gc \in 1 .. MaxGcs /\ brackets \in [1 .. MaxGcs -> Pause]
  BY <1>1, Constants DEF IInv, TypeOK, GcNumbered
<1>. QED  BY <1>1, <1>2, RuntimeStep DEF Steps

\* A collection ends.
LEMMA EndStep ==
  ASSUME IInv, EndCollection
  PROVE  IInv'
<1>1. /\ step = "collecting" /\ step' = "ended" /\ gc' = gc /\ brackets' = brackets
      /\ Report("collector", "End", gc)
  BY DEF EndCollection
<1>2. gc \in 1 .. MaxGcs /\ brackets \in [1 .. MaxGcs -> Pause]
  BY <1>1, Constants DEF IInv, TypeOK, GcNumbered
<1>. QED  BY <1>1, <1>2, RuntimeStep DEF Steps, Threads

\* The heap is measured.
LEMMA MeasureStep ==
  ASSUME IInv, Measure
  PROVE  IInv'
<1>1. /\ step = "ended" /\ step' = "measured" /\ gc' = gc /\ brackets' = brackets
      /\ Report("collector", "HeapStats", gc)
  BY DEF Measure
<1>2. gc \in 1 .. MaxGcs /\ brackets \in [1 .. MaxGcs -> Pause]
  BY <1>1, Constants DEF IInv, TypeOK, GcNumbered
<1>. QED  BY <1>1, <1>2, RuntimeStep DEF Steps, Threads

\* The runtime resumes its threads.
LEMMA RestartStep ==
  ASSUME IInv, Restart
  PROVE  IInv'
<1>1. /\ step = "measured" /\ step' = "running" /\ gc' = gc
      /\ brackets' = [brackets EXCEPT ![gc].to = clock + 1]
      /\ Report("collector", "Restart", gc)
  BY DEF Restart
<1>2. gc \in 1 .. MaxGcs /\ brackets \in [1 .. MaxGcs -> Pause] /\ clock \in Nat
  BY <1>1, Constants DEF IInv, TypeOK, GcNumbered
<1>3. brackets' \in [1 .. MaxGcs -> Pause]
  <2>1. clock + 1 \in Nat /\ brackets[gc] \in Pause
    BY <1>2
  <2>2. [brackets[gc] EXCEPT !.to = clock + 1] \in Pause
    BY <2>1 DEF Pause
  <2>. QED  BY <1>1, <1>2, <2>2
<1>. QED  BY <1>1, <1>2, <1>3, RuntimeStep DEF Steps, Threads

\* A thread allocates, throws or has waited.
LEMMA OccurStep ==
  ASSUME IInv, NEW o \in DOMAIN Occurrences, Occur(o)
  PROVE  IInv'
<1>. DEFINE e == [type |-> "Finding", of |-> o]
<1>0. /\ TypeOK /\ Delivery /\ stream \in Events /\ written["mutator"] \in Events
      /\ written["collector"] \in Events /\ clock \in Nat
  BY Typed DEF IInv
<1>1. e \in Event \cup Finding /\ ~Brackets(e)
  BY DEF Finding, Brackets
<1>2. /\ written' = [written EXCEPT !["mutator"] = Append(@, e)]
      /\ happened' = happened + 1 /\ happened < MaxFindings
      /\ UNCHANGED <<step, gc, clock, brackets, findingVars, watching, opened, stream, state,
                     starts, since>>
  BY DEF Occur
<1>. HIDE DEF e
<1>3. /\ Append(written["mutator"], e) \in Events /\ Quiet(Append(written["mutator"], e))
  <2>1. /\ InOrder(written["mutator"]) /\ Ahead(stream, written["mutator"])
        /\ Coming(written["mutator"], state, since, clock + 1)
    BY <1>0, QuietOrder DEF Delivery
  <2>. QED  BY <1>0, <1>1, <2>1, Appended DEF Delivery
<1>4. /\ written'["collector"] = written["collector"]
      /\ written'["mutator"] = Append(written["mutator"], e)
      /\ written' \in [Threads -> Seq(Event \cup Finding)]
  BY <1>0, <1>2, <1>3 DEF TypeOK, Threads, Events
<1>5. Delivery'
  BY <1>0, <1>2, <1>3, <1>4 DEF Delivery
<1>6. TypeOK'
  <2>1. happened' \in 0 .. MaxFindings
    BY <1>0, <1>2, Constants DEF TypeOK
  <2>. QED  BY <1>0, <1>2, <1>4, <2>1 DEF TypeOK, findingVars
<1>7. GcNumbered' /\ Consistent(state, starts, since)'
  BY <1>2 DEF IInv, GcNumbered
<1>. QED  BY <1>5, <1>6, <1>7 DEF IInv

\* A block is written, either thread first.
LEMMA BlockStep ==
  ASSUME IInv, WriteBlock
  PROVE  IInv'
<1>. DEFINE c == written["collector"]
            m == written["mutator"]
<1>0. /\ TypeOK /\ Delivery /\ stream \in Events /\ c \in Events /\ m \in Events
  BY Typed DEF IInv
<1>1. /\ written' = NothingWritten
      /\ UNCHANGED <<runtimeVars, findingVars, watching, opened, state, starts, since>>
  BY DEF WriteBlock
<1>2. stream' = (stream \o c) \o m \/ stream' = (stream \o m) \o c
  <2>1. PICK first \in Threads : LET second == CHOOSE th \in Threads : th # first
                                 IN  stream' = stream \o written[first] \o written[second]
    BY DEF WriteBlock
  <2>2. (CHOOSE th \in Threads : th # "collector") = "mutator"
    BY DEF Threads
  <2>3. (CHOOSE th \in Threads : th # "mutator") = "collector"
    BY DEF Threads
  <2>. QED  BY <2>1, <2>2, <2>3 DEF Threads
<1>3. /\ InOrder(stream) /\ InOrder(c) /\ Ahead(stream, c) /\ Quiet(m)
      /\ Coming(stream, state, since, clock + 1) /\ Coming(c, state, since, clock + 1)
      /\ After(state, since, clock + 1)
  BY <1>0 DEF Delivery
<1>. HIDE DEF c, m
<1>4. /\ InOrder(m) /\ Ahead(stream, m) /\ Ahead(c, m) /\ Ahead(m, c)
      /\ Coming(m, state, since, clock + 1)
  BY <1>0, <1>3, QuietOrder
<1>5. /\ stream' \in Events /\ InOrder(stream') /\ Coming(stream', state, since, clock + 1)
  <2>1. CASE stream' = (stream \o c) \o m
    <3>1. /\ stream \o c \in Events /\ InOrder(stream \o c) /\ Ahead(stream \o c, m)
          /\ Coming(stream \o c, state, since, clock + 1)
      BY <1>0, <1>3, <1>4, Joined, JoinedOrder, JoinedAhead, JoinedComing
    <3>. QED  BY <1>0, <1>4, <2>1, <3>1, Joined, JoinedOrder, JoinedComing
  <2>2. CASE stream' = (stream \o m) \o c
    <3>1. /\ stream \o m \in Events /\ InOrder(stream \o m) /\ Ahead(stream \o m, c)
          /\ Coming(stream \o m, state, since, clock + 1)
      BY <1>0, <1>3, <1>4, Joined, JoinedOrder, JoinedAhead, JoinedComing
    <3>. QED  BY <1>0, <1>3, <2>2, <3>1, Joined, JoinedOrder, JoinedComing
  <2>. QED  BY <1>2, <2>1, <2>2
<1>6. /\ written'["collector"] = <<>> /\ written'["mutator"] = <<>>
      /\ written' \in [Threads -> Seq(Event \cup Finding)]
  BY <1>1 DEF NothingWritten, Threads
<1>7. clock' = clock /\ state' = state /\ since' = since /\ starts' = starts
      /\ step' = step /\ gc' = gc
  BY <1>1 DEF runtimeVars
<1>8. Delivery'
  <2>1. <<>> \in Events /\ Quiet(<<>>)
    BY DEF Events, Quiet
  <2>2. /\ InOrder(<<>>) /\ Ahead(stream', <<>>) /\ Coming(<<>>, state, since, clock + 1)
    BY <1>5, <2>1, QuietOrder
  <2>. QED  BY <1>3, <1>5, <1>6, <1>7, <2>1, <2>2 DEF Delivery
<1>9. TypeOK'
  BY <1>0, <1>1, <1>5, <1>6 DEF TypeOK, runtimeVars, findingVars, Events
<1>. QED  BY <1>7, <1>8, <1>9 DEF IInv, GcNumbered

\* The screen is opened.
LEMMA OpenStep ==
  ASSUME IInv, Open
  PROVE  IInv'
<1>1. /\ watching' = TRUE /\ opened' = opened + 1 /\ opened < MaxSessions
      /\ UNCHANGED <<runtimeVars, findingVars, written, stream, state, starts, since>>
  BY DEF Open
<1>2. opened' \in 0 .. MaxSessions
  BY <1>1, Constants DEF IInv, TypeOK
<1>3. TypeOK'
  BY <1>1, <1>2 DEF IInv, TypeOK, runtimeVars, findingVars
<1>4. Delivery' /\ GcNumbered' /\ Consistent(state, starts, since)'
  BY <1>1 DEF IInv, Delivery, GcNumbered, runtimeVars
<1>. QED  BY <1>3, <1>4 DEF IInv

\* The first events of a sequence are in the order they were.
LEMMA Prefix ==
  ASSUME NEW s \in Events, NEW k \in 0 .. Len(s), NEW st, NEW sn, NEW now
  PROVE  /\ SubSeq(s, 1, k) \in Events
         /\ InOrder(s) => InOrder(SubSeq(s, 1, k))
         /\ Coming(s, st, sn, now) => Coming(SubSeq(s, 1, k), st, sn, now)
<1>0. Len(s) \in Nat /\ k \in Nat /\ k <= Len(s)
  BY DEF Events
<1>1. /\ SubSeq(s, 1, k) \in Events /\ Len(SubSeq(s, 1, k)) = k
      /\ \A i \in 1 .. k : SubSeq(s, 1, k)[i] = s[i]
  <2>1. \A i \in 1 .. k : i \in 1 .. Len(s)
    BY <1>0
  <2>2. s \in Seq(Event \cup Finding)
    BY DEF Events
  <2>3. /\ SubSeq(s, 1, k) \in Seq(Event \cup Finding)
        /\ Len(SubSeq(s, 1, k)) = IF 1 <= k THEN k - 1 + 1 ELSE 0
        /\ \A i \in 1 .. k - 1 + 1 : SubSeq(s, 1, k)[i] = s[1 + i - 1]
    BY <1>0, <2>1, <2>2, SubSeqProperties
  <2>4. Len(SubSeq(s, 1, k)) = k
    BY <1>0, <2>3
  <2>5. \A i \in 1 .. k : SubSeq(s, 1, k)[i] = s[i]
    <3>1. k - 1 + 1 = k /\ \A i \in 1 .. k : 1 + i - 1 = i
      BY <1>0
    <3>. QED  BY <2>3, <3>1
  <2>. QED  BY <2>3, <2>4, <2>5 DEF Events
<1>2. \A i \in 1 .. k : i \in 1 .. Len(s)
  BY <1>0
<1>. HIDE DEF Events
<1>. QED  BY <1>1, <1>2 DEF InOrder, Coming

\* The screen is left, and what was not sent is lost.
LEMMA CloseStep ==
  ASSUME IInv, Close
  PROVE  IInv'
<1>0. /\ TypeOK /\ Delivery /\ stream \in Events
  BY Typed DEF IInv
<1>1. /\ watching' = FALSE /\ written' = NothingWritten
      /\ UNCHANGED <<runtimeVars, findingVars, opened, state, starts, since>>
  BY DEF Close
<1>2. PICK k \in 0 .. Len(stream) : stream' = SubSeq(stream, 1, k)
  BY DEF Close
<1>3. /\ stream' \in Events /\ InOrder(stream') /\ Coming(stream', state, since, clock + 1)
  BY <1>0, <1>2, Prefix DEF Delivery
<1>4. /\ written'["collector"] = <<>> /\ written'["mutator"] = <<>>
      /\ written' \in [Threads -> Seq(Event \cup Finding)]
  BY <1>1 DEF NothingWritten, Threads
<1>5. clock' = clock /\ state' = state /\ since' = since /\ starts' = starts
      /\ step' = step /\ gc' = gc
  BY <1>1 DEF runtimeVars
<1>6. Delivery'
  <2>1. <<>> \in Events /\ Quiet(<<>>)
    BY DEF Events, Quiet
  <2>2. /\ InOrder(<<>>) /\ Ahead(stream', <<>>) /\ Coming(<<>>, state, since, clock + 1)
    BY <1>3, <2>1, QuietOrder
  <2>. QED  BY <1>0, <1>3, <1>4, <1>5, <2>1, <2>2 DEF Delivery
<1>7. TypeOK'
  BY <1>0, <1>1, <1>3, <1>4 DEF TypeOK, runtimeVars, findingVars, Events
<1>. QED  BY <1>5, <1>6, <1>7 DEF IInv, GcNumbered

\* The head of the stream is recorded.
LEMMA RecordStep ==
  ASSUME IInv, Record
  PROVE  IInv'
<1>. DEFINE e == Head(stream)
            c == written["collector"]
<1>0. /\ TypeOK /\ Delivery /\ Consistent(state, starts, since)
      /\ stream \in Events /\ c \in Events /\ clock + 1 \in Nat
  BY Typed DEF IInv
<1>1. /\ stream # <<>>
      /\ state' = RecordRuntime(state, e)
      /\ starts' = IF e.type = "Start" THEN Append(starts, e.gc) ELSE starts
      /\ since' = IF e.type = "Suspend" /\ since = NoTime THEN e.time ELSE since
      /\ told' = IF e.type = "Finding" THEN Append(told, e.of) ELSE told
      /\ stream' = Tail(stream)
      /\ UNCHANGED <<runtimeVars, watching, opened, written>>
  BY DEF Record
<1>2. /\ e \in Event \cup Finding /\ stream' \in Events /\ Len(stream') = Len(stream) - 1
      /\ Len(stream) \in Nat /\ Len(stream) > 0 /\ e = stream[1]
      /\ \A i \in 1 .. Len(stream') : stream'[i] = stream[i + 1]
  BY <1>0, <1>1, HeadTailProperties, EmptySeq DEF Events
<1>3. /\ InOrder(stream) /\ InOrder(c) /\ Ahead(stream, c) /\ Quiet(written["mutator"])
      /\ Coming(stream, state, since, clock + 1) /\ Coming(c, state, since, clock + 1)
      /\ After(state, since, clock + 1)
  BY <1>0 DEF Delivery
<1>. HIDE DEF e, c
<1>4. 1 \in 1 .. Len(stream) /\ \A i \in 1 .. Len(stream') : i + 1 \in 1 .. Len(stream) /\ 1 < i + 1
  BY <1>2
<1>5. Brackets(e) => After(state, since, e.time) /\ e.time < clock + 1
  BY <1>2, <1>3, <1>4 DEF Coming
<1>6. Consistent(state', starts', since') /\ StaysAfter(state, since, state', since', e)
  <2>1. /\ Consistent(state, starts, since) /\ e \in Event \cup Finding
        /\ Brackets(e) => After(state, since, e.time)
    BY <1>0, <1>2, <1>5
  <2>2. ASSUME NEW b, b = RecordRuntime(state, e),
               NEW sl, sl = IF e.type = "Start" THEN Append(starts, e.gc) ELSE starts,
               NEW sm, sm = IF e.type = "Suspend" /\ since = NoTime THEN e.time ELSE since
        PROVE  Consistent(b, sl, sm) /\ StaysAfter(state, since, b, sm, e)
    BY <2>1, <2>2, Recording, Zenon
  <2>. QED  BY <1>1, <2>2
<1>7. \A s \in Events : \A i \in 1 .. Len(s) : Brackets(s[i]) => s[i].time \in Nat
  BY DEF Events, Brackets, Event, Finding
<1>8. InOrder(stream')
  <2>1. ASSUME NEW i \in 1 .. Len(stream'), NEW j \in 1 .. Len(stream'), i < j,
               Brackets(stream'[i]), Brackets(stream'[j])
        PROVE  stream'[i].time < stream'[j].time
    <3>1. i + 1 < j + 1
      BY <2>1
    <3>. QED  BY <1>2, <1>3, <1>4, <2>1, <3>1 DEF InOrder
  <2>. QED  BY <2>1 DEF InOrder
<1>9. Ahead(stream', c)
  BY <1>2, <1>3, <1>4 DEF Ahead
<1>10. Coming(stream', state', since', clock + 1)
  <2>1. ASSUME NEW i \in 1 .. Len(stream'), Brackets(stream'[i])
        PROVE  After(state', since', stream'[i].time) /\ stream'[i].time < clock + 1
    <3>1. /\ stream'[i] = stream[i + 1] /\ i + 1 \in 1 .. Len(stream)
      BY <1>2, <1>4
    <3>2. After(state, since, stream'[i].time) /\ stream'[i].time < clock + 1
      BY <1>3, <2>1, <3>1 DEF Coming
    <3>3. Brackets(e) => e.time < stream'[i].time
      BY <1>2, <1>3, <1>4, <2>1, <3>1 DEF InOrder
    <3>4. stream'[i].time \in Nat
      BY <1>2, <1>7, <2>1
    <3>. QED  BY <1>6, <3>2, <3>3, <3>4 DEF StaysAfter
  <2>. QED  BY <2>1 DEF Coming
<1>11. Coming(c, state', since', clock + 1)
  <2>1. ASSUME NEW i \in 1 .. Len(c), Brackets(c[i])
        PROVE  After(state', since', c[i].time) /\ c[i].time < clock + 1
    <3>1. After(state, since, c[i].time) /\ c[i].time < clock + 1
      BY <1>3, <2>1 DEF Coming
    <3>2. Brackets(e) => e.time < c[i].time
      BY <1>2, <1>3, <1>4, <2>1 DEF Ahead
    <3>3. c[i].time \in Nat
      BY <1>0, <1>7, <2>1
    <3>. QED  BY <1>6, <3>1, <3>2, <3>3 DEF StaysAfter
  <2>. QED  BY <2>1 DEF Coming
<1>12. After(state', since', clock + 1)
  BY <1>0, <1>3, <1>5, <1>6 DEF StaysAfter
<1>13. Delivery'
  BY <1>1, <1>3, <1>8, <1>9, <1>10, <1>11, <1>12 DEF Delivery, c, runtimeVars
<1>14. TypeOK'
  <2>1. told' \in Seq(DOMAIN Occurrences)
    <3>1. CASE e.type = "Finding"
      <4>1. e.of \in DOMAIN Occurrences
        BY <1>2, <3>1 DEF Event, Finding
      <4>2. told \in Seq(DOMAIN Occurrences)
        BY <1>0 DEF TypeOK
      <4>. QED  BY <1>1, <3>1, <4>1, <4>2, AppendProperties
    <3>2. CASE e.type # "Finding"
      BY <1>0, <1>1, <3>2 DEF TypeOK
    <3>. QED  BY <3>1, <3>2
  <2>2. /\ state' \in State /\ Len(state'.recent) <= MaxRecent
        /\ starts' \in Seq(1 .. MaxGcs) /\ since' \in Nat
    BY <1>6 DEF Consistent, Kept
  <2>. QED  BY <1>0, <1>1, <1>2, <2>1, <2>2 DEF TypeOK, runtimeVars, Events
<1>. QED  BY <1>1, <1>6, <1>13, <1>14 DEF IInv, GcNumbered, runtimeVars

\* The tallies are reset.
LEMMA ResetStep ==
  ASSUME IInv, Reset
  PROVE  IInv'
<1>. DEFINE c == written["collector"]
<1>0. /\ TypeOK /\ Delivery /\ Consistent(state, starts, since)
      /\ stream \in Events /\ c \in Events /\ clock \in Nat
  BY Typed DEF IInv
<1>1. /\ state' = NewState /\ told' = <<>> /\ starts' = <<>> /\ since' = NoTime
      /\ UNCHANGED <<runtimeVars, watching, opened, written, stream>>
  BY DEF Reset
<1>2. ASSUME NEW s \in Events, Coming(s, state, since, clock + 1)
      PROVE  Coming(s, NewState, NoTime, clock + 1)
  <2>1. ASSUME NEW i \in 1 .. Len(s), Brackets(s[i])
        PROVE  After(NewState, NoTime, s[i].time) /\ s[i].time < clock + 1
    <3>1. After(state, since, s[i].time) /\ s[i].time < clock + 1
      BY <1>2, <2>1 DEF Coming
    <3>2. s[i].time \in Nat
      BY <2>1 DEF Events, Brackets, Event, Finding
    <3>3. s[i].time > 0
      BY <1>0, <3>1, <3>2 DEF After, Consistent, Kept, State
    <3>. QED  BY <3>1, <3>2, <3>3, Forgotten
  <2>. QED  BY <2>1 DEF Coming
<1>3. After(NewState, NoTime, clock + 1)
  BY <1>0, Forgotten
<1>4. Delivery'
  BY <1>0, <1>1, <1>2, <1>3 DEF Delivery, runtimeVars
<1>5. Consistent(state, starts, since)'
  BY <1>1, Forgotten
<1>6. TypeOK'
  <2>1. told' \in Seq(DOMAIN Occurrences)
    BY <1>1, EmptySeq
  <2>2. /\ state' \in State /\ Len(state'.recent) <= MaxRecent
        /\ starts' \in Seq(1 .. MaxGcs) /\ since' \in Nat
    BY <1>5 DEF Consistent, Kept
  <2>. QED  BY <1>0, <1>1, <2>1, <2>2 DEF TypeOK, runtimeVars
<1>. QED  BY <1>0, <1>1, <1>4, <1>5, <1>6 DEF IInv, GcNumbered, runtimeVars

----------------------------------------------------------------------------
(* What is written is read back.                                           *)

\* Cells of one payload after those of another.
LEMMA CellsJoined ==
  ASSUME NEW s \in Seq(Nat), NEW t \in Seq(Nat)
  PROVE  /\ s \o t \in Seq(Nat) /\ Len(s \o t) = Len(s) + Len(t)
         /\ \A k \in 1 .. Len(s) : (s \o t)[k] = s[k]
         /\ \A k \in 1 .. Len(t) : (s \o t)[Len(s) + k] = t[k]
OBVIOUS

\* A text lies in p from a position on, and ends where it ends.
Lies(text, p, at) ==
  /\ p \in Seq(Nat) /\ at \in Nat \ {0} /\ text \in Seq(Letters) /\ at + Len(text) <= Len(p)
  /\ \A k \in 1 .. Len(text) : p[at - 1 + k] = text[k]
  /\ p[at + Len(text)] = 0

\* A text is read as itself, and to its end.
LEMMA TextReadsBack ==
  ASSUME NEW text, NEW p, NEW at, Lies(text, p, at)
  PROVE  NulFrom(p, at) = at + Len(text) /\ TextFrom(p, at) = text
<1>. DEFINE nuls == {i \in at .. Len(p) : p[i] = 0}
            end == at + Len(text)
<1>1. /\ p \in Seq(Nat) /\ at \in Nat \ {0} /\ text \in Seq(Letters) /\ Len(text) \in Nat
      /\ end \in Nat /\ end <= Len(p) /\ Len(p) \in Nat /\ end >= at /\ p[end] = 0
      /\ \A k \in 1 .. Len(text) : p[at - 1 + k] = text[k] /\ text[k] \in Letters
  BY DEF Lies
<1>. HIDE DEF end
<1>2. end \in nuls
  BY <1>1
<1>3. ASSUME NEW i \in nuls, i < end PROVE FALSE
  <2>1. i - at + 1 \in 1 .. Len(text) /\ at - 1 + (i - at + 1) = i
    BY <1>1, <1>3 DEF end
  <2>2. p[i] \in Letters
    BY <1>1, <2>1
  <2>. QED  BY <2>2 DEF Letters
<1>4. nuls \in SUBSET Nat
  BY <1>1
<1>. HIDE DEF nuls
<1>5. Min(nuls) \in nuls /\ \A i \in nuls : Min(nuls) <= i
  BY <1>2, <1>4, LeastIsMember
<1>6. Min(nuls) = end
  <2>1. Min(nuls) \in Nat /\ Min(nuls) <= end /\ ~(Min(nuls) < end)
    BY <1>2, <1>3, <1>4, <1>5
  <2>. QED  BY <1>1, <2>1
<1>7. NulFrom(p, at) = end
  BY <1>2, <1>6 DEF NulFrom, nuls
<1>8. SubSeq(p, at, end - 1) = text
  <2>1. /\ SubSeq(p, at, end - 1) \in Seq(Nat) /\ Len(SubSeq(p, at, end - 1)) = Len(text)
        /\ \A k \in 1 .. Len(text) : SubSeq(p, at, end - 1)[k] = p[at - 1 + k]
    BY <1>1 DEF end
  <2>2. text \in Seq(Nat)
    BY <1>1 DEF Letters
  <2>. QED  BY <1>1, <2>1, <2>2
<1>. QED  BY <1>7, <1>8 DEF TextFrom, end

\* A number of 32 bits is two cells, the lower one first.
LEMMA CellsOfANumber ==
  ASSUME NEW n \in Nat
  PROVE  /\ n % 65536 \in Nat /\ n \div 65536 \in Nat
         /\ (n % 65536) + 65536 * (n \div 65536) = n
OBVIOUS

\* How the payload of an allocation begins.
Head9(low, code, full) ==
  <<low % 65536, low \div 65536, code, 0, 1, full % 65536, full \div 65536, 0, 0>>

\* What an allocation's payload has where.
LEMMA AllocationLies ==
  ASSUME NEW o, IsAllocation(o)
  PROVE  LET p == AllocationTick(o)
         IN  /\ Lies(o.name, p, 10 + PointerSize)
             /\ Len(p) >= 10 + PointerSize + Len(o.name) + 2
             /\ U32(p, 1) = IF o.wide THEN o.estimate ELSE o.amount
             /\ U64(p, 6) = IF o.wide THEN o.amount ELSE 0
             /\ U32(p, 3) = KindCode(o.kind)
<1>. DEFINE low == IF o.wide THEN o.estimate ELSE o.amount
            full == IF o.wide THEN o.amount ELSE 0
            code == KindCode(o.kind)
            head == Head9(low, code, full)
            a == head \o o.id
            b == a \o o.name
            c == b \o <<0>>
            p == AllocationTick(o)
            l == Len(o.name)
            P == PointerSize
<1>1. low \in Nat /\ full \in Nat /\ code \in Nat
  BY DEF IsAllocation, KindCode
<1>2. /\ o.id \in Seq(Nat) /\ Len(o.id) = P /\ o.name \in Seq(Letters) /\ o.name \in Seq(Nat)
      /\ o.rest \in Seq(Nat) /\ Len(o.rest) >= 2 /\ P \in Nat /\ l \in Nat /\ Len(o.rest) \in Nat
  BY PointerAssumption DEF IsAllocation, Letters
<1>3. p = c \o o.rest
  BY DEF AllocationTick, Head9
<1>. HIDE DEF low, full, code
<1>4. /\ head \in Seq(Nat) /\ Len(head) = 9
      /\ U32(head, 1) = low /\ U64(head, 6) = full /\ U32(head, 3) = code
  <2>1. /\ low % 65536 \in Nat /\ low \div 65536 \in Nat /\ full % 65536 \in Nat
        /\ full \div 65536 \in Nat
        /\ (low % 65536) + 65536 * (low \div 65536) = low
        /\ (full % 65536) + 65536 * (full \div 65536) = full
    BY <1>1, CellsOfANumber
  <2>. QED  BY <1>1, <2>1 DEF Head9, U32, U64
<1>. HIDE DEF head, p, l, P
<1>5. /\ a \in Seq(Nat) /\ Len(a) = 9 + P /\ \A k \in 1 .. 9 : a[k] = head[k]
  <2>1. /\ a \in Seq(Nat) /\ Len(a) = Len(head) + Len(o.id)
        /\ \A k \in 1 .. Len(head) : a[k] = head[k]
    BY <1>2, <1>4, CellsJoined
  <2>. HIDE DEF a
  <2>. QED  BY <1>2, <1>4, <2>1
<1>. HIDE DEF a
<1>6. /\ b \in Seq(Nat) /\ Len(b) = 9 + P + l /\ \A k \in 1 .. 9 : b[k] = head[k]
      /\ \A k \in 1 .. l : b[9 + P + k] = o.name[k]
  <2>1. /\ b \in Seq(Nat) /\ Len(b) = Len(a) + Len(o.name)
        /\ \A k \in 1 .. Len(a) : b[k] = a[k]
        /\ \A k \in 1 .. Len(o.name) : b[Len(a) + k] = o.name[k]
    BY <1>2, <1>5, CellsJoined
  <2>2. Len(o.name) = l
    BY DEF l
  <2>. HIDE DEF b
  <2>. QED  BY <1>2, <1>5, <2>1, <2>2
<1>. HIDE DEF b
<1>7. /\ c \in Seq(Nat) /\ Len(c) = 10 + P + l /\ \A k \in 1 .. 9 + P + l : c[k] = b[k]
      /\ c[10 + P + l] = 0
  <2>1. <<0>> \in Seq(Nat) /\ Len(<<0>>) = 1 /\ <<0>>[1] = 0 /\ 1 \in 1 .. 1
    OBVIOUS
  <2>2. /\ c \in Seq(Nat) /\ Len(c) = Len(b) + 1
        /\ \A k \in 1 .. Len(b) : c[k] = b[k]
        /\ c[Len(b) + 1] = 0
    BY <1>6, <2>1, CellsJoined
  <2>. HIDE DEF c
  <2>. QED  BY <1>2, <1>6, <2>2
<1>. HIDE DEF c
<1>8. /\ p \in Seq(Nat) /\ Len(p) = Len(c) + Len(o.rest) /\ \A k \in 1 .. Len(c) : p[k] = c[k]
  <2>1. c \in Seq(Nat) /\ o.rest \in Seq(Nat)
    BY <1>2, <1>7
  <2>. QED  BY <1>3, <2>1, CellsJoined, SMT
<1>9. \A k \in 1 .. 9 : p[k] = head[k]
  <2>1. \A k \in 1 .. 9 : k \in 1 .. Len(c) /\ k \in 1 .. 9 + P + l
    BY <1>2, <1>7
  <2>2. ASSUME NEW k \in 1 .. 9 PROVE p[k] = head[k]
    <3>1. p[k] = c[k]
      BY <1>8, <2>1
    <3>2. c[k] = b[k]
      BY <1>7, <2>1
    <3>3. b[k] = head[k]
      BY <1>6
    <3>. QED  BY <3>1, <3>2, <3>3
  <2>. QED  BY <2>2
<1>10. \A k \in 1 .. l : p[9 + P + k] = o.name[k]
  <2>1. ASSUME NEW k \in 1 .. l PROVE p[9 + P + k] = o.name[k]
    <3>1. 9 + P + k \in 1 .. 9 + P + l /\ 9 + P + k \in 1 .. Len(c)
      BY <1>2, <1>7
    <3>. QED  BY <1>6, <1>7, <1>8, <3>1
  <2>. QED  BY <2>1
<1>11. p[10 + P + l] = 0
  <2>1. 10 + P + l \in 1 .. Len(c)
    BY <1>2, <1>7
  <2>. QED  BY <1>7, <1>8, <2>1
<1>12. Len(p) >= 10 + P + l + 2
  BY <1>2, <1>7, <1>8
<1>13. Lies(o.name, p, 10 + P)
  <2>1. \A k \in 1 .. l : p[(10 + P) - 1 + k] = o.name[k]
    <3>1. \A k \in 1 .. l : (10 + P) - 1 + k = 9 + P + k
      BY <1>2
    <3>. QED  BY <1>10, <3>1
  <2>2. 10 + P \in Nat \ {0} /\ (10 + P) + l = 10 + P + l
    BY <1>2
  <2>4. (10 + P) + l <= Len(p)
    BY <1>2, <1>12
  <2>3. p[(10 + P) + l] = 0
    BY <1>11, <2>2
  <2>. QED  BY <1>2, <1>8, <2>1, <2>2, <2>3, <2>4 DEF Lies, l
<1>14. U32(p, 1) = low /\ U64(p, 6) = full /\ U32(p, 3) = code
  BY <1>4, <1>9 DEF U32, U64
<1>. QED  BY <1>13, <1>12, <1>14 DEF p, P, l, low, full, code

\* What is read of an allocation is the allocation.
LEMMA AllocationReadsBack ==
  ASSUME NEW o, IsAllocation(o)
  PROVE  DecodeAllocationTick(AllocationTick(o)) =
           [ok |-> TRUE, amount |-> o.amount, kind |-> o.kind, type_name |-> o.name]
<1>. DEFINE p == AllocationTick(o)
            at == 10 + PointerSize
<1>1. /\ Lies(o.name, p, at) /\ Len(p) >= at + Len(o.name) + 2
      /\ U32(p, 1) = IF o.wide THEN o.estimate ELSE o.amount
      /\ U64(p, 6) = IF o.wide THEN o.amount ELSE 0
      /\ U32(p, 3) = KindCode(o.kind)
  BY AllocationLies
<1>. HIDE DEF p
<1>2. at \in Nat /\ at > 0
  BY PointerAssumption
<1>. HIDE DEF at
<1>3. /\ NulFrom(p, at) = at + Len(o.name) /\ TextFrom(p, at) = o.name
  BY <1>1, TextReadsBack
<1>4. Len(o.name) \in Nat /\ Len(p) \in Nat
  BY <1>1 DEF Lies
<1>5. ~(NulFrom(p, at) = 0 \/ Len(p) < NulFrom(p, at) + 2)
  BY <1>1, <1>2, <1>3, <1>4
<1>6. AllocationKind(U32(p, 3)) = o.kind
  <2>1. o.kind \in {"Small", "Large", "Pinned", "Unknown"}
    BY DEF IsAllocation
  <2>. QED  BY <1>1, <2>1 DEF KindCode, AllocationKind
<1>7. (IF U64(p, 6) > 0 THEN U64(p, 6) ELSE U32(p, 1)) = o.amount
  BY <1>1 DEF IsAllocation
<1>8. DecodeAllocationTick(p) =
        IF NulFrom(p, at) = 0 \/ Len(p) < NulFrom(p, at) + 2 THEN NotDecoded
        ELSE [ok |-> TRUE, amount |-> IF U64(p, 6) > 0 THEN U64(p, 6) ELSE U32(p, 1),
              kind |-> AllocationKind(U32(p, 3)), type_name |-> TextFrom(p, at)]
  BY DEF DecodeAllocationTick, at
<1>. QED  BY <1>3, <1>5, <1>6, <1>7, <1>8, Zenon DEF p

\* What is read of an exception is the exception.
LEMMA ExceptionReadsBack ==
  ASSUME NEW o, IsException(o)
  PROVE  DecodeExceptionThrown(ExceptionThrown(o)) =
           [ok |-> TRUE, type_name |-> o.name, message |-> o.message]
<1>. DEFINE a == o.name \o <<0>>
            b == a \o o.message
            c == b \o <<0>>
            p == c \o o.rest
            n == Len(o.name)
            m == Len(o.message)
<1>1. /\ o.name \in Seq(Letters) /\ o.name \in Seq(Nat) /\ o.message \in Seq(Letters)
      /\ o.message \in Seq(Nat) /\ o.rest \in Seq(Nat)
      /\ n \in Nat /\ m \in Nat /\ Len(o.rest) \in Nat
  BY DEF IsException, Letters
<1>0. n \in Nat /\ m \in Nat /\ Len(o.rest) \in Nat
  BY <1>1
<1>2. <<0>> \in Seq(Nat) /\ Len(<<0>>) = 1 /\ <<0>>[1] = 0 /\ 1 \in 1 .. 1
  OBVIOUS
<1>3. p = ExceptionThrown(o)
  BY DEF ExceptionThrown
<1>4. /\ a \in Seq(Nat) /\ Len(a) = n + 1 /\ \A k \in 1 .. n : a[k] = o.name[k]
      /\ a[n + 1] = 0
  <2>. HIDE DEF n
  <2>1. /\ a \in Seq(Nat) /\ Len(a) = Len(o.name) + 1
        /\ \A k \in 1 .. Len(o.name) : a[k] = o.name[k]
        /\ a[Len(o.name) + 1] = 0
    BY <1>1, <1>2, CellsJoined
  <2>. QED  BY <2>1 DEF n
<1>. HIDE DEF a
<1>5. /\ b \in Seq(Nat) /\ Len(b) = n + 1 + m /\ \A k \in 1 .. n + 1 : b[k] = a[k]
      /\ \A k \in 1 .. m : b[n + 1 + k] = o.message[k]
  <2>1. /\ b \in Seq(Nat) /\ Len(b) = Len(a) + Len(o.message)
        /\ \A k \in 1 .. Len(a) : b[k] = a[k]
        /\ \A k \in 1 .. Len(o.message) : b[Len(a) + k] = o.message[k]
    BY <1>1, <1>4, CellsJoined
  <2>. HIDE DEF n, b
  <2>. QED  BY <1>1, <1>4, <2>1
<1>. HIDE DEF b, n, m
<1>6. /\ c \in Seq(Nat) /\ Len(c) = n + m + 2 /\ \A k \in 1 .. n + 1 + m : c[k] = b[k]
      /\ c[n + m + 2] = 0
  <2>1. /\ c \in Seq(Nat) /\ Len(c) = Len(b) + 1
        /\ \A k \in 1 .. Len(b) : c[k] = b[k]
        /\ c[Len(b) + 1] = 0
    BY <1>2, <1>5, CellsJoined
  <2>. HIDE DEF c
  <2>. QED  BY <1>1, <1>5, <2>1
<1>. HIDE DEF c
<1>7. /\ p \in Seq(Nat) /\ Len(p) = n + m + 2 + Len(o.rest)
      /\ \A k \in 1 .. n + m + 2 : p[k] = c[k]
  <2>1. /\ p \in Seq(Nat) /\ Len(p) = Len(c) + Len(o.rest)
        /\ \A k \in 1 .. Len(c) : p[k] = c[k]
    BY <1>1, <1>6, CellsJoined
  <2>. HIDE DEF p
  <2>. QED  BY <1>6, <2>1
<1>. HIDE DEF p
<1>8. Len(p) \in Nat /\ Len(p) >= n + m + 2
  <2>. DEFINE whole == Len(p)
              more == Len(o.rest)
  <2>1. whole = n + m + 2 + more
    BY <1>7
  <2>. HIDE DEF whole
  <2>2. more \in Nat
    BY <1>0
  <2>. HIDE DEF more
  <2>3. whole \in Nat /\ whole >= n + m + 2
    BY <1>0, <2>1, <2>2
  <2>. QED  BY <2>3 DEF whole
<1>9. Lies(o.name, p, 1)
  <2>1. ASSUME NEW k \in 1 .. n PROVE p[1 - 1 + k] = o.name[k]
    <3>1. k \in 1 .. n + 1 /\ k \in 1 .. n + 1 + m /\ k \in 1 .. n + m + 2 /\ 1 - 1 + k = k
      BY <1>1
    <3>. QED  BY <1>4, <1>5, <1>6, <1>7, <3>1
  <2>2. p[1 + n] = 0
    <3>1. /\ n + 1 \in 1 .. n + 1 /\ n + 1 \in 1 .. n + 1 + m /\ n + 1 \in 1 .. n + m + 2
          /\ 1 + n = n + 1
      BY <1>1
    <3>. QED  BY <1>4, <1>5, <1>6, <1>7, <3>1
  <2>3. 1 + n <= Len(p)
    BY <1>0, <1>8
  <2>4. 1 \in Nat \ {0}
    OBVIOUS
  <2>. QED  BY <1>1, <1>7, <2>1, <2>2, <2>3, <2>4 DEF Lies, n
<1>10. Lies(o.message, p, n + 2)
  <2>1. ASSUME NEW k \in 1 .. m PROVE p[(n + 2) - 1 + k] = o.message[k]
    <3>1. /\ n + 1 + k \in 1 .. n + 1 + m /\ n + 1 + k \in 1 .. n + m + 2
          /\ (n + 2) - 1 + k = n + 1 + k
      BY <1>1
    <3>. QED  BY <1>5, <1>6, <1>7, <3>1
  <2>2. p[(n + 2) + m] = 0
    <3>1. n + m + 2 \in 1 .. n + m + 2 /\ (n + 2) + m = n + m + 2
      BY <1>1
    <3>. QED  BY <1>6, <1>7, <3>1
  <2>3. (n + 2) + m <= Len(p)
    BY <1>0, <1>8
  <2>4. n + 2 \in Nat \ {0}
    BY <1>0
  <2>. QED  BY <1>1, <1>7, <2>1, <2>2, <2>3, <2>4 DEF Lies, m
<1>11. NulFrom(p, 1) = 1 + n /\ TextFrom(p, 1) = o.name
  BY <1>9, TextReadsBack DEF n
<1>12. NulFrom(p, n + 2) = n + 2 + m /\ TextFrom(p, n + 2) = o.message
  BY <1>10, TextReadsBack DEF m
<1>13. NulFrom(p, 1) + 1 = n + 2 /\ n + 2 # 1 /\ n + 2 + m # 0
  BY <1>1, <1>11
<1>. QED  BY <1>3, <1>12, <1>11, <1>13 DEF DecodeExceptionThrown

\* What is read of a wait for a lock is the wait.
LEMMA ContentionReadsBack ==
  ASSUME NEW o, IsContention(o)
  PROVE  DecodeContentionStop(ContentionStop(o)) = [ok |-> TRUE, duration |-> o.amount]
BY DEF DecodeContentionStop, ContentionStop

----------------------------------------------------------------------------
(* The places in a list of occurrences.                                    *)

Told == Seq(DOMAIN Occurrences)

\* ToldOf, NamesTold, AmountOf and FirstOf of any list.
Of(t, type, name) ==
  {i \in DOMAIN t : Occurrences[t[i]].type = type /\ Occurrences[t[i]].name = name}
Names(t, type) == {Occurrences[o].name : o \in {p \in Range(t) : Occurrences[p].type = type}}
Amounts(t, places) == [i \in places |-> Occurrences[t[i]].amount]
Amount(t, places) == SumFunctionOnSet(Amounts(t, places), places)
First(t, places) == Occurrences[t[Min(places)]]

\* The types of the occurrences that have amounts.
Weighed == {"Allocation", "Contention"}

\* What a type and a name select is finite, and there are numbers for it.
LEMMA PlacesAre ==
  ASSUME NEW t \in Told, NEW type, NEW name
  PROVE  /\ Of(t, type, name) \subseteq 1 .. Len(t) /\ Len(t) \in Nat
         /\ IsFiniteSet(Of(t, type, name)) /\ Cardinality(Of(t, type, name)) \in Nat
         /\ \A i \in Of(t, type, name) : i \in Nat /\ t[i] \in DOMAIN Occurrences
         /\ type \in Weighed => Numbers(Amounts(t, Of(t, type, name)), Of(t, type, name))
<1>. DEFINE S == Of(t, type, name)
<1>1. S \subseteq 1 .. Len(t) /\ Len(t) \in Nat
  BY DEF Of, Told
<1>2. IsFiniteSet(1 .. Len(t))
  BY <1>1, FS_Interval
<1>3. IsFiniteSet(S) /\ Cardinality(S) \in Nat
  <2>. HIDE DEF S
  <2>. QED  BY <1>1, <1>2, FS_Subset, FS_CardinalityType
<1>4. \A i \in S : i \in Nat /\ t[i] \in DOMAIN Occurrences /\ Occurrences[t[i]].type = type
  BY <1>1 DEF Of, Told
<1>5. type \in Weighed => \A i \in S : Occurrences[t[i]].amount \in Nat
  BY <1>4, OccurrencesAssumption DEF Weighed, IsAllocation, IsContention, IsException
<1>6. type \in Weighed => Numbers(Amounts(t, S), S)
  <2>. HIDE DEF S
  <2>. QED  BY <1>3, <1>5 DEF Numbers, Amounts
<1>. QED  BY <1>1, <1>3, <1>4, <1>6

\* How an occurrence more changes what a type and a name select.
PlaceMore(t, o, type, name) ==
  Of(Append(t, o), type, name) =
    IF Occurrences[o].type = type /\ Occurrences[o].name = name
    THEN Of(t, type, name) \cup {Len(t) + 1} ELSE Of(t, type, name)

\* One occurrence more is one place more for its type and name, and for no other.
LEMMA PlacesGrow ==
  ASSUME NEW t \in Told, NEW o \in DOMAIN Occurrences, NEW type, NEW name
  PROVE  /\ Append(t, o) \in Told /\ Len(Append(t, o)) = Len(t) + 1
         /\ Append(t, o)[Len(t) + 1] = o /\ \A i \in 1 .. Len(t) : Append(t, o)[i] = t[i]
         /\ PlaceMore(t, o, type, name)
<1>. DEFINE u == Append(t, o)
            n == Len(t) + 1
<1>1. /\ u \in Told /\ Len(u) = n /\ Len(t) \in Nat /\ u[n] = o
      /\ \A i \in 1 .. Len(t) : u[i] = t[i]
  BY DEF Told
<1>2. DOMAIN u = 1 .. n /\ DOMAIN t = 1 .. Len(t) /\ 1 .. n = (1 .. Len(t)) \cup {n}
  BY <1>1 DEF Told
<1>. HIDE DEF u
<1>3. Of(u, type, name) = IF Occurrences[o].type = type /\ Occurrences[o].name = name
                          THEN Of(t, type, name) \cup {n} ELSE Of(t, type, name)
  <2>1. \A i \in 1 .. Len(t) : i \in Of(u, type, name) <=> i \in Of(t, type, name)
    BY <1>1, <1>2 DEF Of
  <2>2. n \in Of(u, type, name) <=> Occurrences[o].type = type /\ Occurrences[o].name = name
    BY <1>1, <1>2 DEF Of
  <2>3. /\ Of(u, type, name) \subseteq (1 .. Len(t)) \cup {n}
        /\ Of(t, type, name) \subseteq 1 .. Len(t)
    BY <1>2 DEF Of
  <2>. DEFINE fits == Occurrences[o].type = type /\ Occurrences[o].name = name
              now == Of(u, type, name)
              then == Of(t, type, name)
              all == 1 .. Len(t)
  <2>4. /\ \A i \in all : i \in now <=> i \in then
        /\ n \in now <=> fits
        /\ now \subseteq all \cup {n} /\ then \subseteq all
    BY <2>1, <2>2, <2>3
  <2>. HIDE DEF n, fits, now, then, all
  <2>5. fits => now = then \cup {n}
    BY <2>4
  <2>6. ~fits => now = then
    BY <2>4
  <2>. QED  BY <2>5, <2>6, Zenon DEF fits, now, then
<1>. QED  BY <1>1, <1>3 DEF u, PlaceMore

\* The names of a type are those that select a place.
LEMMA NamesSelect ==
  ASSUME NEW t \in Told, NEW type, NEW name
  PROVE  name \in Names(t, type) <=> Of(t, type, name) # {}
BY DEF Names, Of, Told, Range

\* One occurrence more is a name more of its type at most.
LEMMA NamesGrow ==
  ASSUME NEW t \in Told, NEW o \in DOMAIN Occurrences, NEW type
  PROVE  Names(Append(t, o), type) =
           IF Occurrences[o].type = type THEN Names(t, type) \cup {Occurrences[o].name}
           ELSE Names(t, type)
<1>. DEFINE u == Append(t, o)
<1>1. IsSequence(t)
  BY SequenceOver DEF Told
<1>2. Range(u) = Range(t) \cup {o}
  BY <1>1, AppendSequence
<1>. HIDE DEF u
<1>3. Names(u, type) = IF Occurrences[o].type = type THEN Names(t, type) \cup {Occurrences[o].name}
                       ELSE Names(t, type)
  BY <1>2 DEF Names
<1>. QED  BY <1>3 DEF u

\* What the earlier places come to does not change.
LEMMA AmountStays ==
  ASSUME NEW t \in Told, NEW o \in DOMAIN Occurrences, NEW type \in Weighed, NEW name
  PROVE  Amount(Append(t, o), Of(t, type, name)) = Amount(t, Of(t, type, name))
<1>. DEFINE S == Of(t, type, name)
            u == Append(t, o)
<1>1. S \subseteq 1 .. Len(t) /\ Numbers(Amounts(t, S), S)
  BY PlacesAre
<1>2. \A i \in 1 .. Len(t) : u[i] = t[i]
  BY PlacesGrow
<1>. HIDE DEF S, u
<1>3. \A i \in S : Amounts(t, S)[i] = Amounts(u, S)[i]
  BY <1>1, <1>2 DEF Amounts
<1>. DEFINE f == Amounts(t, S)
            g == Amounts(u, S)
<1>4. SumFunctionOnSet(f, S) = SumFunctionOnSet(g, S)
  <2>. HIDE DEF f, g
  <2>. QED  BY <1>1, <1>3, SumSame DEF f, g
<1>. QED  BY <1>4 DEF Amount, S, u

\* A place more is its amount more.
LEMMA AmountGrows ==
  ASSUME NEW t \in Told, NEW o \in DOMAIN Occurrences, Occurrences[o].type \in Weighed,
         NEW name, name = Occurrences[o].name
  PROVE  LET S == Of(t, Occurrences[o].type, name)
         IN  /\ Amount(Append(t, o), S \cup {Len(t) + 1}) = Amount(t, S) + Occurrences[o].amount
             /\ Amount(t, S) \in Nat /\ Occurrences[o].amount \in Nat
<1>. DEFINE type == Occurrences[o].type
            S == Of(t, type, name)
            u == Append(t, o)
            n == Len(t) + 1
            W == S \cup {n}
            f == Amounts(u, W)
            g == Amounts(u, S)
<1>0. type \in Weighed
  OBVIOUS
<1>. HIDE DEF type
<1>1. /\ u \in Told /\ Of(u, type, name) = W /\ u[n] = o
  <2>1. u \in Told /\ u[n] = o
    BY PlacesGrow
  <2>2. PlaceMore(t, o, type, name)
    BY PlacesGrow
  <2>. QED  BY <2>1, <2>2 DEF PlaceMore, type
<1>2. /\ S \subseteq 1 .. Len(t) /\ Len(t) \in Nat
  BY PlacesAre
<1>3. Numbers(Amounts(u, Of(u, type, name)), Of(u, type, name))
  BY <1>0, <1>1, PlacesAre
<1>4. Amount(u, S) = Amount(t, S)
  BY <1>0, AmountStays
<1>5. n \in W /\ W \ {n} = S
  BY <1>2
<1>6. Numbers(f, W)
  BY <1>1, <1>3
<1>7. f[n] = Occurrences[o].amount /\ \A i \in S : f[i] = g[i]
  BY <1>1, <1>5 DEF Amounts
<1>. HIDE DEF f, W, g, n, S
<1>8. SumFunctionOnSet(f, W) = f[n] + SumFunctionOnSet(f, W \ {n})
  BY <1>5, <1>6, SumRemove
<1>9. Numbers(f, S)
  BY <1>5, <1>6, NumbersOnSubset
<1>10. SumFunctionOnSet(f, S) = SumFunctionOnSet(g, S)
  BY <1>7, <1>9, SumSame
<1>11. SumFunctionOnSet(f, S) \in Nat /\ f[n] \in Nat
  BY <1>5, <1>6, <1>9, SumType DEF Numbers
<1>12. /\ Amount(u, W) = Occurrences[o].amount + Amount(t, S)
       /\ Amount(t, S) \in Nat /\ Occurrences[o].amount \in Nat
  <2>1. Amount(u, W) = SumFunctionOnSet(f, W) /\ Amount(u, S) = SumFunctionOnSet(g, S)
    BY DEF Amount, f, g
  <2>. QED  BY <1>4, <1>5, <1>7, <1>8, <1>10, <1>11, <2>1
<1>13. Amount(u, W) = Amount(t, S) + Occurrences[o].amount
  BY <1>12
<1>. QED  BY <1>12, <1>13 DEF u, W, S, n, type

\* A later place is not the first, unless it is the only one.
LEMMA FirstStays ==
  ASSUME NEW n \in Nat, NEW S \in SUBSET (1 .. n)
  PROVE  Min(S \cup {n + 1}) = IF S = {} THEN n + 1 ELSE Min(S)
<1>. DEFINE W == S \cup {n + 1}
<1>1. /\ S \in SUBSET Nat /\ W \in SUBSET Nat /\ W # {} /\ \A i \in S : i < n + 1
      /\ n + 1 \in W
  OBVIOUS
<1>2. Min(W) \in W /\ \A y \in W : Min(W) <= y
  <2>. HIDE DEF W
  <2>. QED  BY <1>1, LeastIsMember
<1>3. S # {} => Min(S) \in S /\ \A y \in S : Min(S) <= y
  BY <1>1, LeastIsMember
<1>4. CASE S = {}
  BY <1>2, <1>4
<1>5. CASE S # {}
  <2>1. Min(S) \in W /\ Min(S) \in Nat /\ Min(S) < n + 1
    BY <1>1, <1>3, <1>5
  <2>2. Min(W) <= Min(S) /\ Min(W) \in Nat
    BY <1>1, <1>2, <2>1
  <2>3. Min(W) # n + 1
    BY <2>1, <2>2
  <2>4. Min(W) \in S
    BY <1>2, <2>3
  <2>5. Min(S) <= Min(W)
    BY <1>3, <1>5, <2>4
  <2>6. Min(W) = Min(S)
    BY <2>1, <2>2, <2>5
  <2>. QED  BY <1>5, <2>6
<1>. QED  BY <1>4, <1>5

----------------------------------------------------------------------------
(* A type's tally.                                                         *)

\* What is to be said of a type of allocation, and of exception.
Large(t, places) == \E i \in places : Occurrences[t[i]].kind = "Large"
Site(t, name) ==
  LET ticks == Of(t, "Allocation", name)
  IN  [bytes |-> Amount(t, ticks), ticks |-> Cardinality(ticks),
       kind |-> IF Large(t, ticks) THEN "Large" ELSE First(t, ticks).kind]
Throws(t, name) ==
  LET throws == Of(t, "Exception", name)
  IN  [message |-> First(t, throws).message, count |-> Cardinality(throws)]

\* An occurrence of another type or name changes nothing.
LEMMA OthersStay ==
  ASSUME NEW t \in Told, NEW o \in DOMAIN Occurrences, NEW name
  PROVE  /\ (/\ ~(Occurrences[o].type = "Allocation" /\ Occurrences[o].name = name)
             /\ name \in Names(t, "Allocation"))
            => Site(Append(t, o), name) = Site(t, name)
         /\ (/\ ~(Occurrences[o].type = "Exception" /\ Occurrences[o].name = name)
             /\ name \in Names(t, "Exception"))
            => Throws(Append(t, o), name) = Throws(t, name)
<1>. DEFINE u == Append(t, o)
<1>1. \A i \in 1 .. Len(t) : u[i] = t[i]
  BY PlacesGrow
<1>2. ASSUME NEW type, ~(Occurrences[o].type = type /\ Occurrences[o].name = name),
             name \in Names(t, type)
      PROVE  /\ Of(u, type, name) = Of(t, type, name)
             /\ First(u, Of(t, type, name)) = First(t, Of(t, type, name))
             /\ Of(t, type, name) \subseteq 1 .. Len(t)
  <2>1. PlaceMore(t, o, type, name)
    BY PlacesGrow
  <2>2. Of(u, type, name) = Of(t, type, name)
    BY <1>2, <2>1 DEF PlaceMore
  <2>3. Of(t, type, name) # {} /\ Of(t, type, name) \subseteq 1 .. Len(t)
    BY <1>2, NamesSelect, PlacesAre
  <2>. DEFINE S == Of(t, type, name)
  <2>. HIDE DEF S, u
  <2>4. Min(S) \in S
    <3>1. S \in SUBSET Nat /\ S # {}
      BY <2>3 DEF S
    <3>. QED  BY <3>1, LeastIsMember
  <2>5. First(u, S) = First(t, S)
    <3>1. u[Min(S)] = t[Min(S)]
      BY <1>1, <2>3, <2>4 DEF S
    <3>. QED  BY <3>1 DEF First
  <2>. QED  BY <2>2, <2>3, <2>5 DEF S
<1>3. ASSUME ~(Occurrences[o].type = "Allocation" /\ Occurrences[o].name = name),
             name \in Names(t, "Allocation")
      PROVE  Site(u, name) = Site(t, name)
  <2>. DEFINE S == Of(t, "Allocation", name)
  <2>1. Of(u, "Allocation", name) = S /\ First(u, S) = First(t, S) /\ S \subseteq 1 .. Len(t)
    BY <1>2, <1>3
  <2>2. Amount(u, S) = Amount(t, S)
    BY AmountStays DEF Weighed
  <2>. HIDE DEF u, S
  <2>3. Large(u, S) <=> Large(t, S)
    BY <1>1, <2>1 DEF Large
  <2>4. Site(t, name) = [bytes |-> Amount(t, S), ticks |-> Cardinality(S),
                         kind |-> IF Large(t, S) THEN "Large" ELSE First(t, S).kind]
    BY DEF Site, S
  <2>5. Site(u, name) = [bytes |-> Amount(u, S), ticks |-> Cardinality(S),
                         kind |-> IF Large(u, S) THEN "Large" ELSE First(u, S).kind]
    BY <2>1 DEF Site
  <2>. QED  BY <2>1, <2>2, <2>3, <2>4, <2>5, Zenon
<1>4. ASSUME ~(Occurrences[o].type = "Exception" /\ Occurrences[o].name = name),
             name \in Names(t, "Exception")
      PROVE  Throws(u, name) = Throws(t, name)
  <2>1. /\ Of(u, "Exception", name) = Of(t, "Exception", name)
        /\ First(u, Of(t, "Exception", name)) = First(t, Of(t, "Exception", name))
    BY <1>2, <1>4
  <2>. HIDE DEF u
  <2>. QED  BY <2>1 DEF Throws
<1>. QED  BY <1>3, <1>4, Zenon

\* One place more of a type and a name.
OneMore(t, o, type, name) ==
  LET S == Of(t, type, name)
      W == Of(Append(t, o), type, name)
  IN  /\ W = S \cup {Len(t) + 1} /\ S \subseteq 1 .. Len(t) /\ Len(t) \in Nat
      /\ Cardinality(W) = Cardinality(S) + 1 /\ Cardinality(S) \in Nat
      /\ First(Append(t, o), W) = IF S = {} THEN Occurrences[o] ELSE First(t, S)
      /\ S = {} <=> name \notin Names(t, type)

\* What an occurrence more makes of the places of its type and name.
LEMMA PlacesOfOne ==
  ASSUME NEW t \in Told, NEW o \in DOMAIN Occurrences
  PROVE  OneMore(t, o, Occurrences[o].type, Occurrences[o].name)
<1>. DEFINE type == Occurrences[o].type
            name == Occurrences[o].name
<1>0. type = Occurrences[o].type /\ name = Occurrences[o].name
  OBVIOUS
<1>. HIDE DEF type, name
<1>. DEFINE S == Of(t, type, name)
            u == Append(t, o)
            n == Len(t) + 1
            W == Of(u, type, name)
<1>1. /\ u[n] = o /\ \A i \in 1 .. Len(t) : u[i] = t[i]
  BY PlacesGrow
<1>2. W = S \cup {n}
  <2>1. PlaceMore(t, o, type, name)
    BY PlacesGrow
  <2>. QED  BY <1>0, <2>1 DEF PlaceMore
<1>3. /\ S \subseteq 1 .. Len(t) /\ Len(t) \in Nat /\ IsFiniteSet(S) /\ Cardinality(S) \in Nat
  BY PlacesAre
<1>4. S = {} <=> name \notin Names(t, type)
  BY NamesSelect
<1>. HIDE DEF S, W, u
<1>5. n \notin S
  BY <1>3
<1>6. Min(W) = IF S = {} THEN n ELSE Min(S)
  BY <1>2, <1>3, FirstStays
<1>. HIDE DEF n
<1>7. Cardinality(W) = Cardinality(S) + 1
  BY <1>2, <1>3, <1>5, FS_AddElement
<1>8. First(u, W) = IF S = {} THEN Occurrences[o] ELSE First(t, S)
  <2>1. CASE S = {}
    BY <1>1, <1>6, <2>1 DEF First
  <2>2. CASE S # {}
    <3>1. Min(S) \in S
      <4>1. S \in SUBSET Nat
        BY <1>3
      <4>. QED  BY <2>2, <4>1, LeastIsMember
    <3>2. u[Min(S)] = t[Min(S)]
      BY <1>1, <1>3, <3>1
    <3>. QED  BY <1>6, <2>2, <3>2 DEF First
  <2>. QED  BY <2>1, <2>2
<1>9. OneMore(t, o, type, name)
  BY <1>2, <1>3, <1>4, <1>7, <1>8 DEF OneMore, S, W, u, n
<1>. QED  BY <1>0, <1>9

\* What an allocation more makes of its type's.
LEMMA SiteGrows ==
  ASSUME NEW t \in Told, NEW o \in DOMAIN Occurrences, Occurrences[o].type = "Allocation",
         NEW name, name = Occurrences[o].name
  PROVE  LET site == IF name \in Names(t, "Allocation") THEN Site(t, name)
                     ELSE [bytes |-> 0, ticks |-> 0, kind |-> Occurrences[o].kind]
         IN  /\ Site(Append(t, o), name) =
                  [bytes |-> site.bytes + Occurrences[o].amount, ticks |-> site.ticks + 1,
                   kind |-> KindNow(site, Occurrences[o].kind)]
             /\ site.bytes \in Nat /\ Occurrences[o].amount \in Nat
<1>. DEFINE S == Of(t, "Allocation", name)
            u == Append(t, o)
            n == Len(t) + 1
            W == Of(u, "Allocation", name)
            amount == Occurrences[o].amount
            kind == Occurrences[o].kind
            site == IF name \in Names(t, "Allocation") THEN Site(t, name)
                    ELSE [bytes |-> 0, ticks |-> 0, kind |-> kind]
<1>1. /\ W = S \cup {n} /\ S \subseteq 1 .. Len(t) /\ Len(t) \in Nat
      /\ Cardinality(W) = Cardinality(S) + 1 /\ Cardinality(S) \in Nat
      /\ First(u, W) = IF S = {} THEN Occurrences[o] ELSE First(t, S)
      /\ S = {} <=> name \notin Names(t, "Allocation")
  <2>1. OneMore(t, o, "Allocation", name)
    BY PlacesOfOne
  <2>. QED  BY <2>1 DEF OneMore
<1>2. Amount(u, S \cup {n}) = Amount(t, S) + amount /\ Amount(t, S) \in Nat /\ amount \in Nat
  <2>1. Occurrences[o].type \in Weighed
    BY DEF Weighed
  <2>. QED  BY <2>1, AmountGrows
<1>3. u[n] = o /\ \A i \in 1 .. Len(t) : u[i] = t[i]
  BY PlacesGrow
<1>. HIDE DEF S, u, n, W
<1>4. Large(u, W) <=> kind = "Large" \/ Large(t, S)
  BY <1>1, <1>3 DEF Large
<1>5. Site(u, name) = [bytes |-> Amount(u, W), ticks |-> Cardinality(W),
                       kind |-> IF Large(u, W) THEN "Large" ELSE First(u, W).kind]
  BY DEF Site, W
<1>6. Site(t, name) = [bytes |-> Amount(t, S), ticks |-> Cardinality(S),
                       kind |-> IF Large(t, S) THEN "Large" ELSE First(t, S).kind]
  BY DEF Site, S
<1>7. Amount(u, W) = Amount(t, S) + amount
  BY <1>1, <1>2
<1>8. CASE S = {}
  <2>1. site = [bytes |-> 0, ticks |-> 0, kind |-> kind]
    BY <1>1, <1>8
  <2>2. Cardinality(S) = 0 /\ Amount(t, S) = 0 /\ ~Large(t, S)
    <3>1. Cardinality(S) = 0
      BY <1>8, FS_EmptySet
    <3>2. Amount(t, S) = 0
      BY <1>8, SumOfNothing DEF Amount
    <3>. QED  BY <1>8, <3>1, <3>2 DEF Large
  <2>3. First(u, W).kind = kind
    BY <1>1, <1>8
  <2>4. (IF Large(u, W) THEN "Large" ELSE First(u, W).kind) = KindNow(site, kind)
    BY <1>4, <2>1, <2>2, <2>3 DEF KindNow
  <2>. QED  BY <1>1, <1>2, <1>5, <1>7, <2>1, <2>2, <2>4 DEF u
<1>9. CASE S # {}
  <2>1. site = Site(t, name)
    BY <1>1, <1>9
  <2>2. First(u, W) = First(t, S)
    BY <1>1, <1>9
  <2>3. site.kind = IF Large(t, S) THEN "Large" ELSE First(t, S).kind
    BY <1>6, <2>1
  <2>. HIDE DEF site
  <2>4. (IF Large(u, W) THEN "Large" ELSE First(u, W).kind) = KindNow(site, kind)
    BY <1>4, <2>2, <2>3 DEF KindNow
  <2>5. site.bytes = Amount(t, S) /\ site.ticks = Cardinality(S)
    BY <1>6, <2>1
  <2>. QED  BY <1>1, <1>2, <1>5, <1>7, <2>4, <2>5 DEF u, site
<1>. QED  BY <1>8, <1>9

\* What an exception more makes of its type's.
LEMMA ThrowsGrow ==
  ASSUME NEW t \in Told, NEW o \in DOMAIN Occurrences, Occurrences[o].type = "Exception",
         NEW name, name = Occurrences[o].name
  PROVE  LET site == IF name \in Names(t, "Exception") THEN Throws(t, name)
                     ELSE [message |-> Occurrences[o].message, count |-> 0]
         IN  Throws(Append(t, o), name) = [site EXCEPT !.count = @ + 1]
<1>. DEFINE S == Of(t, "Exception", name)
            u == Append(t, o)
            W == Of(u, "Exception", name)
            site == IF name \in Names(t, "Exception") THEN Throws(t, name)
                    ELSE [message |-> Occurrences[o].message, count |-> 0]
<1>1. /\ W = S \cup {Len(t) + 1} /\ S \subseteq 1 .. Len(t) /\ Len(t) \in Nat
      /\ Cardinality(W) = Cardinality(S) + 1 /\ Cardinality(S) \in Nat
      /\ First(u, W) = IF S = {} THEN Occurrences[o] ELSE First(t, S)
      /\ S = {} <=> name \notin Names(t, "Exception")
  <2>1. OneMore(t, o, "Exception", name)
    BY PlacesOfOne
  <2>. QED  BY <2>1 DEF OneMore
<1>. HIDE DEF S, u, W
<1>2. Throws(u, name) = [message |-> First(u, W).message, count |-> Cardinality(W)]
  BY DEF Throws, W
<1>3. Throws(t, name) = [message |-> First(t, S).message, count |-> Cardinality(S)]
  BY DEF Throws, S
<1>4. CASE S = {}
  <2>1. Cardinality(S) = 0
    BY <1>4, FS_EmptySet
  <2>2. site = [message |-> Occurrences[o].message, count |-> 0]
    BY <1>1, <1>4
  <2>3. First(u, W) = Occurrences[o]
    BY <1>1, <1>4
  <2>. QED  BY <1>1, <1>2, <2>1, <2>2, <2>3 DEF u
<1>5. CASE S # {}
  <2>1. site = Throws(t, name) /\ First(u, W) = First(t, S)
    BY <1>1, <1>5
  <2>. QED  BY <1>1, <1>2, <1>3, <2>1 DEF u
<1>. QED  BY <1>4, <1>5

----------------------------------------------------------------------------
(* The tallies.                                                            *)

\* f is what there is to say of t.
Sites(t) == [name \in Names(t, "Allocation") |-> Site(t, name)]
AllThrows(t) == [name \in Names(t, "Exception") |-> Throws(t, name)]
Bytes(t) == [name \in Names(t, "Allocation") |-> Site(t, name).bytes]
Waits(t) == Of(t, "Contention", <<>>)
Fields == {"allocations", "exceptions", "contention", "total_allocated", "allocation_ticks",
           "total_exceptions"}
Tallied(f, t) ==
  /\ DOMAIN f = Fields
  /\ IsFiniteSet(Names(t, "Allocation")) /\ IsFiniteSet(Names(t, "Exception"))
  /\ f.allocations = Sites(t) /\ f.exceptions = AllThrows(t)
  /\ f.contention.total = Amount(t, Waits(t))
  /\ f.contention.max \in Nat /\ f.contention.max <= f.contention.total
  /\ f.total_allocated = SumFunctionOnSet(Bytes(t), Names(t, "Allocation"))

\* Every type that has been told has its bytes.
LEMMA BytesAre ==
  ASSUME NEW t \in Told, IsFiniteSet(Names(t, "Allocation"))
  PROVE  Numbers(Bytes(t), Names(t, "Allocation"))
<1>1. ASSUME NEW name \in Names(t, "Allocation") PROVE Bytes(t)[name] \in Nat
  <2>1. Bytes(t)[name] = Amount(t, Of(t, "Allocation", name))
    BY DEF Bytes, Site
  <2>. DEFINE S == Of(t, "Allocation", name)
              f == Amounts(t, S)
  <2>2. Numbers(f, S)
    BY PlacesAre DEF Weighed
  <2>. HIDE DEF f, S
  <2>3. SumFunctionOnSet(f, S) \in Nat
    BY <2>2, SumType
  <2>. QED  BY <2>1, <2>3 DEF Amount, f, S
<1>. QED  BY <1>1 DEF Numbers

\* Nothing has been told.
LEMMA NothingTallied == Tallied(NewFindings, <<>>)
<1>1. <<>> \in Told /\ Range(<<>>) = {}
  BY DEF Told, Range
<1>2. \A type : Names(<<>>, type) = {}
  BY <1>1 DEF Names
<1>3. Waits(<<>>) = {}
  BY DEF Waits, Of
<1>4. Sites(<<>>) = <<>> /\ AllThrows(<<>>) = <<>>
  BY <1>2 DEF Sites, AllThrows
<1>5. Amount(<<>>, Waits(<<>>)) = 0 /\ SumFunctionOnSet(Bytes(<<>>), {}) = 0
  BY <1>3, SumOfNothing DEF Amount
<1>6. IsFiniteSet({})
  BY FS_EmptySet
<1>7. /\ DOMAIN NewFindings = Fields
      /\ NewFindings.allocations = <<>> /\ NewFindings.exceptions = <<>>
      /\ NewFindings.contention.total = 0 /\ NewFindings.contention.max = 0
      /\ NewFindings.total_allocated = 0
  BY DEF NewFindings, Fields
<1>8. 0 \in Nat /\ 0 <= 0
  OBVIOUS
<1>. HIDE DEF NewFindings
<1>. QED  BY <1>2, <1>4, <1>5, <1>6, <1>7, <1>8 DEF Tallied

\* The names of what has been told stay finitely many.
LEMMA NamesFinite ==
  ASSUME NEW t \in Told, NEW o \in DOMAIN Occurrences, NEW type, IsFiniteSet(Names(t, type))
  PROVE  IsFiniteSet(Names(Append(t, o), type))
<1>1. Names(Append(t, o), type) =
           IF Occurrences[o].type = type THEN Names(t, type) \cup {Occurrences[o].name}
           ELSE Names(t, type)
  BY NamesGrow
<1>2. IsFiniteSet(Names(t, type) \cup {Occurrences[o].name})
  BY FS_AddElement
<1>. QED  BY <1>1, <1>2

\* What is not an allocation leaves the allocations alone, and so for the others.
LEMMA TalliesStay ==
  ASSUME NEW t \in Told, NEW o \in DOMAIN Occurrences
  PROVE  /\ Occurrences[o].type # "Allocation" =>
              /\ Names(Append(t, o), "Allocation") = Names(t, "Allocation")
              /\ Sites(Append(t, o)) = Sites(t) /\ Bytes(Append(t, o)) = Bytes(t)
         /\ Occurrences[o].type # "Exception" => AllThrows(Append(t, o)) = AllThrows(t)
         /\ Occurrences[o].type # "Contention" =>
              Amount(Append(t, o), Waits(Append(t, o))) = Amount(t, Waits(t))
<1>. DEFINE u == Append(t, o)
<1>1. ASSUME Occurrences[o].type # "Allocation"
      PROVE  /\ Names(u, "Allocation") = Names(t, "Allocation")
             /\ Sites(u) = Sites(t) /\ Bytes(u) = Bytes(t)
  <2>1. Names(u, "Allocation") = Names(t, "Allocation")
    BY <1>1, NamesGrow
  <2>2. \A name \in Names(t, "Allocation") : Site(u, name) = Site(t, name)
    BY <1>1, OthersStay
  <2>. HIDE DEF u
  <2>. QED  BY <2>1, <2>2 DEF Sites, Bytes
<1>2. ASSUME Occurrences[o].type # "Exception" PROVE AllThrows(u) = AllThrows(t)
  <2>1. Names(u, "Exception") = Names(t, "Exception")
    BY <1>2, NamesGrow
  <2>2. \A name \in Names(t, "Exception") : Throws(u, name) = Throws(t, name)
    BY <1>2, OthersStay
  <2>. HIDE DEF u
  <2>. QED  BY <2>1, <2>2 DEF AllThrows
<1>3. ASSUME Occurrences[o].type # "Contention" PROVE Amount(u, Waits(u)) = Amount(t, Waits(t))
  <2>1. PlaceMore(t, o, "Contention", <<>>)
    BY PlacesGrow
  <2>2. Waits(u) = Waits(t)
    BY <1>3, <2>1 DEF Waits, PlaceMore
  <2>3. Amount(u, Of(t, "Contention", <<>>)) = Amount(t, Of(t, "Contention", <<>>))
    BY AmountStays DEF Weighed
  <2>. QED  BY <2>2, <2>3 DEF Waits
<1>. QED  BY <1>1, <1>2, <1>3, Zenon

\* An allocation is told.
LEMMA AllocationTold ==
  ASSUME NEW t \in Told, NEW o \in DOMAIN Occurrences, IsAllocation(Occurrences[o]),
         NEW f, Tallied(f, t)
  PROVE  Tallied(RecordFinding(f, Occurrences[o]), Append(t, o))
<1>. DEFINE occ == Occurrences[o]
            u == Append(t, o)
            tick == [ok |-> TRUE, amount |-> occ.amount, kind |-> occ.kind, type_name |-> occ.name]
            g == RecordAllocation(f, tick)
            N == Names(t, "Allocation")
            name == occ.name
            site == IF name \in N THEN Site(t, name)
                    ELSE [bytes |-> 0, ticks |-> 0, kind |-> occ.kind]
            more == [bytes |-> site.bytes + occ.amount, ticks |-> site.ticks + 1,
                     kind |-> KindNow(site, occ.kind)]
<1>1. occ.type = "Allocation"
  BY DEF IsAllocation
<1>2. RecordFinding(f, occ) = g
  <2>1. DecodeAllocationTick(AllocationTick(occ)) = tick
    BY AllocationReadsBack
  <2>. HIDE DEF occ, tick, g
  <2>2. RecordFinding(f, occ) = IF DecodeAllocationTick(AllocationTick(occ)).ok
                                THEN RecordAllocation(f, DecodeAllocationTick(AllocationTick(occ)))
                                ELSE f
    BY <1>1, Zenon DEF RecordFinding
  <2>3. tick.ok
    BY DEF tick
  <2>. QED  BY <2>1, <2>2, <2>3, Zenon DEF g
<1>3. /\ DOMAIN f = Fields /\ IsFiniteSet(N) /\ IsFiniteSet(Names(t, "Exception"))
      /\ f.allocations = Sites(t) /\ f.exceptions = AllThrows(t)
      /\ f.contention.total = Amount(t, Waits(t))
      /\ f.contention.max \in Nat /\ f.contention.max <= f.contention.total
      /\ f.total_allocated = SumFunctionOnSet(Bytes(t), N)
  BY DEF Tallied
<1>4. /\ Names(u, "Allocation") = N \cup {name} /\ Names(u, "Exception") = Names(t, "Exception")
      /\ IsFiniteSet(Names(u, "Allocation"))
  <2>1. Names(u, "Allocation") = N \cup {name} /\ Names(u, "Exception") = Names(t, "Exception")
    BY <1>1, NamesGrow
  <2>. QED  BY <1>3, <2>1, FS_AddElement
<1>5. /\ Site(u, name) = more /\ site.bytes \in Nat /\ occ.amount \in Nat
  BY <1>1, SiteGrows
<1>6. \A other \in N \ {name} : Site(u, other) = Site(t, other)
  BY OthersStay
<1>7. /\ AllThrows(u) = AllThrows(t) /\ Amount(u, Waits(u)) = Amount(t, Waits(t))
  BY <1>1, TalliesStay
<1>8. EntryOr(f.allocations, name, [bytes |-> 0, ticks |-> 0, kind |-> occ.kind]) = site
  BY <1>3 DEF EntryOr, Sites
<1>9. g = [f EXCEPT !.total_allocated = @ + occ.amount, !.allocation_ticks = @ + 1,
                    !.allocations = With(@, name, more)]
  <2>. DEFINE entry == EntryOr(f.allocations, name, [bytes |-> 0, ticks |-> 0, kind |-> occ.kind])
  <2>1. g = [f EXCEPT !.total_allocated = @ + occ.amount, !.allocation_ticks = @ + 1,
              !.allocations = With(@, name, [bytes |-> entry.bytes + occ.amount,
                 ticks |-> entry.ticks + 1, kind |-> KindNow(entry, occ.kind)])]
    BY DEF RecordAllocation
  <2>. HIDE DEF entry, g, site, occ
  <2>2. entry = site
    BY <1>8 DEF entry
  <2>. QED  BY <2>1, <2>2, Zenon
<1>. HIDE DEF g, site, more, N, u, name, occ
<1>10. /\ DOMAIN g = Fields /\ g.allocations = With(f.allocations, name, more)
       /\ g.exceptions = f.exceptions /\ g.contention = f.contention
       /\ g.total_allocated = f.total_allocated + occ.amount
  BY <1>3, <1>9 DEF Fields
<1>11. g.allocations = Sites(u)
  <2>1. DOMAIN f.allocations = N /\ \A other \in N : f.allocations[other] = Site(t, other)
    BY <1>3 DEF Sites, N
  <2>2. With(f.allocations, name, more) = [x \in N \cup {name} |-> Site(u, x)]
    BY <1>5, <1>6, <2>1 DEF With
  <2>. QED  BY <1>4, <1>10, <2>2 DEF Sites
<1>12. g.total_allocated = SumFunctionOnSet(Bytes(u), Names(u, "Allocation"))
  <2>. DEFINE W == N \cup {name}
              b == Bytes(u)
              a == Bytes(t)
  <2>1. Numbers(a, N)
    BY <1>3, BytesAre DEF N
  <2>2. u \in Told
    BY PlacesGrow DEF u
  <2>3. Numbers(b, W)
    BY <1>4, <2>2, BytesAre
  <2>4. \A x \in N \ {name} : a[x] = b[x]
    BY <1>4, <1>6 DEF Bytes, N
  <2>5. b[name] = site.bytes + occ.amount
    <3>1. b[name] = Site(u, name).bytes
      BY <1>4 DEF Bytes
    <3>. QED  BY <1>5, <3>1 DEF more
  <2>6. site.bytes = IF name \in N THEN a[name] ELSE 0
    BY DEF site, Bytes, N
  <2>. HIDE DEF a, b
  <2>7. /\ SumFunctionOnSet(b, W) = b[name] + SumFunctionOnSet(b, W \ {name})
    BY <2>3, SumRemove
  <2>8. W \ {name} = N \ {name} /\ N \ {name} \in SUBSET N
    OBVIOUS
  <2>9. Numbers(a, N \ {name})
    BY <2>1, <2>8, NumbersOnSubset
  <2>. DEFINE V == N \ {name}
  <2>10. /\ SumFunctionOnSet(a, V) = SumFunctionOnSet(b, V) /\ SumFunctionOnSet(a, V) \in Nat
    <3>. HIDE DEF V
    <3>1. Numbers(a, V) /\ \A x \in V : a[x] = b[x]
      BY <2>4, <2>9 DEF V
    <3>. QED  BY <3>1, SumSame, SumType
  <2>11. SumFunctionOnSet(a, N) = site.bytes + SumFunctionOnSet(a, V)
    <3>1. CASE name \in N
      <4>1. SumFunctionOnSet(a, N) = a[name] + SumFunctionOnSet(a, N \ {name})
        BY <2>1, <3>1, SumRemove
      <4>. QED  BY <2>6, <3>1, <4>1
    <3>2. CASE name \notin N
      <4>1. V = N
        BY <3>2
      <4>. HIDE DEF V
      <4>2. site.bytes = 0
        BY <2>6, <3>2
      <4>. QED  BY <2>10, <4>1, <4>2
    <3>. QED  BY <3>1, <3>2
  <2>12. SumFunctionOnSet(b, W) = SumFunctionOnSet(a, N) + occ.amount
    <3>1. SumFunctionOnSet(b, W) = (site.bytes + occ.amount) + SumFunctionOnSet(a, V)
      BY <2>5, <2>7, <2>8, <2>10
    <3>. HIDE DEF V, W
    <3>. QED  BY <1>5, <2>10, <2>11, <3>1
  <2>. QED  BY <1>3, <1>4, <1>10, <2>12 DEF a, b, N
<1>13. Tallied(g, u)
  BY <1>3, <1>4, <1>7, <1>10, <1>11, <1>12 DEF Tallied
<1>. QED  BY <1>2, <1>13 DEF u, occ

\* An exception is told.
LEMMA ExceptionTold ==
  ASSUME NEW t \in Told, NEW o \in DOMAIN Occurrences, IsException(Occurrences[o]),
         NEW f, Tallied(f, t)
  PROVE  Tallied(RecordFinding(f, Occurrences[o]), Append(t, o))
<1>. DEFINE occ == Occurrences[o]
            u == Append(t, o)
            thrown == [ok |-> TRUE, type_name |-> occ.name, message |-> occ.message]
            g == RecordException(f, thrown)
            N == Names(t, "Exception")
            name == occ.name
            site == IF name \in N THEN Throws(t, name) ELSE [message |-> occ.message, count |-> 0]
            more == [site EXCEPT !.count = @ + 1]
<1>1. occ.type = "Exception"
  BY DEF IsException
<1>2. RecordFinding(f, occ) = g
  <2>1. DecodeExceptionThrown(ExceptionThrown(occ)) = thrown
    BY ExceptionReadsBack
  <2>. HIDE DEF occ, thrown, g
  <2>2. RecordFinding(f, occ) = IF DecodeExceptionThrown(ExceptionThrown(occ)).ok
                                THEN RecordException(f, DecodeExceptionThrown(ExceptionThrown(occ)))
                                ELSE f
    BY <1>1 DEF RecordFinding
  <2>3. thrown.ok
    BY DEF thrown
  <2>. QED  BY <2>1, <2>2, <2>3, Zenon DEF g
<1>3. /\ DOMAIN f = Fields /\ IsFiniteSet(N) /\ IsFiniteSet(Names(t, "Allocation"))
      /\ f.allocations = Sites(t) /\ f.exceptions = AllThrows(t)
      /\ f.contention.total = Amount(t, Waits(t))
      /\ f.contention.max \in Nat /\ f.contention.max <= f.contention.total
      /\ f.total_allocated = SumFunctionOnSet(Bytes(t), Names(t, "Allocation"))
  BY DEF Tallied
<1>4. Names(u, "Exception") = N \cup {name} /\ IsFiniteSet(Names(u, "Exception"))
  <2>1. Names(u, "Exception") = N \cup {name}
    BY <1>1, NamesGrow
  <2>. QED  BY <1>3, <2>1, FS_AddElement
<1>5. Throws(u, name) = more
  BY <1>1, ThrowsGrow
<1>6. \A other \in N \ {name} : Throws(u, other) = Throws(t, other)
  BY OthersStay
<1>7. /\ Names(u, "Allocation") = Names(t, "Allocation")
      /\ Sites(u) = Sites(t) /\ Bytes(u) = Bytes(t) /\ Amount(u, Waits(u)) = Amount(t, Waits(t))
  BY <1>1, TalliesStay
<1>8. EntryOr(f.exceptions, name, [message |-> occ.message, count |-> 0]) = site
  BY <1>3 DEF EntryOr, AllThrows
<1>9. g = [f EXCEPT !.total_exceptions = @ + 1, !.exceptions = With(@, name, more)]
  <2>. DEFINE entry == EntryOr(f.exceptions, name, [message |-> occ.message, count |-> 0])
  <2>1. g = [f EXCEPT !.total_exceptions = @ + 1,
                      !.exceptions = With(@, name, [entry EXCEPT !.count = @ + 1])]
    BY DEF RecordException
  <2>. HIDE DEF entry, g, site, occ
  <2>2. entry = site
    BY <1>8 DEF entry
  <2>. QED  BY <2>1, <2>2, Zenon
<1>. HIDE DEF g, site, more, N, u, name, occ
<1>10. /\ DOMAIN g = Fields /\ g.exceptions = With(f.exceptions, name, more)
       /\ g.allocations = f.allocations /\ g.contention = f.contention
       /\ g.total_allocated = f.total_allocated
  BY <1>3, <1>9 DEF Fields
<1>11. g.exceptions = AllThrows(u)
  <2>1. DOMAIN f.exceptions = N /\ \A other \in N : f.exceptions[other] = Throws(t, other)
    BY <1>3 DEF AllThrows, N
  <2>2. With(f.exceptions, name, more) = [x \in N \cup {name} |-> Throws(u, x)]
    BY <1>5, <1>6, <2>1 DEF With
  <2>. QED  BY <1>4, <1>10, <2>2 DEF AllThrows
<1>12. Tallied(g, u)
  BY <1>3, <1>4, <1>7, <1>10, <1>11 DEF Tallied
<1>. QED  BY <1>2, <1>12 DEF u, occ

\* A wait for a lock is told.
LEMMA ContentionTold ==
  ASSUME NEW t \in Told, NEW o \in DOMAIN Occurrences, IsContention(Occurrences[o]),
         NEW f, Tallied(f, t)
  PROVE  Tallied(RecordFinding(f, Occurrences[o]), Append(t, o))
<1>. DEFINE occ == Occurrences[o]
            u == Append(t, o)
            stop == [ok |-> TRUE, duration |-> occ.amount]
            g == RecordContention(f, stop)
            S == Waits(t)
<1>1. occ.type = "Contention" /\ occ.name = <<>> /\ occ.amount \in Nat
  BY DEF IsContention
<1>2. RecordFinding(f, occ) = g
  <2>1. DecodeContentionStop(ContentionStop(occ)) = stop
    BY ContentionReadsBack
  <2>. HIDE DEF occ, stop, g
  <2>2. RecordFinding(f, occ) = IF DecodeContentionStop(ContentionStop(occ)).ok
                                THEN RecordContention(f, DecodeContentionStop(ContentionStop(occ)))
                                ELSE f
    BY <1>1 DEF RecordFinding
  <2>3. stop.ok
    BY DEF stop
  <2>. QED  BY <2>1, <2>2, <2>3, Zenon DEF g
<1>3. /\ DOMAIN f = Fields
      /\ IsFiniteSet(Names(t, "Allocation")) /\ IsFiniteSet(Names(t, "Exception"))
      /\ f.allocations = Sites(t) /\ f.exceptions = AllThrows(t)
      /\ f.contention.total = Amount(t, S)
      /\ f.contention.max \in Nat /\ f.contention.max <= f.contention.total
      /\ f.total_allocated = SumFunctionOnSet(Bytes(t), Names(t, "Allocation"))
  BY DEF Tallied
<1>4. /\ Names(u, "Allocation") = Names(t, "Allocation")
      /\ Sites(u) = Sites(t) /\ Bytes(u) = Bytes(t) /\ AllThrows(u) = AllThrows(t)
  BY <1>1, TalliesStay
<1>5. Names(u, "Exception") = Names(t, "Exception")
  BY <1>1, NamesGrow
<1>6. Amount(u, Waits(u)) = Amount(t, S) + occ.amount /\ Amount(t, S) \in Nat
  <2>. DEFINE name == <<>>
  <2>1. PlaceMore(t, o, "Contention", <<>>)
    BY PlacesGrow
  <2>2. Waits(u) = S \cup {Len(t) + 1}
    BY <1>1, <2>1 DEF Waits, PlaceMore
  <2>3. occ.type \in Weighed
    BY <1>1 DEF Weighed
  <2>4. /\ Amount(u, S \cup {Len(t) + 1}) = Amount(t, S) + occ.amount /\ Amount(t, S) \in Nat
    <3>1. \A n : n = occ.name =>
            /\ Amount(u, Of(t, occ.type, n) \cup {Len(t) + 1}) =
                 Amount(t, Of(t, occ.type, n)) + occ.amount
            /\ Amount(t, Of(t, occ.type, n)) \in Nat
      BY <2>3, AmountGrows
    <3>. QED  BY <1>1, <3>1 DEF Waits
  <2>. QED  BY <2>2, <2>4
<1>. HIDE DEF g, u, S, occ
<1>7. /\ DOMAIN g = Fields /\ g.allocations = f.allocations /\ g.exceptions = f.exceptions
      /\ g.total_allocated = f.total_allocated
      /\ g.contention.total = f.contention.total + occ.amount
      /\ g.contention.max = Max({f.contention.max, occ.amount})
  BY <1>3 DEF RecordContention, g, Fields
<1>8. g.contention.max \in Nat /\ g.contention.max <= g.contention.total
  <2>. DEFINE a == f.contention.max
              b == occ.amount
              total == f.contention.total
  <2>1. a \in Nat /\ b \in Nat /\ total \in Nat /\ a <= total
    BY <1>1, <1>3, <1>6
  <2>. HIDE DEF a, b, total
  <2>2. Max({a, b}) = IF a >= b THEN a ELSE b
    BY <2>1, LeastOfTwo
  <2>3. Max({a, b}) \in Nat /\ Max({a, b}) <= total + b
    BY <2>1, <2>2
  <2>. QED  BY <1>7, <2>3 DEF a, b, total
<1>9. Tallied(g, u)
  BY <1>3, <1>4, <1>5, <1>6, <1>7, <1>8 DEF Tallied
<1>. QED  BY <1>2, <1>9 DEF u, occ

\* Whatever is told next, it is told of.
LEMMA FindingTold ==
  ASSUME NEW t \in Told, NEW o \in DOMAIN Occurrences, NEW f, Tallied(f, t)
  PROVE  Tallied(RecordFinding(f, Occurrences[o]), Append(t, o))
BY OccurrencesAssumption, AllocationTold, ExceptionTold, ContentionTold

----------------------------------------------------------------------------
(* What is made of the tallies for the screen.                             *)

\* The names of what has been told are names.
LEMMA NamesAreLetters ==
  ASSUME NEW t \in Told, NEW type
  PROVE  Names(t, type) \subseteq Seq(Nat)
<1>. SUFFICES ASSUME NEW i \in 1 .. Len(t) PROVE Occurrences[t[i]].name \in Seq(Nat)
  BY DEF Names, Range, Told
<1>. DEFINE occ == Occurrences[t[i]]
<1>1. IsAllocation(occ) \/ IsException(occ) \/ IsContention(occ)
  BY OccurrencesAssumption DEF Told
<1>. HIDE DEF occ
<1>2. ASSUME NEW text \in Seq(Letters) PROVE text \in Seq(Nat)
  BY DEF Letters
<1>3. <<>> \in Seq(Nat)
  OBVIOUS
<1>4. occ.name \in Seq(Nat)
  BY <1>1, <1>2, <1>3 DEF IsAllocation, IsException, IsContention
<1>. QED  BY <1>4 DEF occ

\* A list in which nothing is followed by what weighs more.
Falling(list, w) ==
  /\ \A i \in DOMAIN list : list[i] \in DOMAIN w
  /\ \A i, j \in DOMAIN list : i < j => w[list[i]] >= w[list[j]]

\* The order of Top.
WeightOrder(w) ==
  LET names == DOMAIN w
  IN  {ab \in names \X names :
         w[ab[1]] > w[ab[2]] \/ (w[ab[1]] = w[ab[2]] /\ NameBefore(ab[1], ab[2]))}

\* It tells names apart.
LEMMA WeightsDecide ==
  ASSUME NEW w, Numbers(w, DOMAIN w), DOMAIN w \in SUBSET Seq(Nat)
  PROVE  Decides(WeightOrder(w), DOMAIN w)
<1>. DEFINE S == DOMAIN w
            R == WeightOrder(w)
            before(a, b) == w[a] > w[b] \/ (w[a] = w[b] /\ NameBefore(a, b))
<1>1. ASSUME NEW a \in S, NEW b \in S PROVE <<a, b>> \in R <=> before(a, b)
  <2>1. /\ <<a, b>> \in S \X S /\ <<a, b>>[1] = a /\ <<a, b>>[2] = b
    OBVIOUS
  <2>2. R = {ab \in S \X S : before(ab[1], ab[2])}
    BY DEF WeightOrder
  <2>. HIDE DEF R, S
  <2>. QED  BY <2>1, <2>2
<1>2. \A a \in S : w[a] \in Nat /\ a \in Seq(Nat)
  BY DEF Numbers
<1>. HIDE DEF S, R
<1>3. ASSUME NEW a \in S PROVE <<a, a>> \notin R
  BY <1>1, <1>2, NotBeforeItself
<1>4. ASSUME NEW a \in S, NEW b \in S, NEW c \in S, <<a, b>> \in R, <<b, c>> \in R
      PROVE  <<a, c>> \in R
  <2>1. w[a] \in Nat /\ w[b] \in Nat /\ w[c] \in Nat
    BY <1>2
  <2>2. before(a, b) /\ before(b, c)
    BY <1>1, <1>4
  <2>3. NameBefore(a, b) /\ NameBefore(b, c) => NameBefore(a, c)
    BY <1>2, BeforeBefore
  <2>4. before(a, c)
    BY <2>1, <2>2, <2>3
  <2>. QED  BY <1>1, <2>4
<1>5. ASSUME NEW a \in S, NEW b \in S, a # b PROVE <<a, b>> \in R \/ <<b, a>> \in R
  <2>1. w[a] \in Nat /\ w[b] \in Nat
    BY <1>2
  <2>2. NameBefore(a, b) \/ NameBefore(b, a)
    BY <1>2, <1>5, OneIsFirst
  <2>3. before(a, b) \/ before(b, a)
    BY <2>1, <2>2
  <2>. QED  BY <1>1, <2>3
<1>6. Decides(R, S)
  BY <1>3, <1>4, <1>5 DEF Decides
<1>. QED  BY <1>6 DEF R, S

\* The first of the types are in the order of their weights.
LEMMA TopFalls ==
  ASSUME NEW w, Numbers(w, DOMAIN w), DOMAIN w \in SUBSET Seq(Nat), NEW limit \in Nat
  PROVE  Falling(Top(w, limit), w)
<1>. DEFINE S == DOMAIN w
            R == WeightOrder(w)
            n == Cardinality(S)
            order == Sorted(S, R)
            m == Min({limit, Len(order)})
<1>1. IsFiniteSet(S) /\ n \in Nat
  BY FS_CardinalityType DEF Numbers
<1>2. IsSorting(order, S, R)
  <2>1. Decides(R, S)
    BY WeightsDecide
  <2>. HIDE DEF R, S
  <2>. QED  BY <1>1, <2>1, SortedIsSorted
<1>3. Top(w, limit) = SubSeq(order, 1, m)
  BY DEF Top, WeightOrder
<1>4. \A a, b \in S : <<a, b>> \in R => w[a] \in Nat /\ w[b] \in Nat /\ w[a] >= w[b]
  BY DEF WeightOrder, Numbers
<1>. HIDE DEF S, R, order, n, m
<1>5. order \in [1 .. n -> S] /\ \A i, j \in 1 .. n : i < j => <<order[i], order[j]>> \in R
  BY <1>2 DEF IsSorting, n
<1>6. order \in Seq(S) /\ Len(order) = n
  BY <1>1, <1>5
<1>7. m \in Nat /\ m <= n
  BY <1>1, <1>6, LeastOfTwo DEF m
<1>8. /\ DOMAIN SubSeq(order, 1, m) = 1 .. m
      /\ \A i \in 1 .. m : SubSeq(order, 1, m)[i] = order[i] /\ i \in 1 .. n
  BY <1>1, <1>6, <1>7
<1>9. \A i \in 1 .. m : order[i] \in S
  BY <1>5, <1>8
<1>10. \A i, j \in 1 .. m : i < j => w[order[i]] >= w[order[j]]
  BY <1>4, <1>5, <1>8, <1>9
<1>. QED  BY <1>3, <1>8, <1>9, <1>10 DEF Falling, S

\* A division rounds down.
LEMMA DivisionRoundsDown ==
  ASSUME NEW a \in Nat, NEW t \in Nat \ {0}
  PROVE  a \div t \in Nat /\ (a \div t) * t <= a
OBVIOUS

\* What is no more than another after both were multiplied is no more before.
LEMMA Divided ==
  ASSUME NEW a \in Nat, NEW b \in Nat, NEW t \in Nat \ {0}, a * t <= b * t
  PROVE  a <= b
OBVIOUS

\* A share of a total, in per cent and rounded down.
Share(w, total) == [x \in DOMAIN w |-> IF total = 0 THEN 0 ELSE (w[x] * 100) \div total]

\* Shares of the whole are no more than the whole.
LEMMA SharesFit ==
  ASSUME NEW w, Numbers(w, DOMAIN w), NEW total, total = SumFunctionOnSet(w, DOMAIN w)
  PROVE  SumFunctionOnSet(Share(w, total), DOMAIN w) <= 100
<1>. DEFINE S == DOMAIN w
            s == Share(w, total)
<1>1. total \in Nat /\ IsFiniteSet(S)
  BY SumType DEF Numbers
<1>2. CASE total = 0
  <2>1. \A x \in S : s[x] = 0
    BY <1>2 DEF Share
  <2>. HIDE DEF S, s
  <2>2. SumFunctionOnSet(s, S) = 0
    BY <1>1, <2>1, SumOfZeros
  <2>. QED  BY <2>2 DEF S, s
<1>3. CASE total # 0
  <2>. DEFINE fits == {U \in SUBSET S :
                         SumFunctionOnSet(s, U) * total <= 100 * SumFunctionOnSet(w, U)}
  <2>0. total \in Nat \ {0}
    BY <1>1, <1>3
  <2>1. ASSUME NEW x \in S
        PROVE  w[x] \in Nat /\ s[x] \in Nat /\ s[x] * total <= 100 * w[x]
    <3>1. w[x] \in Nat /\ w[x] * 100 \in Nat /\ s[x] = (w[x] * 100) \div total
      BY <1>3 DEF Numbers, Share
    <3>2. s[x] \in Nat /\ s[x] * total <= w[x] * 100
      <4>. HIDE DEF s
      <4>. QED  BY <2>0, <3>1, DivisionRoundsDown
    <3>. QED  BY <3>1, <3>2
  <2>2. Numbers(w, S) /\ Numbers(s, S)
    BY <1>1, <2>1 DEF Numbers
  <2>. HIDE DEF s, S
  <2>3. ASSUME NEW U \in SUBSET S, \A x \in U : U \ {x} \in fits PROVE U \in fits
    <3>1. CASE U = {}
      BY <1>1, <3>1, SumOfNothing
    <3>2. CASE U # {}
      <4>1. PICK x \in U : TRUE
        BY <3>2
      <4>2. Numbers(w, U) /\ Numbers(s, U)
        BY <2>2, NumbersOnSubset
      <4>. DEFINE V == U \ {x}
                  a == SumFunctionOnSet(s, V)
                  b == SumFunctionOnSet(w, V)
      <4>3. /\ SumFunctionOnSet(s, U) = s[x] + a /\ SumFunctionOnSet(w, U) = w[x] + b
        BY <4>1, <4>2, SumRemove
      <4>4. a * total <= 100 * b
        BY <2>3, <4>1
      <4>5. a \in Nat /\ b \in Nat
        <5>1. Numbers(w, V) /\ Numbers(s, V)
          BY <4>2, NumbersOnSubset
        <5>. HIDE DEF V
        <5>. QED  BY <5>1, SumType
      <4>6. w[x] \in Nat /\ s[x] \in Nat /\ s[x] * total <= 100 * w[x]
        BY <2>1, <4>1
      <4>. HIDE DEF a, b
      <4>7. (s[x] + a) * total = s[x] * total + a * total
        BY <1>1, <4>5, <4>6
      <4>8. (s[x] + a) * total <= 100 * (w[x] + b)
        <5>. DEFINE p == s[x] * total
                    q == a * total
        <5>1. p \in Nat /\ q \in Nat
          BY <1>1, <4>5, <4>6
        <5>. HIDE DEF p, q
        <5>2. p + q <= 100 * (w[x] + b)
          BY <4>4, <4>5, <4>6, <5>1 DEF p, q
        <5>. QED  BY <4>7, <5>2 DEF p, q
      <4>. QED  BY <4>3, <4>8
    <3>. QED  BY <3>1, <3>2
  <2>4. S \in fits
    <3>. HIDE DEF fits
    <3>1. Hereditary(fits, S)
      BY <2>3 DEF Hereditary
    <3>2. SUBSET S \subseteq fits
      BY <1>1, <3>1, SubsetsByInduction
    <3>. QED  BY <3>2
  <2>5. SumFunctionOnSet(s, S) * total <= 100 * total
    BY <2>4 DEF S
  <2>6. SumFunctionOnSet(s, S) \in Nat
    BY <2>2, SumType
  <2>7. SumFunctionOnSet(s, S) <= 100
    <3>. DEFINE all == SumFunctionOnSet(s, S)
    <3>1. all \in Nat /\ all * total <= 100 * total /\ 100 \in Nat
      BY <2>5, <2>6
    <3>. HIDE DEF all
    <3>2. all <= 100
      BY <2>0, <3>1, Divided
    <3>. QED  BY <3>2 DEF all
  <2>. QED  BY <2>7 DEF s, S
<1>. QED  BY <1>2, <1>3

\* Right tallies are rightly shown.
LEMMA TalliesAreShown ==
  ASSUME told \in Told, Tallied(findings, told)
  PROVE  FindingsAreTold
<1>. DEFINE N == Names(told, "Allocation")
            M == Names(told, "Exception")
            bytes == [name \in DOMAIN findings.allocations |-> findings.allocations[name].bytes]
            counts == [name \in DOMAIN findings.exceptions |-> findings.exceptions[name].count]
            top == TopAllocations(findings, Len(told))
            thrown == TopExceptions(findings, Len(told))
<1>1. /\ IsFiniteSet(N) /\ IsFiniteSet(M)
      /\ findings.allocations = Sites(told) /\ findings.exceptions = AllThrows(told)
      /\ findings.contention.total = Amount(told, Waits(told))
      /\ findings.contention.max <= findings.contention.total
      /\ findings.total_allocated = SumFunctionOnSet(Bytes(told), N)
  BY DEF Tallied
<1>2. DOMAIN findings.allocations = N /\ DOMAIN findings.exceptions = M
  BY <1>1 DEF Sites, AllThrows
<1>3. Len(told) \in Nat
  BY DEF Told
<1>4. N \subseteq Seq(Nat) /\ M \subseteq Seq(Nat)
  BY NamesAreLetters
<1>5. /\ DOMAIN bytes = N /\ DOMAIN counts = M /\ bytes = Bytes(told)
  BY <1>1, <1>2 DEF Sites, Bytes
<1>6. Numbers(bytes, N)
  <2>. HIDE DEF bytes, N
  <2>1. Numbers(Bytes(told), N)
    BY <1>1, BytesAre DEF N
  <2>. QED  BY <1>5, <2>1
<1>7. Numbers(counts, M)
  <2>1. ASSUME NEW name \in M PROVE counts[name] \in Nat
    <3>1. counts[name] = Cardinality(Of(told, "Exception", name))
      BY <1>1, <1>2, <2>1 DEF AllThrows, Throws
    <3>2. Cardinality(Of(told, "Exception", name)) \in Nat
      BY PlacesAre
    <3>. QED  BY <3>1, <3>2
  <2>. HIDE DEF counts, M
  <2>. QED  BY <1>1, <2>1 DEF Numbers, M
<1>8. Falling(top, bytes)
  <2>1. top = Top(bytes, Len(told))
    BY DEF TopAllocations
  <2>. HIDE DEF bytes, N, top
  <2>. QED  BY <1>3, <1>4, <1>5, <1>6, <2>1, TopFalls
<1>9. Falling(thrown, counts)
  <2>1. thrown = Top(counts, Len(told))
    BY DEF TopExceptions
  <2>. HIDE DEF counts, M, thrown
  <2>. QED  BY <1>3, <1>4, <1>5, <1>7, <2>1, TopFalls
<1>10. \A i, j \in DOMAIN top : i < j =>
         findings.allocations[top[i]].bytes >= findings.allocations[top[j]].bytes
  BY <1>2, <1>5, <1>8 DEF Falling
<1>11. \A i, j \in DOMAIN thrown : i < j =>
         findings.exceptions[thrown[i]].count >= findings.exceptions[thrown[j]].count
  BY <1>2, <1>5, <1>9 DEF Falling
<1>12. SumFunctionOnSet([name \in DOMAIN findings.allocations |-> AllocationShare(findings, name)],
                        DOMAIN findings.allocations) <= 100
  <2>. DEFINE total == findings.total_allocated
  <2>1. [name \in DOMAIN findings.allocations |-> AllocationShare(findings, name)] =
          Share(bytes, total)
    BY DEF AllocationShare, Share
  <2>2. total = SumFunctionOnSet(bytes, N)
    BY <1>1, <1>5
  <2>. HIDE DEF bytes, total, N
  <2>3. SumFunctionOnSet(Share(bytes, total), DOMAIN bytes) <= 100
    BY <1>5, <1>6, <2>2, SharesFit
  <2>. QED  BY <1>2, <1>5, <2>1, <2>3
<1>13. ASSUME NEW type, NEW name
       PROVE  ToldOf(type, name) = Of(told, type, name)
  BY DEF ToldOf, Of
<1>14. \A type : NamesTold(type) = Names(told, type)
  BY DEF NamesTold, Names
<1>15. ASSUME NEW places
       PROVE  AmountOf(places) = Amount(told, places) /\ FirstOf(places) = First(told, places)
  BY DEF AmountOf, Amount, Amounts, FirstOf, First
<1>16. ASSUME NEW name \in N
       PROVE  LET ticks == ToldOf("Allocation", name)
                  large == \E i \in ticks : Occurrences[told[i]].kind = "Large"
              IN  findings.allocations[name] =
                    [bytes |-> AmountOf(ticks), ticks |-> Cardinality(ticks),
                     kind |-> IF large THEN "Large" ELSE FirstOf(ticks).kind]
  <2>1. findings.allocations[name] = Site(told, name)
    BY <1>1 DEF Sites
  <2>. QED  BY <1>13, <1>15, <2>1 DEF Site, Large
<1>17. ASSUME NEW name \in M
       PROVE  LET throws == ToldOf("Exception", name)
              IN  findings.exceptions[name] =
                    [message |-> FirstOf(throws).message, count |-> Cardinality(throws)]
  <2>1. findings.exceptions[name] = Throws(told, name)
    BY <1>1 DEF AllThrows
  <2>. QED  BY <1>13, <1>15, <2>1 DEF Throws
<1>18. findings.contention.total = AmountOf(ToldOf("Contention", <<>>))
  BY <1>1, <1>13, <1>15 DEF Waits
<1>. HIDE DEF top, thrown, N, M
<1>. QED  BY <1>1, <1>2, <1>10, <1>11, <1>12, <1>14, <1>16, <1>17, <1>18
          DEF FindingsAreTold, top, thrown, N, M

----------------------------------------------------------------------------
(* The theorems.                                                           *)

\* The invariant holds of every state of Investigation.
THEOREM Inductive == Spec => []IInv
<1>1. IInv /\ [Next]_vars => IInv'
  <2>. SUFFICES ASSUME IInv, [Next]_vars PROVE IInv'
    OBVIOUS
  <2>1. CASE Next
    BY <2>1, SuspendStep, CollectStep, EndStep, MeasureStep, RestartStep, OccurStep, BlockStep,
       OpenStep, CloseStep, RecordStep, ResetStep DEF Next
  <2>2. CASE UNCHANGED vars
    BY <2>2 DEF vars, runtimeVars, findingVars, IInv, TypeOK, GcNumbered, Delivery
  <2>. QED  BY <2>1, <2>2
<1>. QED  BY <1>1, Starts, PTL DEF Spec

\* Whatever the runtime does and in whatever order its events arrive, the state
\* is of its type, and no more collections are kept than MAX_RECENT_GCS.
THEOREM TypeCorrect == Spec => []TypeOK
<1>1. IInv => TypeOK
  BY DEF IInv
<1>. QED  BY <1>1, Inductive, PTL

\* The screen lists the latest collections to have started (record_gc_start,
\* flush_pending), for every MAX_RECENT_GCS.
THEOREM LatestAreListed == Spec => []LatestListed
<1>1. IInv => LatestListed
  BY DEF IInv, Consistent, Latest, LatestListed
<1>. QED  BY <1>1, Inductive, PTL

\* No pause is shown for two collections (record_restart, record_gc_start).
THEOREM PausesAttributedOnce == Spec => []PauseAttributedOnce
<1>1. IInv => PauseAttributedOnce
  BY DEF IInv, Consistent, Once, PauseAttributedOnce
<1>. QED  BY <1>1, Inductive, PTL

\* The pauses added up since the last reset fit the time since the first
\* suspension (record_suspend, record_restart).
THEOREM PausesFitTheTime == Spec => []PausesFit
<1>1. IInv => PausesFit
  <2>. SUFFICES ASSUME IInv PROVE PausesFit
    OBVIOUS
  <2>1. /\ clock \in Nat /\ since \in Nat /\ state.totalPause \in Nat
    BY DEF IInv, TypeOK, State
  <2>2. clock + 1 > since + state.totalPause /\ (state.totalPause > 0 => since # NoTime)
    BY DEF IInv, Delivery, After, Consistent, Fits
  <2>. QED  BY <2>1, <2>2 DEF PausesFit
<1>. QED  BY <1>1, Inductive, PTL
\* The tallies are those of what has been told.
AllTallied == Tallied(findings, told)

\* They stay so, whatever is recorded and whenever they are reset.
THEOREM FindingsTallied == Spec => []AllTallied
<1>1. Init => AllTallied
  BY NothingTallied DEF Init, AllTallied
<1>2. IInv /\ AllTallied /\ [Next]_vars => AllTallied'
  <2>. SUFFICES ASSUME IInv, Tallied(findings, told), [Next]_vars PROVE AllTallied'
    BY DEF AllTallied
  <2>1. CASE Record
    <3>. DEFINE e == Head(stream)
    <3>1. /\ findings' = IF e.type = "Finding" THEN RecordFinding(findings, Occurrences[e.of])
                         ELSE findings
          /\ told' = IF e.type = "Finding" THEN Append(told, e.of) ELSE told
          /\ stream # <<>>
      BY <2>1 DEF Record
    <3>2. e \in Event \cup Finding /\ told \in Told
      <4>1. stream \in Seq(Event \cup Finding) /\ told \in Told
        BY DEF IInv, TypeOK, Told
      <4>. QED  BY <3>1, <4>1
    <3>. HIDE DEF e
    <3>3. CASE e.type = "Finding"
      <4>1. e.of \in DOMAIN Occurrences
        BY <3>2, <3>3 DEF Event, Finding
      <4>2. Tallied(RecordFinding(findings, Occurrences[e.of]), Append(told, e.of))
        BY <3>2, <4>1, FindingTold
      <4>. QED  BY <3>1, <3>3, <4>2 DEF AllTallied
    <3>4. CASE e.type # "Finding"
      BY <3>1, <3>4 DEF AllTallied
    <3>. QED  BY <3>3, <3>4
  <2>2. CASE Reset
    BY <2>2, NothingTallied DEF Reset, AllTallied
  <2>3. CASE UNCHANGED findingVars
    BY <2>3 DEF findingVars, AllTallied
  <2>4. Next => Record \/ Reset \/ UNCHANGED findingVars
    BY DEF Next, Suspend, Collect, EndCollection, Measure, Restart, Report, Occur, WriteBlock,
       Open, Close
  <2>5. UNCHANGED vars => UNCHANGED findingVars
    BY DEF vars
  <2>. QED  BY <2>1, <2>2, <2>3, <2>4, <2>5
<1>. QED  BY <1>1, <1>2, Inductive, PTL DEF Spec

\* What the screen says of a type is what happened to it since the last reset:
\* whatever the pointer size and version of the process that wrote it
\* (runtime/events.rs), and however its events are added up (runtime/state.rs).
THEOREM FindingsTold == Spec => []FindingsAreTold
<1>1. IInv /\ AllTallied => FindingsAreTold
  BY TalliesAreShown DEF IInv, TypeOK, Told, AllTallied
<1>. QED  BY <1>1, Inductive, FindingsTallied, PTL
==============================================================================
