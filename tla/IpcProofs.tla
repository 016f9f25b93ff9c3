--------------------------------- MODULE IpcProofs ---------------------------------
(***************************************************************************)
(* What is written is what is read: a payload from its fields, a message   *)
(* from its payload, and with them what countercow learns of a process and *)
(* what it asks it for, for every process and every list of providers.     *)
(***************************************************************************)
EXTENDS Ipc, FoldFacts, SequenceTheorems

----------------------------------------------------------------------------
(* Parts put together one after the other.                                 *)

\* Part i lies in flat between o[i - 1] and o[i], for the first m parts.
Laid(T, flat, parts, o, m) ==
  /\ flat \in Seq(T) /\ Len(flat) = o[m]
  /\ \A i \in 1 .. m :
       /\ o[i] <= o[m]
       /\ \A k \in 1 .. Len(parts[i]) : flat[o[i - 1] + k] = parts[i][k]

\* Where each part ends.
Offsets(o, parts) ==
  /\ o \in [0 .. Len(parts) -> Nat]
  /\ o[0] = 0
  /\ \A i \in 1 .. Len(parts) : o[i] = o[i - 1] + Len(parts[i])

\* A sequence after another.
LEMMA Joined ==
  ASSUME NEW T, NEW s \in Seq(T), NEW t \in Seq(T)
  PROVE  /\ s \o t \in Seq(T) /\ Len(s \o t) = Len(s) + Len(t)
         /\ \A k \in 1 .. Len(s) : (s \o t)[k] = s[k]
         /\ \A k \in 1 .. Len(t) : (s \o t)[Len(s) + k] = t[k]
OBVIOUS

\* u is s and then t.
IsJoin(T, u, s, t) ==
  /\ u \in Seq(T) /\ Len(u) = Len(s) + Len(t)
  /\ \A k \in 1 .. Len(s) : u[k] = s[k]
  /\ \A k \in 1 .. Len(t) : u[Len(s) + k] = t[k]

\* The same, under the name of IsJoin.
LEMMA IsJoined ==
  ASSUME NEW T, NEW s \in Seq(T), NEW t \in Seq(T)
  PROVE  IsJoin(T, s \o t, s, t)
BY Joined DEF IsJoin

\* The same of numbers.
LEMMA NumbersJoined ==
  ASSUME NEW s \in Seq(Nat), NEW t \in Seq(Nat)
  PROVE  /\ s \o t \in Seq(Nat) /\ Len(s \o t) = Len(s) + Len(t)
         /\ \A k \in 1 .. Len(s) : (s \o t)[k] = s[k]
         /\ \A k \in 1 .. Len(t) : (s \o t)[Len(s) + k] = t[k]
OBVIOUS

\* What has the cells of both in their places is the two joined.
LEMMA Joins ==
  ASSUME NEW T, NEW s \in Seq(T), NEW t \in Seq(T), NEW u \in Seq(T),
         Len(u) = Len(s) + Len(t),
         \A k \in 1 .. Len(s) : u[k] = s[k],
         \A k \in 1 .. Len(t) : u[Len(s) + k] = t[k]
  PROVE  s \o t = u
OBVIOUS

\* A place in a piece is a place in what the piece lies in.
LEMMA Within ==
  ASSUME NEW a \in Nat, NEW l \in Nat, NEW b \in Nat, a + l <= b, NEW k \in 1 .. l
  PROVE  a + k \in 1 .. b
OBVIOUS

\* The parts of a message are sequences.
LEMMA PartsOf ==
  ASSUME NEW T, NEW parts \in Seq(Seq(T))
  PROVE  Len(parts) \in Nat /\ \A i \in 1 .. Len(parts) : parts[i] \in Seq(T)
OBVIOUS

\* There is a place where each part ends.
LEMMA OffsetsExist ==
  ASSUME NEW T, NEW parts \in Seq(Seq(T))
  PROVE  \E o : Offsets(o, parts)
<1>. DEFINE n == Len(parts)
            next == [kt \in (1 .. n) \X Nat |-> kt[2] + Len(parts[kt[1]])]
<1>0. n \in Nat /\ \A i \in 1 .. n : Len(parts[i]) \in Nat
  BY PartsOf
<1>. HIDE DEF n
<1>1. next \in [(1 .. n) \X Nat -> Nat]
  BY <1>0
<1>2. \A i \in 1 .. n, t \in Nat : next[<<i, t>>] = t + Len(parts[i])
  BY <1>0
<1>. HIDE DEF next
<1>3. PICK o \in [0 .. n -> Nat] : IsUpto(o, n, 0, next)
  BY <1>0, <1>1, UptoExists, 0 \in Nat
<1>4. ASSUME NEW i \in 1 .. n PROVE o[i] = o[i - 1] + Len(parts[i])
  <2>1. i \in 0 .. n /\ i # 0 /\ i - 1 \in 0 .. n
    BY <1>0
  <2>2. o[i] = next[<<i, o[i - 1]>>] /\ o[i - 1] \in Nat
    BY <1>3, <2>1 DEF IsUpto
  <2>. QED  BY <1>2, <2>2
<1>5. o[0] = 0
  <2>1. 0 \in 0 .. n
    BY <1>0
  <2>. QED  BY <1>3, <2>1 DEF IsUpto
<1>. QED  BY <1>3, <1>4, <1>5 DEF Offsets, n

\* What FlattenSeq computes on the way.
IsFlatten(f, parts) ==
  f = [i \in 1 .. Len(parts) |-> IF i = 1 THEN parts[i] ELSE f[i - 1] \o parts[i]]

\* The function that FlattenSeq recurs by exists.
LEMMA FlattenExists ==
  ASSUME NEW T, NEW parts \in Seq(Seq(T)), parts # <<>>
  PROVE  \E f : IsFlatten(f, parts)
<1>. DEFINE n == Len(parts)
            next == [kt \in (1 .. n) \X Seq(T) |-> kt[2] \o parts[kt[1]]]
<1>0. n \in Nat /\ \A i \in 1 .. n : parts[i] \in Seq(T)
  BY PartsOf
<1>. HIDE DEF n
<1>1. next \in [(1 .. n) \X Seq(T) -> Seq(T)]
  BY <1>0
<1>2. \A i \in 1 .. n, t \in Seq(T) : next[<<i, t>>] = t \o parts[i]
  BY <1>0
<1>. HIDE DEF next
<1>3. PICK f \in [0 .. n -> Seq(T)] : IsUpto(f, n, <<>>, next)
  BY <1>0, <1>1, UptoExists, <<>> \in Seq(T)
<1>. DEFINE g == [i \in 1 .. n |-> f[i]]
<1>4. ASSUME NEW i \in 1 .. n PROVE f[i] = IF i = 1 THEN parts[i] ELSE f[i - 1] \o parts[i]
  <2>0. i \in 0 .. n /\ i # 0 /\ i - 1 \in 0 .. n
    BY <1>0
  <2>1. f[i] = next[<<i, f[i - 1]>>] /\ f[i - 1] \in Seq(T)
    BY <1>3, <2>0 DEF IsUpto
  <2>2. f[i] = f[i - 1] \o parts[i]
    BY <1>2, <2>1
  <2>3. CASE i = 1
    <3>0. 0 \in 0 .. n
      BY <1>0
    <3>1. f[0] = <<>>
      BY <1>3, <3>0 DEF IsUpto
    <3>2. <<>> \o parts[i] = parts[i]
      BY <1>0
    <3>3. i - 1 = 0
      BY <2>3
    <3>. QED  BY <2>2, <2>3, <3>1, <3>2, <3>3, Zenon
  <2>. QED  BY <2>2, <2>3
<1>5. ASSUME NEW i \in 1 .. n PROVE g[i] = IF i = 1 THEN parts[i] ELSE g[i - 1] \o parts[i]
  <2>1. i # 1 => i - 1 \in 1 .. n
    BY <1>0
  <2>. QED  BY <1>4, <2>1
<1>6. g = [i \in 1 .. n |-> IF i = 1 THEN parts[i] ELSE g[i - 1] \o parts[i]]
  BY <1>5
<1>. HIDE DEF g
<1>. QED  BY <1>6 DEF IsFlatten, n

\* Each part is found where the ones before it end.
LEMMA FlattenLaysOut ==
  ASSUME NEW T, NEW parts \in Seq(Seq(T)), NEW o, Offsets(o, parts)
  PROVE  Laid(T, FlattenSeq(parts), parts, o, Len(parts))
<1>. DEFINE n == Len(parts)
            f == CHOOSE g : IsFlatten(g, parts)
            laid == {m \in Nat : m \in 1 .. n => Laid(T, f[m], parts, o, m)}
<1>0. CASE parts = <<>>
  <2>1. n = 0 /\ FlattenSeq(parts) = <<>> /\ o[0] = 0
    BY <1>0 DEF FlattenSeq, Offsets
  <2>. QED  BY <2>1 DEF Laid
<1>. SUFFICES ASSUME parts # <<>> PROVE Laid(T, FlattenSeq(parts), parts, o, n)
  BY <1>0
<1>1. IsFlatten(f, parts)
  BY FlattenExists
<1>2. FlattenSeq(parts) = f[n]
  BY DEF FlattenSeq, IsFlatten
<1>3. /\ n \in Nat \ {0}
      /\ \A i \in 1 .. n : /\ parts[i] \in Seq(T) /\ Len(parts[i]) \in Nat
                           /\ o[i] \in Nat /\ o[i - 1] \in Nat
                           /\ o[i] = o[i - 1] + Len(parts[i])
      /\ o[0] = 0
  <2>1. n \in Nat \ {0}
    OBVIOUS
  <2>2. ASSUME NEW i \in 1 .. n
        PROVE  parts[i] \in Seq(T) /\ Len(parts[i]) \in Nat
    BY PartsOf
  <2>. HIDE DEF n
  <2>3. ASSUME NEW i \in 1 .. n PROVE i \in 0 .. n /\ i - 1 \in 0 .. n
    BY <2>1
  <2>4. /\ o[0] = 0 /\ \A i \in 0 .. n : o[i] \in Nat
        /\ \A i \in 1 .. n : o[i] = o[i - 1] + Len(parts[i])
    BY DEF Offsets, n
  <2>5. ASSUME NEW i \in 1 .. n PROVE o[i] \in Nat /\ o[i - 1] \in Nat
    BY <2>3, <2>4
  <2>. QED  BY <2>1, <2>2, <2>4, <2>5
<1>4. \A i \in 1 .. n : f[i] = IF i = 1 THEN parts[i] ELSE f[i - 1] \o parts[i]
  BY <1>1 DEF IsFlatten
<1>. HIDE DEF f, n
<1>5. 0 \in laid
  OBVIOUS
<1>6. ASSUME NEW m \in Nat, m \in laid PROVE m + 1 \in laid
  <2>. SUFFICES ASSUME m + 1 \in 1 .. n PROVE Laid(T, f[m + 1], parts, o, m + 1)
    OBVIOUS
  <2>0. (m + 1) - 1 = m
    OBVIOUS
  <2>1. /\ parts[m + 1] \in Seq(T) /\ Len(parts[m + 1]) \in Nat
        /\ o[m] \in Nat /\ o[m + 1] \in Nat
        /\ o[m + 1] = o[m] + Len(parts[m + 1])
    BY <1>3, <2>0
  <2>2. CASE m = 0
    <3>1. f[1] = parts[1] /\ o[0] = 0 /\ 1 \in 1 .. n
      BY <1>3, <1>4
    <3>2. f[1] \in Seq(T) /\ Len(f[1]) = o[1]
      BY <2>1, <2>2, <3>1
    <3>3. \A k \in 1 .. Len(parts[1]) : f[1][o[0] + k] = parts[1][k]
      BY <1>3, <3>1
    <3>4. \A i \in 1 .. 1 : i = 1 /\ i - 1 = 0
      OBVIOUS
    <3>5. o[1] <= o[1]
      BY <2>1, <2>2
    <3>6. Laid(T, f[1], parts, o, 1)
      BY <3>2, <3>3, <3>4, <3>5 DEF Laid
    <3>. QED  BY <2>2, <3>6
  <2>3. CASE m # 0
    <3>0. m \in 1 .. n /\ m + 1 # 1
      BY <1>3, <2>3
    <3>1. m \in 1 .. n /\ f[m + 1] = f[m] \o parts[m + 1]
      BY <1>4, <2>0, <3>0
    <3>2. Laid(T, f[m], parts, o, m)
      BY <1>6, <3>1
    <3>3. f[m] \in Seq(T) /\ Len(f[m]) = o[m]
      BY <3>2 DEF Laid
    <3>4. /\ f[m + 1] \in Seq(T) /\ Len(f[m + 1]) = o[m + 1]
          /\ \A k \in 1 .. o[m] : f[m + 1][k] = f[m][k]
          /\ \A k \in 1 .. Len(parts[m + 1]) : f[m + 1][o[m] + k] = parts[m + 1][k]
      <4>1. Len(f[m]) = o[m]
        BY <3>3
      <4>. DEFINE s == f[m]
                  t == parts[m + 1]
      <4>2. /\ s \o t \in Seq(T) /\ Len(s \o t) = Len(s) + Len(t)
            /\ \A k \in 1 .. Len(s) : (s \o t)[k] = s[k]
            /\ \A k \in 1 .. Len(t) : (s \o t)[Len(s) + k] = t[k]
        <5>1. s \in Seq(T) /\ t \in Seq(T)
          BY <2>1, <3>3
        <5>. HIDE DEF s, t
        <5>. QED  BY <5>1, Joined
      <4>. QED  BY <2>1, <3>1, <4>1, <4>2, Zenon
    <3>5. ASSUME NEW i \in 1 .. m
          PROVE  /\ o[i] <= o[m + 1]
                 /\ \A k \in 1 .. Len(parts[i]) : f[m + 1][o[i - 1] + k] = parts[i][k]
      <4>1. i \in 1 .. n
        BY <3>1, <1>3
      <4>2. /\ o[i - 1] \in Nat /\ o[i] \in Nat /\ o[i] <= o[m]
            /\ o[i] = o[i - 1] + Len(parts[i]) /\ Len(parts[i]) \in Nat
        BY <1>3, <3>2, <4>1 DEF Laid
      <4>3. ASSUME NEW k \in 1 .. Len(parts[i]) PROVE f[m + 1][o[i - 1] + k] = parts[i][k]
        <5>0. o[i - 1] + Len(parts[i]) <= o[m] /\ o[m] \in Nat
          BY <2>1, <4>2
        <5>1. o[i - 1] + k \in 1 .. o[m]
          BY <4>2, <5>0, Within
        <5>2. f[m + 1][o[i - 1] + k] = f[m][o[i - 1] + k]
          BY <3>4, <5>1
        <5>. QED  BY <3>2, <5>2 DEF Laid
      <4>4. o[i] <= o[m + 1]
        <5>1. o[m + 1] \in Nat /\ o[m] \in Nat /\ o[m] <= o[m + 1]
          BY <2>1
        <5>. QED  BY <4>2, <5>1
      <4>. QED  BY <4>3, <4>4
    <3>6. ASSUME NEW i \in 1 .. m + 1
          PROVE  /\ o[i] <= o[m + 1]
                 /\ \A k \in 1 .. Len(parts[i]) : f[m + 1][o[i - 1] + k] = parts[i][k]
      <4>1. CASE i \in 1 .. m
        BY <3>5, <4>1
      <4>2. CASE i = m + 1
        <5>1. i - 1 = m
          BY <4>2
        <5>. QED  BY <2>1, <3>4, <4>2, <5>1
      <4>. QED  BY <4>1, <4>2
    <3>. QED  BY <3>4, <3>6 DEF Laid
  <2>. QED  BY <2>2, <2>3
<1>7. Nat \subseteq laid
  <2>. HIDE DEF laid
  <2>. QED  BY <1>5, <1>6, NumbersByInduction
<1>8. n \in laid /\ n \in 1 .. n
  BY <1>3, <1>7
<1>. QED  BY <1>2, <1>8 DEF n

----------------------------------------------------------------------------
(* Payloads.                                                               *)

\* The parts are fields of the layout: a number, or a text with its count.
Fits(parts, layout) ==
  /\ parts \in Seq(Seq(Nat)) /\ Len(layout) = Len(parts) /\ DOMAIN layout = 1 .. Len(parts)
  /\ \A i \in 1 .. Len(parts) :
       /\ Len(parts[i]) > 0
       /\ Len(parts[i]) = IF layout[i] = "string" THEN 1 + parts[i][1] ELSE 1

\* What a reader makes of a part.
ValueOf(part, kind) == IF kind = "string" THEN SubSeq(part, 2, Len(part) - 1) ELSE part

\* The fields of a buffer made of such parts, where the parts are.
LEMMA FieldsAreParts ==
  ASSUME NEW parts, NEW layout, Fits(parts, layout), NEW o, Offsets(o, parts),
         NEW i \in 1 .. Len(parts)
  PROVE  LET buf == FlattenSeq(parts)
         IN  /\ parts[i] \in Seq(Nat)
             /\ o[i - 1] \in Nat /\ o[i] = o[i - 1] + Len(parts[i]) /\ o[i] <= Len(buf)
             /\ \A k \in 1 .. Len(parts[i]) : buf[o[i - 1] + k] = parts[i][k]
             /\ FieldSize(SubSeq(buf, o[i - 1] + 1, Len(buf)), layout[i]) = Len(parts[i])
<1>. DEFINE buf == FlattenSeq(parts)
            n == Len(parts)
            left == SubSeq(buf, o[i - 1] + 1, Len(buf))
<1>0. n \in Nat /\ parts[i] \in Seq(Nat) /\ Len(parts[i]) \in Nat
  BY PartsOf DEF Fits
<1>1. Laid(Nat, buf, parts, o, n)
  BY FlattenLaysOut DEF Fits
<1>2. i - 1 \in 0 .. n /\ i \in 1 .. n
  <2>. HIDE DEF n
  <2>1. i \in 1 .. n
    BY DEF n
  <2>. QED  BY <1>0, <2>1
<1>3. o[i - 1] \in Nat /\ o[i] = o[i - 1] + Len(parts[i])
  BY <1>2 DEF Offsets
<1>. HIDE DEF buf, n, left
<1>4. /\ o[i] <= Len(buf) /\ Len(buf) \in Nat /\ buf \in Seq(Nat)
      /\ \A k \in 1 .. Len(parts[i]) : buf[o[i - 1] + k] = parts[i][k]
  BY <1>1, <1>2 DEF Laid
<1>5. Len(parts[i]) > 0 /\ Len(parts[i]) = IF layout[i] = "string" THEN 1 + parts[i][1] ELSE 1
  BY <1>2 DEF Fits, n
<1>6. left # <<>> /\ left[1] = parts[i][1]
  <2>0. 1 \in 1 .. Len(parts[i]) /\ o[i - 1] + Len(parts[i]) <= Len(buf)
    BY <1>0, <1>3, <1>4, <1>5
  <2>1. o[i - 1] + 1 \in 1 .. Len(buf) /\ 1 \in 1 .. Len(parts[i])
    BY <1>0, <1>3, <1>4, <2>0, Within
  <2>2. buf[o[i - 1] + 1] = parts[i][1]
    BY <1>4, <2>1
  <2>3. Len(left) > 0 /\ left[1] = buf[o[i - 1] + 1]
    <3>. DEFINE from == o[i - 1]
                to == Len(buf)
                tail == SubSeq(buf, from + 1, to)
    <3>1. from \in Nat /\ to \in Nat /\ from + 1 \in 1 .. to /\ to = Len(buf)
      BY <1>3, <1>4, <2>1
    <3>. HIDE DEF from, to
    <3>2. \A k \in from + 1 .. to : buf[k] \in Nat
      BY <1>4, <3>1
    <3>3. Len(tail) = to - from /\ tail[1] = buf[from + 1]
      BY <3>1, <3>2, SubSeqProperties
    <3>. QED  BY <3>1, <3>3 DEF left, from, to
  <2>4. Len(<<>>) = 0
    OBVIOUS
  <2>. QED  BY <2>2, <2>3, <2>4
<1>7. FieldSize(left, layout[i]) = Len(parts[i])
  BY <1>5, <1>6 DEF FieldSize
<1>. QED  BY <1>0, <1>3, <1>4, <1>7 DEF buf, left

\* What Ends computes.
IsEnds(e, buf, layout) ==
  e = [i \in 0 .. Len(layout) |->
         IF i = 0 THEN 0
         ELSE e[i - 1] + FieldSize(SubSeq(buf, e[i - 1] + 1, Len(buf)), layout[i])]

\* A reader that goes field by field stops where the parts end.
LEMMA EndsAreOffsets ==
  ASSUME NEW parts, NEW layout, Fits(parts, layout), NEW o, Offsets(o, parts)
  PROVE  \A i \in 0 .. Len(parts) : Ends(FlattenSeq(parts), layout)[i] = o[i]
<1>. DEFINE buf == FlattenSeq(parts)
            n == Len(parts)
            e == CHOOSE f : IsEnds(f, buf, layout)
            same == {i \in Nat : i \in 0 .. n => e[i] = o[i]}
<1>0. n \in Nat /\ Len(layout) = n
  BY PartsOf DEF Fits
<1>1. ASSUME NEW i \in 1 .. n
      PROVE  o[i] = o[i - 1] + FieldSize(SubSeq(buf, o[i - 1] + 1, Len(buf)), layout[i])
  BY FieldsAreParts
<1>2. Ends(buf, layout) = e
  BY DEF Ends, IsEnds
<1>. HIDE DEF buf, n
<1>3. IsEnds(o, buf, layout)
  <2>1. ASSUME NEW i \in 0 .. n
        PROVE  o[i] = IF i = 0 THEN 0
                      ELSE o[i - 1] + FieldSize(SubSeq(buf, o[i - 1] + 1, Len(buf)), layout[i])
    <3>1. i # 0 => i \in 1 .. n
      BY <1>0
    <3>2. o[0] = 0
      BY DEF Offsets
    <3>. QED  BY <1>1, <3>1, <3>2
  <2>2. o = [i \in 0 .. n |-> o[i]]
    BY DEF Offsets, n
  <2>. QED  BY <1>0, <2>1, <2>2 DEF IsEnds
<1>4. IsEnds(e, buf, layout)
  BY <1>3
<1>. HIDE DEF e
<1>5. \A i \in 0 .. n : e[i] = IF i = 0 THEN 0
        ELSE e[i - 1] + FieldSize(SubSeq(buf, e[i - 1] + 1, Len(buf)), layout[i])
  BY <1>0, <1>4 DEF IsEnds
<1>6. 0 \in same
  BY <1>5 DEF Offsets
<1>7. ASSUME NEW i \in Nat, i \in same PROVE i + 1 \in same
  <2>. SUFFICES ASSUME i + 1 \in 0 .. n PROVE e[i + 1] = o[i + 1]
    OBVIOUS
  <2>1. (i + 1) - 1 = i /\ i + 1 \in 1 .. n /\ i \in 0 .. n /\ i + 1 # 0
    BY <1>0
  <2>2. e[i] = o[i]
    BY <1>7, <2>1
  <2>3. e[i + 1] = e[i] + FieldSize(SubSeq(buf, e[i] + 1, Len(buf)), layout[i + 1])
    BY <1>5, <2>1
  <2>4. o[i + 1] = o[i] + FieldSize(SubSeq(buf, o[i] + 1, Len(buf)), layout[i + 1])
    BY <1>1, <2>1
  <2>. QED  BY <2>2, <2>3, <2>4
<1>8. Nat \subseteq same
  <2>. HIDE DEF same
  <2>. QED  BY <1>6, <1>7, NumbersByInduction
<1>9. \A i \in 0 .. n : e[i] = o[i]
  BY <1>8
<1>. QED  BY <1>2, <1>9 DEF buf, n

\* A piece of a part, read where the part lies.
LEMMA SamePiece ==
  ASSUME NEW buf \in Seq(Nat), NEW part \in Seq(Nat), NEW a \in Nat, a + Len(part) <= Len(buf),
         \A k \in 1 .. Len(part) : buf[a + k] = part[k],
         NEW b \in 1 .. Len(part) + 1, NEW c \in 0 .. Len(part)
  PROVE  SubSeq(buf, a + b, a + c) = SubSeq(part, b, c)
<1>1. /\ SubSeq(buf, a + b, a + c) \in Seq(Nat)
      /\ Len(SubSeq(buf, a + b, a + c)) = IF b <= c THEN c - b + 1 ELSE 0
      /\ \A k \in 1 .. c - b + 1 : SubSeq(buf, a + b, a + c)[k] = buf[a + b + k - 1]
  <2>1. a + b \in Int /\ a + c \in Int /\ \A k \in a + b .. a + c : buf[k] \in Nat
    <3>. DEFINE n == Len(part)
                m == Len(buf)
    <3>1. n \in Nat /\ m \in Nat /\ a + n <= m
      OBVIOUS
    <3>2. b \in 1 .. n + 1 /\ c \in 0 .. n
      OBVIOUS
    <3>3. \A k \in 1 .. m : buf[k] \in Nat
      OBVIOUS
    <3>. HIDE DEF n, m
    <3>4. a + b \in Int /\ a + c \in Int
      BY <3>2
    <3>5. \A k \in a + b .. a + c : k \in 1 .. m
      BY <3>1, <3>2
    <3>. QED  BY <3>3, <3>4, <3>5
  <2>. DEFINE l == a + b
              h == a + c
  <2>2. l \in Int /\ h \in Int /\ \A k \in l .. h : buf[k] \in Nat
    BY <2>1
  <2>. HIDE DEF l, h
  <2>3. /\ SubSeq(buf, l, h) \in Seq(Nat)
        /\ Len(SubSeq(buf, l, h)) = IF l <= h THEN h - l + 1 ELSE 0
        /\ \A k \in 1 .. h - l + 1 : SubSeq(buf, l, h)[k] = buf[l + k - 1]
    BY <2>2, SubSeqProperties
  <2>4. (l <= h) = (b <= c) /\ h - l + 1 = c - b + 1
    BY DEF l, h
  <2>. QED  BY <2>3, <2>4 DEF l, h
<1>2. /\ SubSeq(part, b, c) \in Seq(Nat)
      /\ Len(SubSeq(part, b, c)) = IF b <= c THEN c - b + 1 ELSE 0
      /\ \A k \in 1 .. c - b + 1 : SubSeq(part, b, c)[k] = part[b + k - 1]
  <2>1. b \in Int /\ c \in Int /\ \A k \in b .. c : part[k] \in Nat
    <3>. DEFINE n == Len(part)
    <3>1. n \in Nat /\ b \in 1 .. n + 1 /\ c \in 0 .. n
      <4>1. n \in Nat
        OBVIOUS
      <4>2. b \in 1 .. n + 1
        OBVIOUS
      <4>3. c \in 0 .. n
        OBVIOUS
      <4>. QED  BY <4>1, <4>2, <4>3
    <3>2. ASSUME NEW k \in 1 .. n PROVE part[k] \in Nat
      BY ElementOfSeq
    <3>. HIDE DEF n
    <3>3. b \in Int /\ c \in Int /\ \A k \in b .. c : k \in 1 .. n
      BY <3>1
    <3>. QED  BY <3>2, <3>3
  <2>. QED  BY <2>1, SubSeqProperties
<1>3. ASSUME NEW k \in 1 .. Len(SubSeq(part, b, c))
      PROVE  SubSeq(buf, a + b, a + c)[k] = SubSeq(part, b, c)[k]
  <2>1. k \in 1 .. c - b + 1
    BY <1>2
  <2>2. b + k - 1 \in 1 .. Len(part) /\ a + b + k - 1 = a + (b + k - 1)
    <3>. DEFINE l == Len(part)
    <3>1. l \in Nat /\ b \in 1 .. l + 1 /\ c \in 0 .. l
      <4>1. l \in Nat
        OBVIOUS
      <4>2. b \in 1 .. l + 1
        OBVIOUS
      <4>3. c \in 0 .. l
        OBVIOUS
      <4>. QED  BY <4>1, <4>2, <4>3
    <3>. HIDE DEF l
    <3>2. b + k - 1 \in 1 .. l
      BY <2>1, <3>1
    <3>3. a + b + k - 1 = a + (b + k - 1)
      BY <2>1, <3>1
    <3>. QED  BY <3>2, <3>3 DEF l
  <2>3. buf[a + (b + k - 1)] = part[b + k - 1]
    BY <2>2
  <2>. QED  BY <1>1, <1>2, <2>1, <2>2, <2>3
<1>. DEFINE here == SubSeq(buf, a + b, a + c)
            there == SubSeq(part, b, c)
<1>4. here \in Seq(Nat) /\ there \in Seq(Nat) /\ Len(here) = Len(there)
  <2>1. here \in Seq(Nat) /\ there \in Seq(Nat)
    BY <1>1, <1>2
  <2>2. Len(here) = IF a + b <= a + c THEN (a + c) - (a + b) + 1 ELSE 0
    BY <1>1
  <2>3. Len(there) = IF b <= c THEN c - b + 1 ELSE 0
    BY <1>2
  <2>. HIDE DEF here, there
  <2>4. b \in Int /\ c \in Int
    OBVIOUS
  <2>. QED  BY <2>1, <2>2, <2>3, <2>4
<1>5. \A k \in 1 .. Len(there) : here[k] = there[k]
  BY <1>3
<1>6. here = there
  <2>. HIDE DEF here, there
  <2>. QED  BY <1>4, <1>5, SeqEqual
<1>. QED  BY <1>6

\* A payload written field by field is read back field by field, and to its end.
LEMMA FieldsReadBack ==
  ASSUME NEW parts, NEW layout, Fits(parts, layout)
  PROVE  ReadFields(FlattenSeq(parts), layout) =
           [ok |-> TRUE, rest |-> <<>>,
            values |-> [i \in DOMAIN layout |-> ValueOf(parts[i], layout[i])]]
<1>. DEFINE buf == FlattenSeq(parts)
            n == Len(parts)
            end == Ends(buf, layout)
<1>0. parts \in Seq(Seq(Nat)) /\ n \in Nat /\ Len(layout) = n /\ DOMAIN layout = 1 .. n
  BY PartsOf DEF Fits
<1>1. PICK o : Offsets(o, parts)
  BY <1>0, OffsetsExist
<1>2. \A i \in 0 .. n : end[i] = o[i]
  BY <1>1, EndsAreOffsets
<1>3. buf \in Seq(Nat) /\ Len(buf) = o[n]
  BY <1>0, <1>1, FlattenLaysOut DEF Laid
<1>4. ASSUME NEW i \in 1 .. n
      PROVE  (IF layout[i] = "string" THEN SubSeq(buf, end[i - 1] + 2, end[i] - 1)
              ELSE SubSeq(buf, end[i - 1] + 1, end[i])) = ValueOf(parts[i], layout[i])
  <2>. DEFINE part == parts[i]
              a == o[i - 1]
  <2>1. /\ part \in Seq(Nat) /\ a \in Nat /\ o[i] = a + Len(part) /\ o[i] <= Len(buf)
        /\ \A k \in 1 .. Len(part) : buf[a + k] = part[k]
    BY <1>1, FieldsAreParts
  <2>2. end[i - 1] = a /\ end[i] = o[i]
    <3>. HIDE DEF n, end
    <3>1. i - 1 \in 0 .. n /\ i \in 0 .. n
      BY <1>0
    <3>. QED  BY <1>2, <3>1
  <2>3. Len(part) > 0
    BY DEF Fits
  <2>. HIDE DEF part, a, end, buf, n
  <2>4. CASE layout[i] = "string"
    <3>1. 2 \in 1 .. Len(part) + 1 /\ Len(part) - 1 \in 0 .. Len(part)
      BY <2>1, <2>3
    <3>2. SubSeq(buf, a + 2, a + (Len(part) - 1)) = SubSeq(part, 2, Len(part) - 1)
      BY <1>3, <2>1, <3>1, SamePiece
    <3>3. a + (Len(part) - 1) = o[i] - 1
      BY <2>1
    <3>4. SubSeq(buf, end[i - 1] + 2, end[i] - 1) = SubSeq(part, 2, Len(part) - 1)
      BY <2>2, <3>2, <3>3, Zenon
    <3>. QED  BY <2>4, <3>4 DEF ValueOf, part
  <2>5. CASE layout[i] # "string"
    <3>1. 1 \in 1 .. Len(part) + 1 /\ Len(part) \in 0 .. Len(part)
      BY <2>1, <2>3
    <3>2. SubSeq(buf, a + 1, a + Len(part)) = SubSeq(part, 1, Len(part))
      BY <1>3, <2>1, <3>1, SamePiece
    <3>3. SubSeq(part, 1, Len(part)) = part
      BY <2>1, SubSeqFull
    <3>4. SubSeq(buf, end[i - 1] + 1, end[i]) = part
      BY <2>1, <2>2, <3>2, <3>3, Zenon
    <3>. QED  BY <2>5, <3>4 DEF ValueOf, part
  <2>. QED  BY <2>4, <2>5
<1>5. end[n] = Len(buf) /\ ~(end[n] > Len(buf))
  <2>1. n \in 0 .. n
    BY <1>0
  <2>. HIDE DEF end, buf, n
  <2>2. end[n] = Len(buf) /\ Len(buf) \in Nat
    BY <1>2, <1>3, <2>1
  <2>. QED  BY <2>2
<1>6. SubSeq(buf, end[n] + 1, Len(buf)) = <<>>
  <2>. HIDE DEF end, buf, n
  <2>1. Len(buf) \in Int /\ Len(buf) + 1 \in Int /\ Len(buf) < Len(buf) + 1
    BY <1>3
  <2>2. SubSeq(buf, Len(buf) + 1, Len(buf)) = <<>>
    BY <2>1, SubSeqEmpty
  <2>. QED  BY <1>5, <2>2
<1>7. ReadFields(buf, layout) =
        [ok |-> TRUE, rest |-> SubSeq(buf, end[n] + 1, Len(buf)),
         values |-> [i \in DOMAIN layout |->
           IF layout[i] = "string" THEN SubSeq(buf, end[i - 1] + 2, end[i] - 1)
           ELSE SubSeq(buf, end[i - 1] + 1, end[i])]]
  <2>. HIDE DEF buf, n
  <2>. QED  BY <1>0, <1>5 DEF ReadFields
<1>. HIDE DEF buf, n, end
<1>8. [i \in DOMAIN layout |->
         IF layout[i] = "string" THEN SubSeq(buf, end[i - 1] + 2, end[i] - 1)
         ELSE SubSeq(buf, end[i - 1] + 1, end[i])]
        = [i \in DOMAIN layout |-> ValueOf(parts[i], layout[i])]
  BY <1>0, <1>4
<1>9. ReadFields(buf, layout) =
        [ok |-> TRUE, rest |-> <<>>,
         values |-> [i \in DOMAIN layout |-> ValueOf(parts[i], layout[i])]]
  BY <1>6, <1>7, <1>8, Zenon
<1>. QED  BY <1>9 DEF buf

\* A text is a field of its own count, and reads as itself.
LEMMA StringReadsBack ==
  ASSUME NEW text \in Seq(Nat)
  PROVE  /\ String(text) \in Seq(Nat) /\ Len(String(text)) = Len(text) + 2
         /\ String(text)[1] = Len(text) + 1
         /\ ValueOf(String(text), "string") = text
<1>. DEFINE count == <<Len(text) + 1>>
            nul == <<0>>
            s == String(text)
<1>1. count \in Seq(Nat) /\ nul \in Seq(Nat) /\ Len(count) = 1 /\ Len(nul) = 1
      /\ count[1] = Len(text) + 1 /\ Len(text) \in Nat
  OBVIOUS
<1>2. s = (count \o text) \o nul
  BY DEF String
<1>. HIDE DEF count, nul, s
<1>. DEFINE front == count \o text
<1>3. /\ front \in Seq(Nat) /\ Len(front) = 1 + Len(text) /\ front[1] = Len(text) + 1
      /\ \A k \in 1 .. Len(text) : front[1 + k] = text[k]
  <2>1. /\ front \in Seq(Nat) /\ Len(front) = Len(count) + Len(text)
        /\ \A k \in 1 .. Len(count) : front[k] = count[k]
        /\ \A k \in 1 .. Len(text) : front[Len(count) + k] = text[k]
    BY <1>1, NumbersJoined
  <2>. HIDE DEF front
  <2>. QED  BY <1>1, <2>1
<1>4. /\ s \in Seq(Nat) /\ Len(s) = Len(text) + 2 /\ s[1] = Len(text) + 1
      /\ \A k \in 1 .. Len(text) : s[1 + k] = text[k]
  <2>. HIDE DEF front
  <2>1. /\ front \o nul \in Seq(Nat) /\ Len(front \o nul) = Len(front) + Len(nul)
        /\ \A k \in 1 .. Len(front) : (front \o nul)[k] = front[k]
    BY <1>1, <1>3, NumbersJoined
  <2>2. s = front \o nul
    BY <1>2 DEF front
  <2>3. \A k \in 1 .. Len(text) : 1 + k \in 1 .. Len(front)
    BY <1>1, <1>3
  <2>4. s \in Seq(Nat) /\ Len(s) = Len(text) + 2
    BY <1>1, <1>3, <2>1, <2>2
  <2>5. 1 \in 1 .. Len(front)
    BY <1>1, <1>3
  <2>. QED  BY <1>3, <2>1, <2>2, <2>3, <2>4, <2>5
<1>5. SubSeq(s, 1 + 1, 1 + Len(text)) = SubSeq(text, 1, Len(text))
  <2>1. 1 \in 1 .. Len(text) + 1 /\ Len(text) \in 0 .. Len(text) /\ 1 + Len(text) <= Len(s)
    BY <1>1, <1>4
  <2>. QED  BY <1>4, <2>1, 1 \in Nat, SamePiece
<1>6. ValueOf(s, "string") = text
  <2>1. Len(s) - 1 = 1 + Len(text) /\ 1 + 1 = 2
    BY <1>1, <1>4
  <2>2. SubSeq(text, 1, Len(text)) = text
    BY SubSeqFull
  <2>3. SubSeq(s, 2, Len(s) - 1) = text
    BY <1>5, <2>1, <2>2, Zenon
  <2>. QED  BY <2>3 DEF ValueOf
<1>. QED  BY <1>4, <1>6 DEF s

----------------------------------------------------------------------------
(* Messages.                                                               *)

\* A message is read back, whatever follows it, and nothing of what follows.
LEMMA MessageReadsBack ==
  ASSUME NEW payload \in Seq(Nat), NEW set \in Nat, NEW id \in Nat, NEW more \in Seq(Nat),
         HeaderSize + Len(payload) <= SizeMax
  PROVE  /\ EncodeMessage(set, id, payload).ok
         /\ EncodeMessage(set, id, payload).bytes \in Seq(Nat)
         /\ Len(EncodeMessage(set, id, payload).bytes) = HeaderSize + Len(payload)
         /\ ReadMessage(EncodeMessage(set, id, payload).bytes \o more) =
              [ok |-> TRUE, set |-> set, id |-> id, payload |-> payload, rest |-> more]
<1>. DEFINE l == Len(payload)
            header == <<Magic, HeaderSize + l, set, id>>
            bytes == header \o payload
            stream == bytes \o more
<1>1. l \in Nat /\ header \in Seq(Nat) /\ Len(header) = 4
      /\ header[1] = Magic /\ header[2] = HeaderSize + l /\ header[3] = set /\ header[4] = id
  BY DEF Magic, HeaderSize
<1>2. EncodeMessage(set, id, payload) = [ok |-> TRUE, bytes |-> bytes]
  BY <1>1, IpcAssumption DEF EncodeMessage, IpcAssumption, HeaderSize
<1>. HIDE DEF header
<1>3. /\ bytes \in Seq(Nat) /\ Len(bytes) = Len(header) + Len(payload)
      /\ \A k \in 1 .. Len(header) : bytes[k] = header[k]
      /\ \A k \in 1 .. Len(payload) : bytes[Len(header) + k] = payload[k]
  BY <1>1, NumbersJoined
<1>. HIDE DEF bytes
<1>4. /\ stream \in Seq(Nat) /\ Len(stream) = Len(bytes) + Len(more)
      /\ \A k \in 1 .. Len(bytes) : stream[k] = bytes[k]
      /\ \A k \in 1 .. Len(more) : stream[Len(bytes) + k] = more[k]
  BY <1>3, NumbersJoined
<1>. HIDE DEF stream
<1>5. Len(bytes) = 4 + l /\ Len(more) \in Nat /\ Len(stream) = 4 + l + Len(more)
  BY <1>1, <1>3, <1>4 DEF l
<1>. HIDE DEF l
<1>6. stream[1] = Magic /\ stream[2] = HeaderSize + l /\ stream[3] = set /\ stream[4] = id
  <2>1. \A k \in 1 .. 4 : k \in 1 .. Len(bytes) /\ k \in 1 .. Len(header)
    BY <1>1, <1>5
  <2>2. \A k \in 1 .. 4 : stream[k] = header[k]
    BY <1>3, <1>4, <2>1
  <2>. QED  BY <1>1, <2>2
<1>7. SubSeq(stream, HeaderSize + 1, HeaderSize + l) = payload
  <2>1. ASSUME NEW k \in 1 .. Len(payload) PROVE stream[4 + k] = payload[k]
    <3>1. 4 + k \in 1 .. Len(bytes)
      BY <1>1, <1>5 DEF l
    <3>2. stream[4 + k] = bytes[4 + k]
      BY <1>4, <3>1
    <3>3. bytes[4 + k] = payload[k]
      BY <1>1, <1>3
    <3>. QED  BY <3>2, <3>3
  <2>2. 4 + Len(payload) <= Len(stream) /\ 1 \in 1 .. Len(payload) + 1
        /\ Len(payload) \in 0 .. Len(payload) /\ 4 \in Nat
    BY <1>1, <1>5 DEF l
  <2>3. SubSeq(stream, 4 + 1, 4 + Len(payload)) = SubSeq(payload, 1, Len(payload))
    BY <1>4, <2>1, <2>2, SamePiece
  <2>. QED  BY <2>3, SubSeqFull, Zenon DEF l, HeaderSize
<1>8. SubSeq(stream, HeaderSize + l + 1, Len(stream)) = more
  <2>1. ASSUME NEW k \in 1 .. Len(more) PROVE stream[Len(bytes) + k] = more[k]
    BY <1>4
  <2>2. Len(bytes) \in Nat /\ Len(bytes) + Len(more) <= Len(stream) /\ 1 \in 1 .. Len(more) + 1
        /\ Len(more) \in 0 .. Len(more)
    BY <1>1, <1>4, <1>5
  <2>3. SubSeq(stream, Len(bytes) + 1, Len(bytes) + Len(more)) = SubSeq(more, 1, Len(more))
    BY <1>4, <2>1, <2>2, SamePiece
  <2>4. Len(bytes) = HeaderSize + l
    BY <1>5 DEF HeaderSize
  <2>. QED  BY <1>4, <2>3, <2>4, SubSeqFull, Zenon
<1>9. ReadMessage(stream) =
        [ok |-> TRUE, set |-> set, id |-> id, payload |-> payload, rest |-> more]
  <2>1. ~(Len(stream) < HeaderSize) /\ stream[1] = Magic /\ ~(stream[2] < HeaderSize)
        /\ ~(Len(stream) < stream[2]) /\ Len(stream) >= HeaderSize
    BY <1>1, <1>5, <1>6 DEF HeaderSize
  <2>2. ReadMessage(stream) =
          [ok |-> TRUE, set |-> stream[3], id |-> stream[4],
           payload |-> SubSeq(stream, HeaderSize + 1, stream[2]),
           rest |-> SubSeq(stream, stream[2] + 1, Len(stream))]
    BY <2>1, Zenon DEF ReadMessage
  <2>. QED  BY <1>6, <1>7, <1>8, <2>2, Zenon
<1>. QED  BY <1>2, <1>3, <1>5, <1>9 DEF stream, HeaderSize, l

\* A message that breaks off is a failure of the connection.
LEMMA BrokenOff ==
  ASSUME NEW payload \in Seq(Nat), NEW set \in Nat, NEW id \in Nat,
         HeaderSize + Len(payload) <= SizeMax
  PROVE  LET bytes == EncodeMessage(set, id, payload).bytes
         IN  ReadMessage(SubSeq(bytes, 1, Len(bytes) - 1)) = Error("Io")
<1>. DEFINE l == Len(payload)
            header == <<Magic, HeaderSize + l, set, id>>
            bytes == header \o payload
            stream == SubSeq(bytes, 1, Len(bytes) - 1)
<1>1. l \in Nat /\ header \in Seq(Nat) /\ Len(header) = 4
      /\ header[1] = Magic /\ header[2] = HeaderSize + l
  BY DEF Magic, HeaderSize
<1>2. EncodeMessage(set, id, payload).bytes = bytes
  BY <1>1, IpcAssumption DEF EncodeMessage, IpcAssumption, HeaderSize
<1>. HIDE DEF header
<1>3. /\ bytes \in Seq(Nat) /\ Len(bytes) = Len(header) + Len(payload)
      /\ \A k \in 1 .. Len(header) : bytes[k] = header[k]
  BY <1>1, NumbersJoined
<1>4. Len(bytes) = 4 + l
  BY <1>1, <1>3 DEF l
<1>. HIDE DEF bytes, l
<1>5. /\ Len(stream) = 3 + l
      /\ \A k \in 1 .. 3 + l : stream[k] = bytes[k]
  <2>1. /\ 1 \in Int /\ Len(bytes) - 1 \in Int
        /\ \A k \in 1 .. Len(bytes) - 1 : bytes[k] \in Nat
    <3>1. Len(bytes) \in Nat /\ bytes \in Seq(Nat)
      BY <1>3
    <3>2. \A k \in 1 .. Len(bytes) : bytes[k] \in Nat
      BY <3>1
    <3>. QED  BY <3>1, <3>2
  <2>. DEFINE h == Len(bytes) - 1
  <2>2. h = 3 + l /\ h \in Int /\ \A k \in 1 .. h : bytes[k] \in Nat
    BY <1>1, <1>4, <2>1
  <2>. HIDE DEF h
  <2>3. /\ Len(SubSeq(bytes, 1, h)) = IF 1 <= h THEN h - 1 + 1 ELSE 0
        /\ \A k \in 1 .. h - 1 + 1 : SubSeq(bytes, 1, h)[k] = bytes[1 + k - 1]
    BY <2>2, SubSeqProperties, 1 \in Int
  <2>4. h - 1 + 1 = 3 + l /\ 1 <= h /\ \A k \in 1 .. 3 + l : 1 + k - 1 = k
    BY <1>1, <2>2
  <2>. QED  BY <2>3, <2>4 DEF h
<1>. HIDE DEF stream
<1>6. ReadMessage(stream) = Error("Io")
  <2>1. CASE l = 0
    <3>1. Len(stream) < HeaderSize /\ ~(Len(stream) >= HeaderSize)
      BY <1>5, <2>1 DEF HeaderSize
    <3>. QED  BY <3>1, Zenon DEF ReadMessage
  <2>2. CASE l # 0
    <3>1. stream[1] = bytes[1] /\ stream[2] = bytes[2]
          /\ bytes[1] = header[1] /\ bytes[2] = header[2]
      <4>1. \A k \in 1 .. 2 : k \in 1 .. 3 + l /\ k \in 1 .. Len(header)
        BY <1>1
      <4>. QED  BY <1>3, <1>5, <4>1
    <3>2. /\ ~(Len(stream) < HeaderSize) /\ stream[1] = Magic /\ ~(stream[2] < HeaderSize)
          /\ Len(stream) < stream[2] /\ Len(stream) >= HeaderSize
      BY <1>1, <1>5, <2>2, <3>1 DEF HeaderSize
    <3>. QED  BY <3>2, Zenon DEF ReadMessage
  <2>. QED  BY <2>1, <2>2
<1>. QED  BY <1>2, <1>6 DEF stream

----------------------------------------------------------------------------
(* What is asked for is what is understood.                                *)

\* The list is of fours, one after the other.
InFours(T, flat, parts) ==
  /\ flat \in Seq(T) /\ Len(flat) = 4 * Len(parts)
  /\ \A i \in 1 .. Len(parts) : \A k \in 1 .. 4 : flat[4 * (i - 1) + k] = parts[i][k]

\* Fields joined four at a time lie four at a time.
LEMMA FoursLieInARow ==
  ASSUME NEW T, NEW parts \in Seq(Seq(T)), \A i \in 1 .. Len(parts) : Len(parts[i]) = 4
  PROVE  InFours(T, FlattenSeq(parts), parts)
<1>. DEFINE n == Len(parts)
            o == [i \in 0 .. n |-> 4 * i]
<1>0. n \in Nat /\ \A i \in 1 .. n : Len(parts[i]) = 4
  OBVIOUS
<1>. HIDE DEF n
<1>1. o[0] = 0 /\ o[n] = 4 * n /\ \A i \in 1 .. n : o[i - 1] = 4 * (i - 1) /\ o[i] = 4 * i
  BY <1>0
<1>2. Offsets(o, parts)
  <2>1. ASSUME NEW i \in 1 .. n PROVE o[i] = o[i - 1] + Len(parts[i])
    <3>1. o[i - 1] = 4 * (i - 1) /\ o[i] = 4 * i /\ Len(parts[i]) = 4
      BY <1>0, <1>1
    <3>. HIDE DEF o
    <3>2. 4 * i = 4 * (i - 1) + 4
      BY <1>0
    <3>. QED  BY <3>1, <3>2
  <2>2. o \in [0 .. n -> Nat]
    BY <1>0
  <2>. HIDE DEF o
  <2>. QED  BY <1>1, <2>1, <2>2 DEF Offsets, n
<1>. HIDE DEF o
<1>3. Laid(T, FlattenSeq(parts), parts, o, n)
  BY <1>2, FlattenLaysOut DEF n
<1>4. /\ FlattenSeq(parts) \in Seq(T) /\ Len(FlattenSeq(parts)) = 4 * n
      /\ \A i \in 1 .. n : \A k \in 1 .. 4 : FlattenSeq(parts)[4 * (i - 1) + k] = parts[i][k]
  BY <1>0, <1>1, <1>3 DEF Laid
<1>. QED  BY <1>4 DEF InFours, n

\* Every place is one of four of some group.
LEMMA ByFours ==
  ASSUME NEW n \in Nat, NEW j \in 1 .. 4 * n
  PROVE  \E i \in 1 .. n : \E k \in 1 .. 4 : j = 4 * (i - 1) + k
<1>1. /\ ((j - 1) \div 4) + 1 \in 1 .. n /\ ((j - 1) % 4) + 1 \in 1 .. 4
      /\ j = 4 * ((j - 1) \div 4) + ((j - 1) % 4) + 1
  OBVIOUS
<1>. QED  BY <1>1

\* The layout AskedRate reads a request for n providers by.
Kinds == {"u32", "u64", "bool", "guid", "string"}
ConfigHead == <<"u32", "u32", "bool", "u32">>
ConfigProvider == <<"u64", "u32", "string", "string">>
ConfigLayout(n) == ConfigHead \o FlattenSeq([i \in 1 .. n |-> ConfigProvider])

\* What a list of four and then fours looks like.
FourAndFours(T, flat, head, parts) ==
  /\ flat \in Seq(T) /\ Len(flat) = 4 + 4 * Len(parts)
  /\ \A k \in 1 .. 4 : flat[k] = head[k]
  /\ \A i \in 1 .. Len(parts) : \A k \in 1 .. 4 : flat[4 * i + k] = parts[i][k]

\* The same after a head of four.
LEMMA FourAndFoursJoined ==
  ASSUME NEW T, NEW head \in Seq(T), Len(head) = 4, NEW parts \in Seq(Seq(T)),
         \A i \in 1 .. Len(parts) : Len(parts[i]) = 4
  PROVE  FourAndFours(T, head \o FlattenSeq(parts), head, parts)
<1>. DEFINE n == Len(parts)
            rest == FlattenSeq(parts)
            flat == head \o rest
<1>1. InFours(T, rest, parts)
  BY FoursLieInARow
<1>. HIDE DEF rest
<1>2. /\ rest \in Seq(T) /\ Len(rest) = 4 * n /\ n \in Nat
      /\ \A i \in 1 .. n : \A k \in 1 .. 4 : rest[4 * (i - 1) + k] = parts[i][k]
  BY <1>1 DEF InFours
<1>3. /\ flat \in Seq(T) /\ Len(flat) = Len(head) + Len(rest)
      /\ \A k \in 1 .. Len(head) : flat[k] = head[k]
      /\ \A k \in 1 .. Len(rest) : flat[Len(head) + k] = rest[k]
  <2>1. rest \in Seq(T)
    BY <1>2
  <2>2. IsJoin(T, head \o rest, head, rest)
    BY <2>1, IsJoined
  <2>. QED  BY <2>2 DEF IsJoin
<1>. HIDE DEF flat, n
<1>4. ASSUME NEW i \in 1 .. n, NEW k \in 1 .. 4 PROVE flat[4 * i + k] = parts[i][k]
  <2>1. 4 * (i - 1) + k \in 1 .. Len(rest) /\ Len(head) + (4 * (i - 1) + k) = 4 * i + k
    BY <1>2
  <2>2. flat[4 * i + k] = rest[4 * (i - 1) + k]
    BY <1>3, <2>1
  <2>. QED  BY <1>2, <2>2
<1>5. flat \in Seq(T) /\ Len(flat) = 4 + 4 * n /\ \A k \in 1 .. 4 : flat[k] = head[k]
  BY <1>2, <1>3
<1>. QED  BY <1>4, <1>5 DEF FourAndFours, n, flat, rest

\* What kind each field of a session's configuration is.
LEMMA ConfigLayoutIs ==
  ASSUME NEW n \in Nat
  PROVE  /\ ConfigLayout(n) \in Seq(Kinds) /\ Len(ConfigLayout(n)) = 4 + 4 * n
         /\ \A k \in 1 .. 4 : ConfigLayout(n)[k] # "string"
         /\ \A i \in 1 .. n : /\ ConfigLayout(n)[4 * i + 1] # "string"
                              /\ ConfigLayout(n)[4 * i + 2] # "string"
                              /\ ConfigLayout(n)[4 * i + 3] = "string"
                              /\ ConfigLayout(n)[4 * i + 4] = "string"
<1>. DEFINE parts == [i \in 1 .. n |-> ConfigProvider]
            layout == ConfigLayout(n)
<1>1. ConfigHead \in Seq(Kinds) /\ Len(ConfigHead) = 4 /\ ConfigProvider \in Seq(Kinds)
      /\ Len(ConfigProvider) = 4
  BY DEF ConfigHead, ConfigProvider, Kinds
<1>2. parts \in Seq(Seq(Kinds)) /\ Len(parts) = n /\ \A i \in 1 .. n : parts[i] = ConfigProvider
  BY <1>1
<1>. HIDE DEF parts
<1>3. FourAndFours(Kinds, ConfigHead \o FlattenSeq(parts), ConfigHead, parts)
  BY <1>1, <1>2, FourAndFoursJoined
<1>4. layout = ConfigHead \o FlattenSeq(parts)
  BY DEF ConfigLayout, parts
<1>. HIDE DEF layout
<1>5. /\ layout \in Seq(Kinds) /\ Len(layout) = 4 + 4 * n
      /\ \A k \in 1 .. 4 : layout[k] = ConfigHead[k]
      /\ \A i \in 1 .. n : \A k \in 1 .. 4 : layout[4 * i + k] = ConfigProvider[k]
  <2>1. FourAndFours(Kinds, layout, ConfigHead, parts)
    BY <1>3, <1>4, Zenon
  <2>2. /\ layout \in Seq(Kinds) /\ Len(layout) = 4 + 4 * Len(parts)
        /\ \A k \in 1 .. 4 : layout[k] = ConfigHead[k]
        /\ \A i \in 1 .. Len(parts) : \A k \in 1 .. 4 : layout[4 * i + k] = parts[i][k]
    BY <2>1, Zenon DEF FourAndFours
  <2>3. ASSUME NEW i \in 1 .. n, NEW k \in 1 .. 4 PROVE layout[4 * i + k] = ConfigProvider[k]
    BY <1>2, <2>2
  <2>4. Len(layout) = 4 + 4 * n
    BY <1>2, <2>2
  <2>. QED  BY <2>2, <2>3, <2>4
<1>6. \A k \in 1 .. 4 : ConfigHead[k] # "string"
  BY DEF ConfigHead
<1>7. /\ ConfigProvider[1] # "string" /\ ConfigProvider[2] # "string"
      /\ ConfigProvider[3] = "string" /\ ConfigProvider[4] = "string"
  BY DEF ConfigProvider
<1>8. 1 \in 1 .. 4 /\ 2 \in 1 .. 4 /\ 3 \in 1 .. 4 /\ 4 \in 1 .. 4
  OBVIOUS
<1>. QED  BY <1>5, <1>6, <1>7, <1>8 DEF layout

\* There is a provider, and each has a name.
LEMMA ProvidersAre ==
  /\ Len(Providers) \in Nat \ {0} /\ DOMAIN Providers = 1 .. Len(Providers)
  /\ \A i \in 1 .. Len(Providers) : Providers[i] \in Seq(Nat)
BY IpcAssumption, PartsOf DEF IpcAssumption

\* The fields that start_tracing writes, one by one.
LEMMA ConfigFieldsAre ==
  ASSUME NEW interval \in Nat
  PROVE  /\ ConfigFields(interval) \in Seq(Seq(Nat))
         /\ Len(ConfigFields(interval)) = 4 + 4 * Len(Providers)
         /\ \A k \in 1 .. 4 : Len(ConfigFields(interval)[k]) = 1
         /\ ConfigFields(interval)[4] = <<Len(Providers)>>
         /\ \A i \in 1 .. Len(Providers) :
              /\ Len(ConfigFields(interval)[4 * i + 1]) = 1
              /\ Len(ConfigFields(interval)[4 * i + 2]) = 1
              /\ ConfigFields(interval)[4 * i + 3] = String(Providers[i])
              /\ ConfigFields(interval)[4 * i + 4] = String(<<interval>>)
<1>. DEFINE n == Len(Providers)
            head == <<<<10>>, <<1>>, <<0>>, <<n>>>>
            parts == [i \in 1 .. n |-> Subscription(Providers[i], interval)]
            fields == ConfigFields(interval)
<1>0. n \in Nat /\ DOMAIN Providers = 1 .. n
  BY ProvidersAre
<1>. HIDE DEF n
<1>1. head \in Seq(Seq(Nat)) /\ Len(head) = 4
      /\ (\A k \in 1 .. 4 : Len(head[k]) = 1) /\ head[4] = <<n>>
  <2>1. \A x \in Nat : <<x>> \in Seq(Nat) /\ Len(<<x>>) = 1
    OBVIOUS
  <2>. DEFINE a == <<10>>
              b == <<1>>
              c == <<0>>
              d == <<n>>
  <2>2. a \in Seq(Nat) /\ b \in Seq(Nat) /\ c \in Seq(Nat) /\ d \in Seq(Nat)
        /\ Len(a) = 1 /\ Len(b) = 1 /\ Len(c) = 1 /\ Len(d) = 1
    BY <1>0, <2>1
  <2>3. head = <<a, b, c, d>>
    OBVIOUS
  <2>. HIDE DEF a, b, c, d, head
  <2>4. head \in Seq(Seq(Nat)) /\ Len(head) = 4
        /\ (\A k \in 1 .. 4 : Len(head[k]) = 1) /\ head[4] = d
    BY <2>2, <2>3
  <2>. QED  BY <2>4 DEF d
<1>2. ASSUME NEW i \in 1 .. n
      PROVE  LET s == Subscription(Providers[i], interval)
             IN  /\ s \in Seq(Seq(Nat)) /\ Len(s) = 4 /\ Len(s[1]) = 1 /\ Len(s[2]) = 1
                 /\ s[3] = String(Providers[i]) /\ s[4] = String(<<interval>>)
  <2>1. String(Providers[i]) \in Seq(Nat) /\ String(<<interval>>) \in Seq(Nat)
    <3>1. Providers[i] \in Seq(Nat) /\ <<interval>> \in Seq(Nat)
      BY ProvidersAre DEF n
    <3>. QED  BY <3>1, StringReadsBack
  <2>. DEFINE a == <<0>>
              b == <<4>>
              s == Subscription(Providers[i], interval)
  <2>2. a \in Seq(Nat) /\ b \in Seq(Nat) /\ Len(a) = 1 /\ Len(b) = 1
    OBVIOUS
  <2>3. s = <<a, b, String(Providers[i]), String(<<interval>>)>>
    BY DEF Subscription
  <2>. HIDE DEF a, b, s
  <2>4. /\ s \in Seq(Seq(Nat)) /\ Len(s) = 4 /\ Len(s[1]) = 1 /\ Len(s[2]) = 1
        /\ s[3] = String(Providers[i]) /\ s[4] = String(<<interval>>)
    BY <2>1, <2>2, <2>3
  <2>. QED  BY <2>4 DEF s
<1>3. /\ parts \in Seq(Seq(Seq(Nat))) /\ Len(parts) = n
      /\ \A i \in 1 .. n : parts[i] = Subscription(Providers[i], interval)
  BY <1>0, <1>2
<1>4. fields = head \o FlattenSeq(parts)
  BY <1>0 DEF ConfigFields, n
<1>. HIDE DEF parts, head, fields
<1>5. \A i \in 1 .. Len(parts) : Len(parts[i]) = 4
  BY <1>2, <1>3
<1>6. FourAndFours(Seq(Nat), fields, head, parts)
  <2>. DEFINE T == Seq(Nat)
  <2>1. head \in Seq(T) /\ parts \in Seq(Seq(T))
    BY <1>1, <1>3
  <2>. HIDE DEF T
  <2>2. FourAndFours(T, head \o FlattenSeq(parts), head, parts)
    BY <1>1, <1>5, <2>1, FourAndFoursJoined
  <2>. QED  BY <1>4, <2>2 DEF T
<1>7. /\ fields \in Seq(Seq(Nat)) /\ Len(fields) = 4 + 4 * n
      /\ \A k \in 1 .. 4 : fields[k] = head[k]
      /\ \A i \in 1 .. n : \A k \in 1 .. 4 : fields[4 * i + k] = parts[i][k]
  BY <1>3, <1>6 DEF FourAndFours
<1>8. 1 \in 1 .. 4 /\ 2 \in 1 .. 4 /\ 3 \in 1 .. 4 /\ 4 \in 1 .. 4
  OBVIOUS
<1>9. ASSUME NEW i \in 1 .. n
      PROVE  /\ Len(fields[4 * i + 1]) = 1 /\ Len(fields[4 * i + 2]) = 1
             /\ fields[4 * i + 3] = String(Providers[i])
             /\ fields[4 * i + 4] = String(<<interval>>)
  <2>1. \A k \in 1 .. 4 : fields[4 * i + k] = Subscription(Providers[i], interval)[k]
    BY <1>3, <1>7
  <2>2. /\ fields[4 * i + 1] = Subscription(Providers[i], interval)[1]
        /\ fields[4 * i + 2] = Subscription(Providers[i], interval)[2]
        /\ fields[4 * i + 3] = Subscription(Providers[i], interval)[3]
        /\ fields[4 * i + 4] = Subscription(Providers[i], interval)[4]
    BY <1>8, <2>1
  <2>. QED  BY <1>2, <2>2, Zenon
<1>. QED  BY <1>1, <1>7, <1>8, <1>9 DEF fields, n

\* The configuration is of the layout that the runtime reads it by.
LEMMA ConfigFits ==
  ASSUME NEW interval \in Nat
  PROVE  Fits(ConfigFields(interval), ConfigLayout(Len(Providers)))
<1>. DEFINE n == Len(Providers)
            parts == ConfigFields(interval)
            layout == ConfigLayout(n)
<1>0. n \in Nat /\ \A i \in 1 .. n : Providers[i] \in Seq(Nat)
  BY ProvidersAre
<1>1. /\ parts \in Seq(Seq(Nat)) /\ Len(parts) = 4 + 4 * n
      /\ \A k \in 1 .. 4 : Len(parts[k]) = 1
      /\ \A i \in 1 .. n : /\ Len(parts[4 * i + 1]) = 1 /\ Len(parts[4 * i + 2]) = 1
                           /\ parts[4 * i + 3] = String(Providers[i])
                           /\ parts[4 * i + 4] = String(<<interval>>)
  BY ConfigFieldsAre
<1>. HIDE DEF n
<1>2. /\ layout \in Seq(Kinds) /\ Len(layout) = 4 + 4 * n
      /\ \A k \in 1 .. 4 : layout[k] # "string"
      /\ \A i \in 1 .. n : /\ layout[4 * i + 1] # "string" /\ layout[4 * i + 2] # "string"
                           /\ layout[4 * i + 3] = "string" /\ layout[4 * i + 4] = "string"
  BY <1>0, ConfigLayoutIs
<1>. HIDE DEF parts, layout
<1>3. \A text \in Seq(Nat) :
        Len(String(text)) > 0 /\ Len(String(text)) = 1 + String(text)[1]
  <2>. TAKE text \in Seq(Nat)
  <2>1. Len(String(text)) = Len(text) + 2 /\ String(text)[1] = Len(text) + 1
    BY StringReadsBack
  <2>. DEFINE l == Len(text)
  <2>2. l \in Nat
    OBVIOUS
  <2>. HIDE DEF l
  <2>3. Len(String(text)) = l + 2 /\ String(text)[1] = l + 1
    BY <2>1 DEF l
  <2>. QED  BY <2>2, <2>3
<1>4. ASSUME NEW j \in 1 .. 4 + 4 * n
      PROVE  /\ Len(parts[j]) > 0
             /\ Len(parts[j]) = IF layout[j] = "string" THEN 1 + parts[j][1] ELSE 1
  <2>1. CASE j \in 1 .. 4
    <3>1. Len(parts[j]) = 1 /\ layout[j] # "string"
      BY <1>1, <1>2, <2>1
    <3>. QED  BY <3>1
  <2>2. CASE j \notin 1 .. 4
    <3>1. j - 4 \in 1 .. 4 * n
      BY <1>0, <2>2
    <3>2. PICK i \in 1 .. n : \E k \in 1 .. 4 : j - 4 = 4 * (i - 1) + k
      BY <1>0, <3>1, ByFours
    <3>3. PICK k \in 1 .. 4 : j - 4 = 4 * (i - 1) + k
      BY <3>2
    <3>4. j = 4 * i + k
      BY <3>3
    <3>5. <<interval>> \in Seq(Nat) /\ Providers[i] \in Seq(Nat)
      BY <1>0
    <3>6. CASE k \in {1, 2}
      <4>1. Len(parts[j]) = 1 /\ layout[j] # "string"
        <5>1. k = 1 => Len(parts[j]) = 1 /\ layout[j] # "string"
          BY <1>1, <1>2, <3>4
        <5>2. k = 2 => Len(parts[j]) = 1 /\ layout[j] # "string"
          BY <1>1, <1>2, <3>4
        <5>. QED  BY <3>6, <5>1, <5>2
      <4>. QED  BY <4>1
    <3>7. CASE k = 3
      BY <1>1, <1>2, <1>3, <3>4, <3>5, <3>7
    <3>8. CASE k = 4
      BY <1>1, <1>2, <1>3, <3>4, <3>5, <3>8
    <3>. QED  BY <3>6, <3>7, <3>8
  <2>. QED  BY <2>1, <2>2
<1>5. Len(layout) = Len(parts) /\ DOMAIN layout = 1 .. Len(parts)
  BY <1>1, <1>2
<1>. QED  BY <1>1, <1>4, <1>5 DEF Fits, parts, layout, n

\* The request for counters asks for the rate it was made for, of every provider.
LEMMA RateReadsBack ==
  ASSUME NEW interval \in Nat
  PROVE  CounterConfig(interval) \in Seq(Nat) /\ AskedRate(CounterConfig(interval)) = interval
<1>. DEFINE n == Len(Providers)
            parts == ConfigFields(interval)
            layout == ConfigLayout(n)
            payload == FlattenSeq(parts)
            read == ReadFields(payload, layout)
<1>0. n \in Nat \ {0} /\ DOMAIN Providers = 1 .. n
      /\ \A i \in 1 .. n : Providers[i] \in Seq(Nat)
  BY ProvidersAre
<1>1. /\ parts \in Seq(Seq(Nat)) /\ Len(parts) = 4 + 4 * n
      /\ (\A k \in 1 .. 4 : Len(parts[k]) = 1) /\ parts[4] = <<n>>
      /\ \A i \in 1 .. n : /\ parts[4 * i + 3] = String(Providers[i])
                           /\ parts[4 * i + 4] = String(<<interval>>)
  BY ConfigFieldsAre
<1>2. Fits(parts, layout)
  BY ConfigFits
<1>3. /\ Len(layout) = 4 + 4 * n /\ DOMAIN layout = 1 .. 4 + 4 * n
      /\ \A i \in 1 .. n : layout[4 * i + 3] = "string" /\ layout[4 * i + 4] = "string"
  <2>. HIDE DEF n, parts
  <2>1. n \in Nat
    BY <1>0
  <2>. QED  BY <1>1, <1>2, <2>1, ConfigLayoutIs DEF Fits
<1>4. read = [ok |-> TRUE, rest |-> <<>>,
              values |-> [i \in DOMAIN layout |-> ValueOf(parts[i], layout[i])]]
  BY <1>2, FieldsReadBack
<1>. HIDE DEF n, parts, layout, payload, read
<1>5. ASSUME NEW i \in 1 .. n
      PROVE  read.values[4 + 4 * i] = <<interval>> /\ read.values[3 + 4 * i] = Providers[i]
  <2>1. /\ 4 * i + 4 \in DOMAIN layout /\ 4 * i + 3 \in DOMAIN layout
        /\ 4 + 4 * i = 4 * i + 4 /\ 3 + 4 * i = 4 * i + 3
    BY <1>0, <1>3
  <2>2. /\ read.values[4 * i + 4] = ValueOf(String(<<interval>>), "string")
        /\ read.values[4 * i + 3] = ValueOf(String(Providers[i]), "string")
    BY <1>1, <1>3, <1>4, <2>1
  <2>3. <<interval>> \in Seq(Nat) /\ Providers[i] \in Seq(Nat)
    BY <1>0
  <2>4. /\ ValueOf(String(<<interval>>), "string") = <<interval>>
        /\ ValueOf(String(Providers[i]), "string") = Providers[i]
    BY <2>3, StringReadsBack
  <2>. QED  BY <2>1, <2>2, <2>4, Zenon
<1>6. RateIn(n, read) = interval
  <2>. DEFINE rates == {read.values[4 + 4 * i] : i \in 1 .. n}
              one == <<interval>>
  <2>1. rates = {one}
    <3>1. 1 \in 1 .. n
      BY <1>0
    <3>. HIDE DEF one
    <3>2. \A i \in 1 .. n : read.values[4 + 4 * i] = one
      BY <1>5 DEF one
    <3>. QED  BY <3>1, <3>2
  <2>2. one[1] = interval
    OBVIOUS
  <2>3. Cardinality({one}) = 1
    BY FS_Singleton
  <2>4. [i \in 1 .. n |-> read.values[3 + 4 * i]] = Providers
    <3>1. Providers = [i \in 1 .. n |-> Providers[i]]
      BY <1>0, ProvidersAre, IpcAssumption DEF IpcAssumption
    <3>. QED  BY <1>5, <3>1
  <2>5. read.ok /\ read.rest = <<>>
    BY <1>4
  <2>. HIDE DEF one
  <2>6. (CHOOSE rate \in {one} : TRUE) = one
    OBVIOUS
  <2>7. RateIn(n, read) =
          IF read.ok /\ read.rest = <<>> /\ Cardinality(rates) = 1
             /\ [i \in 1 .. n |-> read.values[3 + 4 * i]] = Providers
          THEN (CHOOSE rate \in rates : TRUE)[1] ELSE 0
    BY Zenon DEF RateIn
  <2>. HIDE DEF rates
  <2>. QED  BY <2>1, <2>2, <2>3, <2>4, <2>5, <2>6, <2>7, Zenon
<1>7. payload \in Seq(Nat) /\ Len(payload) >= 4 /\ payload[4] = n
  <2>1. PICK o : Offsets(o, parts)
    BY <1>1, OffsetsExist
  <2>2. Len(parts) \in Nat /\ \A k \in 1 .. 4 : k \in 1 .. Len(parts)
    BY <1>0, <1>1
  <2>3. Laid(Nat, payload, parts, o, Len(parts))
    BY <1>1, <2>1, FlattenLaysOut DEF payload
  <2>4. o[0] = 0 /\ \A k \in 1 .. 4 : o[k] = o[k - 1] + 1
    BY <1>1, <2>1, <2>2 DEF Offsets
  <2>5. o[1] = 1 /\ o[2] = 2 /\ o[3] = 3 /\ o[4] = 4
    <3>1. o[1] = o[0] + 1
      BY <2>4, 1 - 1 = 0, 1 \in 1 .. 4
    <3>2. o[2] = o[1] + 1
      BY <2>4, 2 - 1 = 1, 2 \in 1 .. 4
    <3>3. o[3] = o[2] + 1
      BY <2>4, 3 - 1 = 2, 3 \in 1 .. 4
    <3>4. o[4] = o[3] + 1
      BY <2>4, 4 - 1 = 3, 4 \in 1 .. 4
    <3>. QED  BY <2>4, <3>1, <3>2, <3>3, <3>4
  <2>6. 4 \in 1 .. Len(parts) /\ 1 \in 1 .. Len(parts[4]) /\ parts[4][1] = n
    <3>1. 4 \in 1 .. 4 /\ Len(parts[4]) = 1
      BY <1>1
    <3>. QED  BY <1>1, <2>2, <3>1
  <2>7. o[4 - 1] = 3
    BY <2>5, 4 - 1 = 3
  <2>8. payload[3 + 1] = n /\ o[4] <= o[Len(parts)]
    BY <2>3, <2>6, <2>7 DEF Laid
  <2>9. payload \in Seq(Nat) /\ Len(payload) = o[Len(parts)]
    BY <2>3 DEF Laid
  <2>. QED  BY <2>5, <2>8, <2>9
<1>8. AskedRate(payload) = RateIn(n, read)
  <2>1. (IF Len(payload) >= 4 THEN payload[4] ELSE 0) = n
    BY <1>7
  <2>2. read = ReadFields(payload, ConfigHead \o FlattenSeq([i \in 1 .. n |-> ConfigProvider]))
    BY DEF read, layout, ConfigLayout
  <2>. QED  BY <2>1, <2>2, Zenon DEF AskedRate, ConfigHead, ConfigProvider
<1>9. CounterConfig(interval) = payload
  BY DEF CounterConfig, payload, parts
<1>. QED  BY <1>6, <1>7, <1>8, <1>9

----------------------------------------------------------------------------
(* What a process says of itself.                                          *)

\* Lists of five, seven and nine, put together from their pieces.
PutTogether(a, b, c, d, e, f, g, h, i) ==
  /\ <<>> \o <<b, c, d, e, f>> \o <<>> \o <<>> = <<b, c, d, e, f>>
  /\ <<>> \o <<b, c, d, e, f>> \o <<g, h>> \o <<>> = <<b, c, d, e, f, g, h>>
  /\ <<a>> \o <<b, c, d, e, f>> \o <<g, h>> \o <<i>> = <<a, b, c, d, e, f, g, h, i>>

\* Nine fields joined, by the place of each.
LEMMA FiveSevenNine ==
  ASSUME NEW T, NEW a \in T, NEW b \in T, NEW c \in T, NEW d \in T, NEW e \in T, NEW f \in T,
         NEW g \in T, NEW h \in T, NEW i \in T
  PROVE  PutTogether(a, b, c, d, e, f, g, h, i)
<1>. DEFINE v == <<a>>
            w == <<b, c, d, e, f>>
            x == <<g, h>>
            y == <<i>>
            vw == <<a, b, c, d, e, f>>
            wx == <<b, c, d, e, f, g, h>>
            vwx == <<a, b, c, d, e, f, g, h>>
            all == <<a, b, c, d, e, f, g, h, i>>
<1>1. /\ v \in Seq(T) /\ w \in Seq(T) /\ x \in Seq(T) /\ y \in Seq(T) /\ vw \in Seq(T)
      /\ wx \in Seq(T) /\ vwx \in Seq(T) /\ all \in Seq(T)
  OBVIOUS
<1>2. /\ Len(vw) = Len(v) + Len(w)
      /\ (\A k \in 1 .. Len(v) : vw[k] = v[k])
      /\ \A k \in 1 .. Len(w) : vw[Len(v) + k] = w[k]
  OBVIOUS
<1>3. /\ Len(wx) = Len(w) + Len(x)
      /\ (\A k \in 1 .. Len(w) : wx[k] = w[k])
      /\ \A k \in 1 .. Len(x) : wx[Len(w) + k] = x[k]
  OBVIOUS
<1>4. /\ Len(vwx) = Len(vw) + Len(x)
      /\ (\A k \in 1 .. Len(vw) : vwx[k] = vw[k])
      /\ \A k \in 1 .. Len(x) : vwx[Len(vw) + k] = x[k]
  OBVIOUS
<1>5. /\ Len(all) = Len(vwx) + Len(y)
      /\ (\A k \in 1 .. Len(vwx) : all[k] = vwx[k])
      /\ \A k \in 1 .. Len(y) : all[Len(vwx) + k] = y[k]
  OBVIOUS
<1>. HIDE DEF v, w, x, y, vw, wx, vwx, all
<1>6. v \o w = vw
  BY <1>1, <1>2, Joins
<1>7. w \o x = wx
  BY <1>1, <1>3, Joins
<1>8. vw \o x = vwx
  <2>1. vw \in Seq(T) /\ x \in Seq(T) /\ vwx \in Seq(T)
    BY <1>1
  <2>. QED  BY <1>4, <2>1, Joins
<1>9. vwx \o y = all
  <2>1. vwx \in Seq(T) /\ y \in Seq(T) /\ all \in Seq(T)
    BY <1>1
  <2>. QED  BY <1>5, <2>1, Joins
<1>10. <<>> \o w = w /\ w \o <<>> = w /\ wx \o <<>> = wx
  BY <1>1
<1>11. /\ <<>> \o w \o <<>> \o <<>> = w
       /\ <<>> \o w \o x \o <<>> = wx
       /\ v \o w \o x \o y = all
  BY <1>6, <1>7, <1>8, <1>9, <1>10, Zenon
<1>. QED  BY <1>11 DEF PutTogether, v, w, x, y, wx, all

\* The description fits the layout it is read by; the pid and the name of the entry
\* assembly are where countercow looks for them.
DescribesIt(p, id, parts, layout) ==
  /\ Fits(parts, layout)
  /\ LET first == IF id = PROCESS_INFO3 THEN 1 ELSE 0
     IN  /\ parts[first + 1] = <<p.pid>> /\ layout[first + 1] # "string"
         /\ Len(parts) = first + IF id = PROCESS_INFO THEN 5
                                 ELSE IF id = PROCESS_INFO2 THEN 7 ELSE 8
         /\ id # PROCESS_INFO =>
              parts[first + 6] = String(p.assembly) /\ layout[first + 6] = "string"

\* A description has the layout of the command it answers, old or new.
LEMMA DescriptionFits ==
  ASSUME NEW p, IsProcess(p), NEW id \in Commands
  PROVE  DescribesIt(p, id, Description(p, id), InfoLayout(id))
<1>. DEFINE a == <<1>>
            b == <<p.pid>>
            c == <<77>>
            d == String(p.assembly)
            e == String(<<5>>)
            f == <<0>>
            h == String(<<9, 0>>)
            i == String(<<5, 6>>)
            one(part) == part \in Seq(Nat) /\ Len(part) = 1 /\ Len(part) > 0
            text(part) == /\ part \in Seq(Nat) /\ Len(part) > 0
                          /\ Len(part) = 1 + part[1]
<1>1. one(a) /\ one(b) /\ one(c) /\ text(f)
  BY DEF IsProcess
<1>2. ASSUME NEW s \in Seq(Nat) PROVE text(String(s))
  <2>1. /\ String(s) \in Seq(Nat) /\ Len(String(s)) = Len(s) + 2
        /\ String(s)[1] = Len(s) + 1
    BY StringReadsBack
  <2>. DEFINE l == Len(s)
  <2>2. l \in Nat
    OBVIOUS
  <2>. HIDE DEF l
  <2>3. String(s) \in Seq(Nat) /\ Len(String(s)) = l + 2 /\ String(s)[1] = l + 1
    BY <2>1 DEF l
  <2>. QED  BY <2>2, <2>3
<1>3. text(d) /\ text(e) /\ text(h) /\ text(i)
  <2>1. p.assembly \in Seq(Nat) /\ <<5>> \in Seq(Nat) /\ <<9, 0>> \in Seq(Nat)
        /\ <<5, 6>> \in Seq(Nat)
    BY DEF IsProcess
  <2>. HIDE DEF text
  <2>. QED  BY <1>2, <2>1
<1>4. PROCESS_INFO = 0 /\ PROCESS_INFO2 = 4 /\ PROCESS_INFO3 = 8
  BY DEF PROCESS_INFO, PROCESS_INFO2, PROCESS_INFO3
<1>5. Description(p, id) =
        (IF id = PROCESS_INFO3 THEN <<a>> ELSE <<>>)
        \o <<b, c, d, e, f>>
        \o (IF id = PROCESS_INFO THEN <<>> ELSE <<d, h>>)
        \o (IF id = PROCESS_INFO3 THEN <<i>> ELSE <<>>)
  BY DEF Description
<1>6. /\ a \in Seq(Nat) /\ b \in Seq(Nat) /\ c \in Seq(Nat) /\ d \in Seq(Nat)
      /\ e \in Seq(Nat) /\ f \in Seq(Nat) /\ h \in Seq(Nat) /\ i \in Seq(Nat)
  BY <1>1, <1>3
<1>7. b = <<p.pid>> /\ d = String(p.assembly)
  OBVIOUS
<1>. HIDE DEF a, b, c, d, e, f, h, i
<1>8. /\ <<>> \o <<b, c, d, e, f>> \o <<>> \o <<>> = <<b, c, d, e, f>>
      /\ <<>> \o <<b, c, d, e, f>> \o <<d, h>> \o <<>> = <<b, c, d, e, f, d, h>>
      /\ <<a>> \o <<b, c, d, e, f>> \o <<d, h>> \o <<i>> = <<a, b, c, d, e, f, d, h, i>>
  <2>. DEFINE T == Seq(Nat)
  <2>1. /\ a \in T /\ b \in T /\ c \in T /\ d \in T
        /\ e \in T /\ f \in T /\ h \in T /\ i \in T
    BY <1>6
  <2>. HIDE DEF T
  <2>2. PutTogether(a, b, c, d, e, f, d, h, i)
    BY <2>1, FiveSevenNine
  <2>. QED  BY <2>2 DEF PutTogether
<1>9. /\ <<>> \o <<"u64", "guid", "string", "string", "string">> \o <<>> \o <<>>
           = <<"u64", "guid", "string", "string", "string">>
      /\ <<>> \o <<"u64", "guid", "string", "string", "string">> \o <<"string", "string">>
              \o <<>>
           = <<"u64", "guid", "string", "string", "string", "string", "string">>
      /\ <<"u32">> \o <<"u64", "guid", "string", "string", "string">>
                   \o <<"string", "string">> \o <<"string">>
           = <<"u32", "u64", "guid", "string", "string", "string", "string", "string",
               "string">>
  <2>1. "u32" \in Kinds /\ "u64" \in Kinds /\ "guid" \in Kinds /\ "string" \in Kinds
    BY DEF Kinds
  <2>2. PutTogether("u32", "u64", "guid", "string", "string", "string", "string", "string",
                    "string")
    BY <2>1, FiveSevenNine
  <2>. QED  BY <2>2 DEF PutTogether
<1>. DEFINE fit(part, kind) == /\ Len(part) > 0
                               /\ Len(part) = IF kind = "string" THEN 1 + part[1] ELSE 1
<1>10. /\ fit(a, "u32") /\ fit(b, "u64") /\ fit(c, "guid") /\ fit(d, "string")
       /\ fit(e, "string") /\ fit(f, "string") /\ fit(h, "string") /\ fit(i, "string")
  BY <1>1, <1>3
<1>11. CASE id = PROCESS_INFO
  <2>. DEFINE parts == <<b, c, d, e, f>>
              layout == <<"u64", "guid", "string", "string", "string">>
  <2>1. parts = Description(p, id) /\ layout = InfoLayout(id)
    <3>1. /\ Description(p, id) = <<>> \o <<b, c, d, e, f>> \o <<>> \o <<>>
          /\ InfoLayout(id) = <<>> \o <<"u64", "guid", "string", "string", "string">>
                                \o <<>> \o <<>>
      BY <1>4, <1>5, <1>11, 0 # 8, Zenon DEF InfoLayout
    <3>. QED  BY <1>8, <1>9, <3>1, Zenon
  <2>2. parts \in Seq(Seq(Nat)) /\ Len(parts) = 5
    BY <1>6
  <2>3. Len(layout) = 5 /\ DOMAIN layout = 1 .. 5
    OBVIOUS
  <2>4. /\ parts[1] = b /\ parts[2] = c /\ parts[3] = d /\ parts[4] = e /\ parts[5] = f
    OBVIOUS
  <2>5. /\ layout[1] = "u64" /\ layout[2] = "guid" /\ layout[3] = "string"
        /\ layout[4] = "string" /\ layout[5] = "string"
    OBVIOUS
  <2>. HIDE DEF parts, layout
  <2>6. \A k \in 1 .. 5 : fit(parts[k], layout[k])
    <3>. HIDE DEF fit
    <3>. QED  BY <1>10, <2>4, <2>5
  <2>7. Fits(parts, layout)
    BY <2>2, <2>3, <2>6 DEF Fits
  <2>8. DescribesIt(p, id, parts, layout)
    BY <1>4, <1>7, <1>11, <2>2, <2>4, <2>5, <2>7 DEF DescribesIt
  <2>. QED  BY <2>1, <2>8
<1>12. CASE id = PROCESS_INFO2
  <2>. DEFINE parts == <<b, c, d, e, f, d, h>>
              layout == <<"u64", "guid", "string", "string", "string", "string", "string">>
  <2>1. parts = Description(p, id) /\ layout = InfoLayout(id)
    <3>1. /\ Description(p, id) = <<>> \o <<b, c, d, e, f>> \o <<d, h>> \o <<>>
          /\ InfoLayout(id) = <<>> \o <<"u64", "guid", "string", "string", "string">>
                                \o <<"string", "string">> \o <<>>
      BY <1>4, <1>5, <1>12, 4 # 8, 4 # 0, Zenon DEF InfoLayout
    <3>. QED  BY <1>8, <1>9, <3>1, Zenon
  <2>2. parts \in Seq(Seq(Nat)) /\ Len(parts) = 7
    BY <1>6
  <2>3. Len(layout) = 7 /\ DOMAIN layout = 1 .. 7
    OBVIOUS
  <2>4. /\ parts[1] = b /\ parts[2] = c /\ parts[3] = d /\ parts[4] = e /\ parts[5] = f
        /\ parts[6] = d /\ parts[7] = h
    OBVIOUS
  <2>5. /\ layout[1] = "u64" /\ layout[2] = "guid" /\ layout[3] = "string"
        /\ layout[4] = "string" /\ layout[5] = "string" /\ layout[6] = "string"
        /\ layout[7] = "string"
    OBVIOUS
  <2>. HIDE DEF parts, layout
  <2>6. \A k \in 1 .. 7 : fit(parts[k], layout[k])
    <3>. HIDE DEF fit
    <3>. QED  BY <1>10, <2>4, <2>5
  <2>7. Fits(parts, layout)
    BY <2>2, <2>3, <2>6 DEF Fits
  <2>8. DescribesIt(p, id, parts, layout)
    BY <1>4, <1>7, <1>12, <2>2, <2>4, <2>5, <2>7 DEF DescribesIt
  <2>. QED  BY <2>1, <2>8
<1>13. CASE id = PROCESS_INFO3
  <2>. DEFINE parts == <<a, b, c, d, e, f, d, h, i>>
              layout == <<"u32", "u64", "guid", "string", "string", "string", "string", "string", "string">>
  <2>1. parts = Description(p, id) /\ layout = InfoLayout(id)
    <3>1. /\ Description(p, id) = <<a>> \o <<b, c, d, e, f>> \o <<d, h>> \o <<i>>
          /\ InfoLayout(id) = <<"u32">> \o <<"u64", "guid", "string", "string", "string">>
                                \o <<"string", "string">> \o <<"string">>
      BY <1>4, <1>5, <1>13, 8 # 0, Zenon DEF InfoLayout
    <3>. QED  BY <1>8, <1>9, <3>1, Zenon
  <2>2. parts \in Seq(Seq(Nat)) /\ Len(parts) = 9
    BY <1>6
  <2>3. Len(layout) = 9 /\ DOMAIN layout = 1 .. 9
    OBVIOUS
  <2>4. /\ parts[1] = a /\ parts[2] = b /\ parts[3] = c /\ parts[4] = d /\ parts[5] = e
        /\ parts[6] = f /\ parts[7] = d /\ parts[8] = h /\ parts[9] = i
    OBVIOUS
  <2>5. /\ layout[1] = "u32" /\ layout[2] = "u64" /\ layout[3] = "guid"
        /\ layout[4] = "string" /\ layout[5] = "string" /\ layout[6] = "string"
        /\ layout[7] = "string" /\ layout[8] = "string" /\ layout[9] = "string"
    OBVIOUS
  <2>. HIDE DEF parts, layout
  <2>6. \A k \in 1 .. 9 : fit(parts[k], layout[k])
    <3>. HIDE DEF fit
    <3>. QED  BY <1>10, <2>4, <2>5
  <2>7. Fits(parts, layout)
    BY <2>2, <2>3, <2>6 DEF Fits
  <2>8. DescribesIt(p, id, parts, layout)
    BY <1>4, <1>7, <1>13, <2>2, <2>4, <2>5, <2>7 DEF DescribesIt
  <2>. QED  BY <2>1, <2>8
<1>. QED  BY <1>11, <1>12, <1>13 DEF Commands

\* The name of the entry assembly as a version of the command has it.
NameIn(p, id) == IF id = PROCESS_INFO THEN <<>> ELSE p.assembly

\* What countercow makes of a description.
LEMMA InfoReadsBack ==
  ASSUME NEW p, IsProcess(p), NEW id \in Commands
  PROVE  LET info == InfoOf(id, ReadFields(Described(p, id), InfoLayout(id)))
         IN  info.ok /\ info.pid = p.pid /\ info.assembly_name = NameIn(p, id)
<1>. DEFINE parts == Description(p, id)
            layout == InfoLayout(id)
            read == ReadFields(Described(p, id), layout)
            first == IF id = PROCESS_INFO3 THEN 1 ELSE 0
            values == IF id = PROCESS_INFO3 THEN Tail(read.values) ELSE read.values
            n == Len(parts)
            info == InfoOf(id, read)
<1>1. Fits(parts, layout) /\ DescribesIt(p, id, parts, layout)
  BY DescriptionFits DEF DescribesIt
<1>2. read = [ok |-> TRUE, rest |-> <<>>,
              values |-> [i \in DOMAIN layout |-> ValueOf(parts[i], layout[i])]]
  BY <1>1, FieldsReadBack DEF Described
<1>3. DOMAIN layout = 1 .. n /\ n \in Nat /\ \A i \in 1 .. n : parts[i] \in Seq(Nat)
  BY <1>1, PartsOf DEF Fits
<1>4. /\ parts[first + 1] = <<p.pid>> /\ layout[first + 1] # "string"
      /\ n = first + IF id = PROCESS_INFO THEN 5 ELSE IF id = PROCESS_INFO2 THEN 7 ELSE 8
      /\ id # PROCESS_INFO =>
           parts[first + 6] = String(p.assembly) /\ layout[first + 6] = "string"
  BY <1>1, Zenon DEF DescribesIt
<1>5. PROCESS_INFO = 0 /\ PROCESS_INFO2 = 4 /\ PROCESS_INFO3 = 8 /\ first \in {0, 1}
      /\ (id = PROCESS_INFO => first = 0) /\ (id = PROCESS_INFO2 => first = 0)
      /\ id \in {PROCESS_INFO, PROCESS_INFO2, PROCESS_INFO3}
  BY DEF PROCESS_INFO, PROCESS_INFO2, PROCESS_INFO3, Commands
<1>6. values = IF first = 1 THEN Tail(read.values) ELSE read.values
  OBVIOUS
<1>7. info = [ok |-> TRUE, pid |-> values[1][1],
              command_line |-> IF 3 \in DOMAIN values THEN values[3] ELSE <<>>,
              assembly_name |-> IF 6 \in DOMAIN values THEN values[6] ELSE <<>>,
              clr_version |-> IF 7 \in DOMAIN values THEN values[7] ELSE <<>>]
  <2>1. read.ok
    BY <1>2
  <2>. HIDE DEF read
  <2>. QED  BY <2>1, Zenon DEF InfoOf
<1>. HIDE DEF parts, layout, read, first, values, n, info
<1>8. /\ read.values \in Seq(Seq(Nat)) /\ Len(read.values) = n
      /\ \A i \in 1 .. n : read.values[i] = ValueOf(parts[i], layout[i])
  <2>1. ASSUME NEW part \in Seq(Nat), NEW kind PROVE ValueOf(part, kind) \in Seq(Nat)
    <3>1. 2 \in Int /\ Len(part) - 1 \in Int /\ \A k \in 2 .. Len(part) - 1 : part[k] \in Nat
      OBVIOUS
    <3>2. SubSeq(part, 2, Len(part) - 1) \in Seq(Nat)
      BY <3>1, SubSeqProperties
    <3>. QED  BY <3>2 DEF ValueOf
  <2>2. \A i \in 1 .. n : ValueOf(parts[i], layout[i]) \in Seq(Nat)
    BY <1>3, <2>1
  <2>3. read.values = [i \in 1 .. n |-> ValueOf(parts[i], layout[i])]
    BY <1>2, <1>3
  <2>. QED  BY <1>3, <2>2, <2>3
<1>9. /\ DOMAIN values = 1 .. n - first
      /\ \A i \in 1 .. n - first : values[i] = read.values[first + i]
  <2>1. CASE first = 0
    <3>1. values = read.values
      BY <1>6, <2>1
    <3>2. DOMAIN read.values = 1 .. n
      BY <1>8
    <3>3. \A i \in 1 .. n - 0 : 0 + i = i
      BY <1>3
    <3>4. n - 0 = n
      BY <1>3
    <3>. QED  BY <2>1, <3>1, <3>2, <3>3, <3>4
  <2>2. CASE first = 1
    <3>1. read.values # <<>> /\ n > 0
      BY <1>4, <1>5, <1>8, <2>2
    <3>. DEFINE T == Seq(Nat)
    <3>2. read.values \in Seq(T)
      BY <1>8
    <3>. HIDE DEF T
    <3>3. /\ Tail(read.values) \in Seq(T) /\ Len(Tail(read.values)) = Len(read.values) - 1
          /\ \A i \in 1 .. Len(Tail(read.values)) : Tail(read.values)[i] = read.values[i + 1]
      BY <3>1, <3>2, HeadTailProperties
    <3>4. values = Tail(read.values) /\ Len(read.values) = n
      BY <1>6, <1>8, <2>2
    <3>5. DOMAIN Tail(read.values) = 1 .. Len(Tail(read.values))
      BY <3>3
    <3>6. \A i \in 1 .. n - 1 : i + 1 = 1 + i
      BY <1>3
    <3>. QED  BY <2>2, <3>3, <3>4, <3>5, <3>6
  <2>. QED  BY <1>5, <2>1, <2>2
<1>10. info.pid = p.pid
  <2>1. 1 \in 1 .. n - first /\ first + 1 \in 1 .. n
    BY <1>3, <1>4, <1>5
  <2>2. values[1] = <<p.pid>>
    BY <1>4, <1>8, <1>9, <2>1 DEF ValueOf
  <2>. QED  BY <1>7, <2>2
<1>11. info.assembly_name = NameIn(p, id)
  <2>1. CASE id = PROCESS_INFO
    <3>1. n - first = 5 /\ 6 \notin 1 .. 5
      BY <1>3, <1>4, <1>5, <2>1
    <3>. QED  BY <1>7, <1>9, <2>1, <3>1 DEF NameIn
  <2>2. CASE id # PROCESS_INFO
    <3>1. 6 \in 1 .. n - first /\ first + 6 \in 1 .. n
      BY <1>3, <1>4, <1>5, <2>2
    <3>2. values[6] = ValueOf(String(p.assembly), "string")
      BY <1>4, <1>8, <1>9, <2>2, <3>1
    <3>3. values[6] = p.assembly
      BY <3>2, StringReadsBack DEF IsProcess
    <3>. QED  BY <1>7, <1>9, <2>2, <3>1, <3>3 DEF NameIn
  <2>. QED  BY <2>1, <2>2
<1>. QED  BY <1>7, <1>10, <1>11 DEF info, read, layout

----------------------------------------------------------------------------
(* Commands.                                                               *)

\* What is asked of one process is what that process hears.
LEMMA AskedIsHeard ==
  ASSUME NEW p, NEW set \in Nat, NEW id \in Nat, NEW payload \in Seq(Nat)
  PROVE  Ask({p}, set, id, payload) =
           IF HeaderSize + Len(payload) > SizeMax THEN Error("PayloadTooLarge")
           ELSE ReadResponse(Heard(p, [ok |-> TRUE, set |-> set, id |-> id,
                                       payload |-> payload, rest |-> <<>>]))
<1>. DEFINE request == EncodeMessage(set, id, payload)
            message == [ok |-> TRUE, set |-> set, id |-> id, payload |-> payload, rest |-> <<>>]
            long == HeaderSize + Len(payload) > SizeMax
<1>1. {p} # {} /\ (CHOOSE q \in {p} : TRUE) = p
  OBVIOUS
<1>2. Ask({p}, set, id, payload) =
        IF ~request.ok THEN request ELSE ReadResponse(Answer(p, request.bytes))
  BY <1>1, Zenon DEF Ask
<1>3. CASE long
  <2>1. request = Error("PayloadTooLarge")
    BY <1>3 DEF EncodeMessage
  <2>2. ~Error("PayloadTooLarge").ok
    BY DEF Error
  <2>. HIDE DEF request
  <2>. QED  BY <1>2, <1>3, <2>1, <2>2, Zenon
<1>4. CASE ~long
  <2>1. HeaderSize + Len(payload) <= SizeMax
    <3>. DEFINE l == Len(payload)
    <3>1. l \in Nat
      OBVIOUS
    <3>. HIDE DEF l
    <3>2. ~(HeaderSize + l > SizeMax)
      BY <1>4 DEF l
    <3>3. HeaderSize + l <= SizeMax
      BY <3>1, <3>2, IpcAssumption DEF HeaderSize, IpcAssumption
    <3>. QED  BY <3>3 DEF l
  <2>2. <<>> \in Seq(Nat)
    OBVIOUS
  <2>3. /\ request.ok /\ request.bytes \in Seq(Nat)
        /\ ReadMessage(request.bytes \o <<>>) = message
    BY <2>1, <2>2, MessageReadsBack
  <2>. HIDE DEF request, message
  <2>4. request.bytes \o <<>> = request.bytes
    BY <2>3
  <2>5. Answer(p, request.bytes) = Heard(p, message)
    BY <2>3, <2>4, Zenon DEF Answer
  <2>. HIDE DEF long
  <2>. QED  BY <1>2, <1>4, <2>3, <2>5, Zenon DEF message, long
<1>. QED  BY <1>3, <1>4

\* A reply is read back with what follows it, or is a failure if it broke off.
LEMMA ReplyReadsBack ==
  ASSUME NEW set \in Nat, NEW id \in Nat, NEW payload \in Seq(Nat),
         HeaderSize + Len(payload) <= SizeMax, NEW more \in Seq(Nat)
  PROVE  LET reply == Reply(set, id, payload)
         IN  /\ ReadMessage(reply \o more) =
                  [ok |-> TRUE, set |-> set, id |-> id, payload |-> payload, rest |-> more]
             /\ ReadMessage(reply) =
                  [ok |-> TRUE, set |-> set, id |-> id, payload |-> payload, rest |-> <<>>]
             /\ ReadMessage(SubSeq(reply, 1, Len(reply) - 1)) = Error("Io")
<1>. DEFINE reply == Reply(set, id, payload)
            read(rest) == [ok |-> TRUE, set |-> set, id |-> id, payload |-> payload, rest |-> rest]
<1>1. ASSUME NEW rest \in Seq(Nat)
      PROVE  reply \in Seq(Nat) /\ ReadMessage(reply \o rest) = read(rest)
  BY MessageReadsBack DEF Reply
<1>2. <<>> \in Seq(Nat)
  OBVIOUS
<1>3. ReadMessage(reply \o <<>>) = read(<<>>) /\ ReadMessage(reply \o more) = read(more)
  <2>. HIDE DEF reply, read
  <2>. QED  BY <1>1, <1>2
<1>4. ReadMessage(SubSeq(reply, 1, Len(reply) - 1)) = Error("Io")
  BY BrokenOff DEF Reply
<1>. HIDE DEF reply
<1>5. reply \o <<>> = reply
  BY <1>1
<1>6. ReadMessage(reply) =
        [ok |-> TRUE, set |-> set, id |-> id, payload |-> payload, rest |-> <<>>]
  BY <1>3, <1>5, Zenon
<1>. QED  BY <1>1, <1>4, <1>6 DEF reply

\* A reply of one cell fits whenever the description does, which has one at least.
LEMMA ProcessesFit ==
  ASSUME NEW p, IsProcess(p)
  PROVE  /\ p.pid \in Nat /\ p.health \in {"ready", "starting", "failing"}
         /\ p.commands \subseteq Commands /\ p.assembly \in Seq(Nat)
         /\ \A id \in Commands : /\ Described(p, id) \in Seq(Nat) /\ Len(Described(p, id)) > 0
                                 /\ HeaderSize + Len(Described(p, id)) <= SizeMax
         /\ HeaderSize + 1 <= SizeMax
<1>1. ASSUME NEW id \in Commands
      PROVE  Described(p, id) \in Seq(Nat) /\ Len(Described(p, id)) > 0
  <2>. DEFINE parts == Description(p, id)
  <2>1. Fits(parts, InfoLayout(id)) /\ Len(parts) \in Nat /\ Len(parts) > 0
    <3>1. DescribesIt(p, id, parts, InfoLayout(id))
      BY DescriptionFits
    <3>2. PROCESS_INFO = 0 /\ PROCESS_INFO2 = 4 /\ PROCESS_INFO3 = 8
      BY DEF PROCESS_INFO, PROCESS_INFO2, PROCESS_INFO3
    <3>. HIDE DEF parts
    <3>. QED  BY <3>1, <3>2 DEF DescribesIt
  <2>. HIDE DEF parts
  <2>2. parts \in Seq(Seq(Nat))
    BY <2>1 DEF Fits
  <2>3. PICK o : Offsets(o, parts)
    BY <2>2, OffsetsExist
  <2>4. Laid(Nat, FlattenSeq(parts), parts, o, Len(parts))
    BY <2>2, <2>3, FlattenLaysOut
  <2>5. /\ 1 \in 1 .. Len(parts) /\ 0 \in 0 .. Len(parts)
        /\ 1 \in 0 .. Len(parts) /\ Len(parts) \in 0 .. Len(parts)
    BY <2>1
  <2>6. Len(parts[1]) > 0 /\ parts[1] \in Seq(Nat)
    BY <2>1, <2>2, <2>5, PartsOf DEF Fits
  <2>7. /\ o[0] = 0 /\ o[1] = o[1 - 1] + Len(parts[1]) /\ o[1] <= o[Len(parts)]
        /\ o[Len(parts)] \in Nat /\ o[1] \in Nat
    BY <2>3, <2>4, <2>5 DEF Offsets, Laid
  <2>8. o[1 - 1] = 0
    BY <2>7, 1 - 1 = 0
  <2>9. Len(parts[1]) \in Nat
    BY <2>6
  <2>10. o[Len(parts)] > 0
    BY <2>6, <2>7, <2>8, <2>9
  <2>11. FlattenSeq(parts) \in Seq(Nat) /\ Len(FlattenSeq(parts)) = o[Len(parts)]
    BY <2>4 DEF Laid
  <2>. QED  BY <2>10, <2>11 DEF Described, parts
<1>2. \A id \in Commands : HeaderSize + Len(Described(p, id)) <= SizeMax
  BY DEF IsProcess
<1>3. HeaderSize + 1 <= SizeMax
  <2>1. PROCESS_INFO \in Commands
    BY DEF Commands
  <2>. DEFINE l == Len(Described(p, PROCESS_INFO))
  <2>2. l \in Nat /\ l > 0 /\ HeaderSize + l <= SizeMax
    BY <1>1, <1>2, <2>1
  <2>. HIDE DEF l
  <2>. QED  BY <2>2, IpcAssumption DEF IpcAssumption, HeaderSize
<1>. QED  BY <1>1, <1>2, <1>3 DEF IsProcess

\* What comes of asking one process for its description.
Answered(p, id, result) ==
  /\ result.ok <=> p.health = "ready" /\ id \in p.commands
  /\ result.ok => result.pid = p.pid /\ result.assembly_name = NameIn(p, id)
  /\ ~result.ok => (IsUnknown(result) <=> p.health = "ready")

\* A live process that knows the command is read as itself; one that does not refuses.
LEMMA InfoIsAnswered ==
  ASSUME NEW p, IsProcess(p), NEW id \in Commands
  PROVE  Answered(p, id, RequestProcessInfo({p}, id))
<1>. DEFINE message == [ok |-> TRUE, set |-> Process, id |-> id, payload |-> <<>>, rest |-> <<>>]
            heard == Heard(p, message)
            replied == Replied(p, message)
            response == ReadResponse(heard)
            result == RequestProcessInfo({p}, id)
<1>0. /\ Process = 4 /\ EventPipe = 2 /\ Server = 255 /\ ServerError = 255 /\ Ok = 0
      /\ UnknownCommand = 385 /\ NotYetAvailable = 358 /\ id \in Nat
  BY DEF Process, EventPipe, Server, ServerError, Ok, UnknownCommand, NotYetAvailable, Commands,
         PROCESS_INFO, PROCESS_INFO2, PROCESS_INFO3
<1>1. /\ p.health \in {"ready", "starting", "failing"}
      /\ Described(p, id) \in Seq(Nat) /\ HeaderSize + Len(Described(p, id)) <= SizeMax
      /\ HeaderSize + 1 <= SizeMax
  BY ProcessesFit
<1>2. Ask({p}, Process, id, <<>>) = response
  <2>1. <<>> \in Seq(Nat) /\ Len(<<>>) = 0 /\ ~(HeaderSize + 0 > SizeMax)
    BY <1>1, IpcAssumption DEF HeaderSize, IpcAssumption
  <2>2. Process \in Nat
    BY <1>0
  <2>3. id \in Nat
    BY <1>0
  <2>4. Ask({p}, Process, id, <<>>)
          = IF HeaderSize + Len(<<>>) > SizeMax THEN Error("PayloadTooLarge") ELSE response
    BY <2>1, <2>2, <2>3, AskedIsHeard, Zenon
  <2>. HIDE DEF response
  <2>. QED  BY <2>1, <2>4
<1>3. result = InfoOf(id, Fields(response, InfoLayout(id)))
  BY <1>2 DEF RequestProcessInfo
<1>4. ~Traces(message) /\ message.set = Process /\ message.id = id
  BY <1>0 DEF Traces
<1>5. replied =
        IF p.health = "starting" THEN Reply(Server, ServerError, <<NotYetAvailable>>)
        ELSE IF id \notin p.commands THEN Reply(Server, ServerError, <<UnknownCommand>>)
        ELSE Reply(Server, Ok, Described(p, id))
  <2>. HIDE DEF message
  <2>. QED  BY <1>4, Zenon DEF Replied
<1>6. heard = IF p.health = "failing" THEN SubSeq(replied, 1, Len(replied) - 1) ELSE replied
  <2>. HIDE DEF message, replied
  <2>1. Heard(p, message) = Sent(p, message, replied)
    BY DEF Heard, replied
  <2>. QED  BY <1>4, <2>1, Zenon DEF Sent
<1>. HIDE DEF message
<1>7. \E set \in Nat, kind \in Nat, payload \in Seq(Nat) :
        /\ replied = Reply(set, kind, payload) /\ HeaderSize + Len(payload) <= SizeMax
  <2>1. <<NotYetAvailable>> \in Seq(Nat) /\ Len(<<NotYetAvailable>>) = 1
        /\ <<UnknownCommand>> \in Seq(Nat) /\ Len(<<UnknownCommand>>) = 1
        /\ Server \in Nat /\ ServerError \in Nat /\ Ok \in Nat
    BY <1>0
  <2>. HIDE DEF replied
  <2>2. \/ replied = Reply(Server, ServerError, <<NotYetAvailable>>)
        \/ replied = Reply(Server, ServerError, <<UnknownCommand>>)
        \/ replied = Reply(Server, Ok, Described(p, id))
    BY <1>5
  <2>. QED  BY <1>1, <2>1, <2>2
<1>8. CASE p.health = "failing"
  <2>1. PICK set \in Nat, kind \in Nat, payload \in Seq(Nat) :
          replied = Reply(set, kind, payload) /\ HeaderSize + Len(payload) <= SizeMax
    BY <1>7
  <2>2. ReadMessage(heard) = Error("Io")
    <3>. HIDE DEF heard, replied
    <3>1. <<>> \in Seq(Nat)
      OBVIOUS
    <3>2. ReadMessage(SubSeq(replied, 1, Len(replied) - 1)) = Error("Io")
      BY <2>1, <3>1, ReplyReadsBack
    <3>. QED  BY <1>6, <1>8, <3>2, Zenon
  <2>3. response = Error("Io")
    <3>. HIDE DEF heard
    <3>1. ~Error("Io").ok
      BY DEF Error
    <3>. QED  BY <2>2, <3>1, Zenon DEF ReadResponse, Successful
  <2>. HIDE DEF response, result, heard
  <2>4. ~Error("Io").ok /\ Error("Io").error # "Server"
    BY DEF Error
  <2>5. result = Error("Io")
    <3>1. Fields(response, InfoLayout(id)) = Error("Io")
      BY <2>3, <2>4, Zenon DEF Fields
    <3>. QED  BY <1>3, <2>4, <3>1, Zenon DEF InfoOf
  <2>. QED  BY <1>8, <2>4, <2>5, "failing" # "ready", Zenon DEF Answered, IsUnknown, result
<1>9. ASSUME p.health # "failing", NEW code \in Nat,
             replied = Reply(Server, ServerError, <<code>>)
      PROVE  ~result.ok /\ (IsUnknown(result) <=> code = UnknownCommand)
  <2>. DEFINE failed == [ok |-> FALSE, error |-> "Server", hresult |-> code]
              read == [ok |-> TRUE, set |-> Server, id |-> ServerError,
                       payload |-> <<code>>, rest |-> <<>>]
  <2>1. ReadMessage(heard) = read
    <3>. DEFINE payload == <<code>>
    <3>1. payload \in Seq(Nat) /\ Len(payload) = 1 /\ Server \in Nat /\ ServerError \in Nat
          /\ <<>> \in Seq(Nat)
      BY <1>0
    <3>. HIDE DEF payload, heard, replied
    <3>2. HeaderSize + Len(payload) <= SizeMax
      BY <1>1, <3>1
    <3>3. ReadMessage(Reply(Server, ServerError, payload)) =
            [ok |-> TRUE, set |-> Server, id |-> ServerError, payload |-> payload,
             rest |-> <<>>]
      BY <3>1, <3>2, ReplyReadsBack
    <3>4. heard = Reply(Server, ServerError, payload)
      BY <1>6, <1>9, Zenon DEF payload
    <3>. QED  BY <3>3, <3>4, Zenon DEF payload
  <2>2. response = failed
    <3>1. read.ok /\ read.set = Server /\ read.id = ServerError /\ read.payload # <<>>
          /\ read.payload[1] = code
      OBVIOUS
    <3>. HIDE DEF heard, read
    <3>2. Successful(read) = [ok |-> FALSE, error |-> "Server",
                hresult |-> IF read.payload = <<>> THEN 0 ELSE read.payload[1]]
      BY <3>1, Zenon DEF Successful
    <3>. QED  BY <2>1, <3>1, <3>2, Zenon DEF ReadResponse
  <2>3. ~failed.ok /\ failed.error = "Server" /\ failed.hresult = code
    OBVIOUS
  <2>. HIDE DEF response, heard, result, failed, replied
  <2>4. result = failed
    <3>1. Fields(response, InfoLayout(id)) = failed
      BY <2>2, <2>3, Zenon DEF Fields
    <3>. QED  BY <1>3, <2>3, <3>1, Zenon DEF InfoOf
  <2>. QED  BY <2>3, <2>4, Zenon DEF IsUnknown, result
<1>10. CASE p.health = "starting"
  <2>1. replied = Reply(Server, ServerError, <<NotYetAvailable>>)
    <3>. HIDE DEF replied
    <3>. QED  BY <1>5, <1>10
  <2>2. p.health # "failing" /\ NotYetAvailable \in Nat /\ NotYetAvailable # UnknownCommand
        /\ p.health # "ready"
    BY <1>0, <1>10
  <2>. HIDE DEF replied, result
  <2>3. ~result.ok /\ ~IsUnknown(result)
    BY <1>9, <2>1, <2>2
  <2>. QED  BY <2>2, <2>3, Zenon DEF Answered, result
<1>11. CASE p.health = "ready" /\ id \notin p.commands
  <2>0. p.health # "failing" /\ p.health # "starting" /\ UnknownCommand \in Nat
    BY <1>0, <1>11
  <2>. HIDE DEF replied, result
  <2>1. replied = Reply(Server, ServerError, <<UnknownCommand>>)
    BY <1>5, <1>11, <2>0
  <2>2. ~result.ok /\ IsUnknown(result)
    BY <1>9, <2>0, <2>1
  <2>. QED  BY <1>11, <2>2, Zenon DEF Answered, result
<1>12. CASE p.health = "ready" /\ id \in p.commands
  <2>0. p.health # "failing" /\ p.health # "starting"
    BY <1>12
  <2>. DEFINE read == [ok |-> TRUE, set |-> Server, id |-> Ok, payload |-> Described(p, id),
                       rest |-> <<>>]
  <2>1. ReadMessage(heard) = read
    <3>. HIDE DEF heard, replied
    <3>1. heard = Reply(Server, Ok, Described(p, id))
      BY <1>5, <1>6, <1>12, <2>0
    <3>2. <<>> \in Seq(Nat) /\ Server \in Nat /\ Ok \in Nat
      BY <1>0
    <3>3. ReadMessage(Reply(Server, Ok, Described(p, id))) = read
      BY <1>1, <3>2, ReplyReadsBack
    <3>. QED  BY <3>1, <3>3, Zenon
  <2>2. response = read
    <3>1. read.ok /\ read.set = Server /\ read.id = Ok /\ Ok # ServerError
      BY <1>0
    <3>. HIDE DEF heard, read
    <3>2. Successful(read) = read
      BY <3>1, Zenon DEF Successful
    <3>. QED  BY <2>1, <3>2, Zenon DEF ReadResponse
  <2>3. result = InfoOf(id, ReadFields(Described(p, id), InfoLayout(id)))
    <3>1. read.ok /\ read.payload = Described(p, id)
      OBVIOUS
    <3>. HIDE DEF response, read, result
    <3>. QED  BY <1>3, <2>2, <3>1, Zenon DEF Fields
  <2>. HIDE DEF result, response, heard, replied
  <2>4. result.ok /\ result.pid = p.pid /\ result.assembly_name = NameIn(p, id)
    BY <2>3, InfoReadsBack
  <2>. QED  BY <1>12, <2>4, Zenon DEF Answered, result
<1>13. \/ p.health = "failing" \/ p.health = "starting"
       \/ (p.health = "ready" /\ id \notin p.commands)
       \/ (p.health = "ready" /\ id \in p.commands)
  BY <1>1
<1>. QED  BY <1>8, <1>10, <1>11, <1>12, <1>13

\* Nobody is behind a stale socket.
LEMMA NobodyAnswers ==
  ASSUME NEW set, NEW id, NEW payload
  PROVE  Ask({}, set, id, payload) = Error("Connect")
BY Zenon DEF Ask

\* No process, no answer.
LEMMA NobodyIsThere ==
  ~ProcessInfo({}).ok /\ \A interval : ~StartTracing({}, interval).ok
<1>1. ~Error("Connect").ok /\ Error("Connect").error # "Server"
  BY DEF Error
<1>2. ASSUME NEW layout PROVE Fields(Error("Connect"), layout) = Error("Connect")
  BY <1>1, Zenon DEF Fields
<1>3. ASSUME NEW id PROVE RequestProcessInfo({}, id) = Error("Connect")
  <2>1. Fields(Ask({}, Process, id, <<>>), InfoLayout(id)) = Error("Connect")
    BY <1>2, NobodyAnswers, Zenon
  <2>. QED  BY <1>1, <2>1, Zenon DEF RequestProcessInfo, InfoOf
<1>4. ~ProcessInfo({}).ok
  <2>1. ~IsUnknown(Error("Connect"))
    BY <1>1, Zenon DEF IsUnknown
  <2>. QED  BY <1>1, <1>3, <2>1, Zenon DEF ProcessInfo, Unless
<1>5. ASSUME NEW interval PROVE ~StartTracing({}, interval).ok
  <2>1. Fields(Ask({}, EventPipe, COLLECT_TRACING2, CounterConfig(interval)), <<"u64">>)
          = Error("Connect")
    BY <1>2, NobodyAnswers, Zenon
  <2>. QED  BY <1>1, <2>1, Zenon DEF StartTracing, Started, Session
<1>. QED  BY <1>4, <1>5

\* What countercow learns of a process is what the process says of itself, in the
\* newest form of the answer that its version has; the name of the entry assembly is
\* empty only when that form has none (commands.rs:31, commands.rs:60).
THEOREM InfoIsTheProcess ==
  ASSUME NEW p, IsProcess(p), ProcessInfo({p}).ok
  PROVE  /\ p.health = "ready" /\ ProcessInfo({p}).pid = p.pid
         /\ ProcessInfo({p}).assembly_name =
              IF p.commands = {PROCESS_INFO} THEN <<>> ELSE p.assembly
<1>. DEFINE three == RequestProcessInfo({p}, PROCESS_INFO3)
            two == RequestProcessInfo({p}, PROCESS_INFO2)
            one == RequestProcessInfo({p}, PROCESS_INFO)
            info == ProcessInfo({p})
<1>1. /\ PROCESS_INFO \in Commands /\ PROCESS_INFO2 \in Commands /\ PROCESS_INFO3 \in Commands
      /\ PROCESS_INFO = 0 /\ PROCESS_INFO2 = 4 /\ PROCESS_INFO3 = 8
  BY DEF Commands, PROCESS_INFO, PROCESS_INFO2, PROCESS_INFO3
<1>2. /\ Answered(p, PROCESS_INFO3, three) /\ Answered(p, PROCESS_INFO2, two)
      /\ Answered(p, PROCESS_INFO, one)
  BY <1>1, InfoIsAnswered
<1>3. info = IF IsUnknown(three) THEN IF IsUnknown(two) THEN one ELSE two ELSE three
  BY Zenon DEF ProcessInfo, Unless
<1>4. \A r : IsUnknown(r) => ~r.ok
  BY DEF IsUnknown
<1>5. p.commands \subseteq {PROCESS_INFO, PROCESS_INFO2, PROCESS_INFO3}
  BY ProcessesFit DEF Commands
<1>. HIDE DEF three, two, one, info
<1>6. CASE info = three
  <2>1. info.ok
    BY DEF info
  <2>2. p.health = "ready" /\ PROCESS_INFO3 \in p.commands /\ info.pid = p.pid
        /\ info.assembly_name = NameIn(p, PROCESS_INFO3)
    BY <1>2, <1>6, <2>1, Zenon DEF Answered
  <2>3. NameIn(p, PROCESS_INFO3) = p.assembly /\ p.commands # {PROCESS_INFO}
    BY <1>1, <2>2 DEF NameIn
  <2>. QED  BY <2>2, <2>3 DEF info
<1>7. CASE info = two
  <2>1. info.ok
    BY DEF info
  <2>2. p.health = "ready" /\ PROCESS_INFO2 \in p.commands /\ info.pid = p.pid
        /\ info.assembly_name = NameIn(p, PROCESS_INFO2)
    BY <1>2, <1>7, <2>1, Zenon DEF Answered
  <2>3. NameIn(p, PROCESS_INFO2) = p.assembly /\ p.commands # {PROCESS_INFO}
    BY <1>1, <2>2 DEF NameIn
  <2>. QED  BY <2>2, <2>3 DEF info
<1>8. CASE info = one /\ IsUnknown(three) /\ IsUnknown(two)
  <2>1. info.ok /\ ~three.ok /\ ~two.ok
    BY <1>4, <1>8 DEF info
  <2>2. p.health = "ready" /\ PROCESS_INFO \in p.commands /\ info.pid = p.pid
        /\ info.assembly_name = NameIn(p, PROCESS_INFO)
        /\ PROCESS_INFO3 \notin p.commands /\ PROCESS_INFO2 \notin p.commands
    BY <1>2, <1>8, <2>1, Zenon DEF Answered
  <2>3. NameIn(p, PROCESS_INFO) = <<>> /\ p.commands = {PROCESS_INFO}
    BY <1>5, <2>2 DEF NameIn
  <2>. QED  BY <2>2, <2>3 DEF info
<1>. QED  BY <1>3, <1>6, <1>7, <1>8

\* A session that opens is one of the process asked, at the rate asked for, and its
\* stream starts at the first byte after the answer, which arrives on the same
\* connection (ipc/frame.rs:3, commands.rs:111).
THEOREM SessionIsAsAsked ==
  ASSUME NEW p, IsProcess(p), NEW interval \in Nat, StartTracing({p}, interval).ok
  PROVE  p.health = "ready" /\ StartTracing({p}, interval).stream = Opening(interval)
<1>. DEFINE config == CounterConfig(interval)
            message == [ok |-> TRUE, set |-> EventPipe, id |-> COLLECT_TRACING2,
                        payload |-> config, rest |-> <<>>]
            heard == Heard(p, message)
            replied == Replied(p, message)
            asked == Ask({p}, EventPipe, COLLECT_TRACING2, config)
            result == StartTracing({p}, interval)
<1>0. /\ Process = 4 /\ EventPipe = 2 /\ Server = 255 /\ ServerError = 255 /\ Ok = 0
      /\ COLLECT_TRACING2 = 3
  BY DEF Process, EventPipe, Server, ServerError, Ok, COLLECT_TRACING2
<1>1. /\ p.health \in {"ready", "starting", "failing"} /\ p.pid \in Nat
      /\ HeaderSize + 1 <= SizeMax
  BY ProcessesFit
<1>2. config \in Seq(Nat) /\ AskedRate(config) = interval
  BY RateReadsBack
<1>3. result = Session(asked, Fields(asked, <<"u64">>)) /\ result.ok
  BY DEF StartTracing, Started
<1>4. message.ok /\ message.set = EventPipe /\ message.id = COLLECT_TRACING2
      /\ message.payload = config
  OBVIOUS
<1>. HIDE DEF config, message, heard, replied, asked, result
<1>5. asked.ok
  <2>1. CASE ~asked.ok
    <3>1. Fields(asked, <<"u64">>) = asked
      BY <2>1, Zenon DEF Fields
    <3>. QED  BY <1>3, <2>1, <3>1, Zenon DEF Session
  <2>. QED  BY <2>1
<1>6. asked = ReadResponse(heard)
  <2>1. EventPipe \in Nat /\ COLLECT_TRACING2 \in Nat
    BY <1>0
  <2>2. asked = IF HeaderSize + Len(config) > SizeMax THEN Error("PayloadTooLarge")
                ELSE ReadResponse(heard)
    BY <1>2, <2>1, AskedIsHeard DEF asked, heard, message
  <2>3. ~Error("PayloadTooLarge").ok
    BY DEF Error
  <2>. QED  BY <1>5, <2>2, <2>3, Zenon
<1>7. Traces(message) /\ message.set # Process
  BY <1>0, <1>4 DEF Traces
<1>8. replied = IF p.health = "starting" THEN Reply(Server, ServerError, <<NotYetAvailable>>)
                ELSE Reply(Server, Ok, <<p.pid>>)
  BY <1>7, Zenon DEF Replied, replied
<1>9. heard = IF p.health = "failing" THEN SubSeq(replied, 1, Len(replied) - 1)
              ELSE IF p.health = "ready" THEN replied \o Opening(interval) ELSE replied
  <2>1. heard = Sent(p, message, replied)
    BY DEF heard, Heard, replied
  <2>2. "failing" # "ready"
    OBVIOUS
  <2>. QED  BY <1>2, <1>4, <1>7, <2>1, <2>2, Zenon DEF Sent
<1>10. /\ <<p.pid>> \in Seq(Nat) /\ Len(<<p.pid>>) = 1
       /\ <<NotYetAvailable>> \in Seq(Nat) /\ Len(<<NotYetAvailable>>) = 1
       /\ Server \in Nat /\ ServerError \in Nat /\ Ok \in Nat /\ <<>> \in Seq(Nat)
       /\ Opening(interval) \in Seq(Nat)
  BY <1>0, <1>1 DEF NotYetAvailable, Opening
<1>11. p.health # "failing"
  <2>1. SUFFICES ASSUME p.health = "failing" PROVE FALSE
    OBVIOUS
  <2>2. replied = Reply(Server, Ok, <<p.pid>>) /\ heard = SubSeq(replied, 1, Len(replied) - 1)
    BY <1>8, <1>9, <2>1
  <2>. DEFINE payload == <<p.pid>>
  <2>3. payload \in Seq(Nat) /\ HeaderSize + Len(payload) <= SizeMax
    BY <1>1, <1>10
  <2>. HIDE DEF payload
  <2>4. ReadMessage(SubSeq(Reply(Server, Ok, payload), 1, Len(Reply(Server, Ok, payload)) - 1))
          = Error("Io")
    <3>. DEFINE sent == Reply(Server, Ok, payload)
    <3>1. ReadMessage(SubSeq(sent, 1, Len(sent) - 1)) = Error("Io")
      BY <1>10, <2>3, ReplyReadsBack, Zenon
    <3>. QED  BY <3>1
  <2>5. ReadMessage(heard) = Error("Io") /\ ~Error("Io").ok
    BY <2>2, <2>4 DEF Error, payload
  <2>6. asked = Error("Io")
    BY <1>6, <2>5, Zenon DEF ReadResponse, Successful
  <2>. QED  BY <1>5, <2>5, <2>6
<1>12. p.health # "starting"
  <2>1. SUFFICES ASSUME p.health = "starting" PROVE FALSE
    OBVIOUS
  <2>. DEFINE payload == <<NotYetAvailable>>
              read == [ok |-> TRUE, set |-> Server, id |-> ServerError, payload |-> payload,
                       rest |-> <<>>]
  <2>2. payload \in Seq(Nat) /\ HeaderSize + Len(payload) <= SizeMax
    BY <1>1, <1>10
  <2>3. heard = Reply(Server, ServerError, payload)
    BY <1>8, <1>9, <2>1
  <2>4. read.ok /\ read.set = Server /\ read.id = ServerError
    OBVIOUS
  <2>. HIDE DEF payload
  <2>5. ReadMessage(heard) = read
    BY <1>10, <2>2, <2>3, ReplyReadsBack
  <2>. HIDE DEF read
  <2>6. asked = [ok |-> FALSE, error |-> "Server",
                 hresult |-> IF read.payload = <<>> THEN 0 ELSE read.payload[1]]
    BY <1>6, <2>4, <2>5, Zenon DEF ReadResponse, Successful
  <2>7. ~asked.ok
    BY <2>6
  <2>. QED  BY <1>5, <2>7
<1>13. asked = [ok |-> TRUE, set |-> Server, id |-> Ok, payload |-> <<p.pid>>,
                rest |-> Opening(interval)]
  <2>. DEFINE payload == <<p.pid>>
              read == [ok |-> TRUE, set |-> Server, id |-> Ok, payload |-> payload,
                       rest |-> Opening(interval)]
  <2>1. payload \in Seq(Nat) /\ HeaderSize + Len(payload) <= SizeMax
    BY <1>1, <1>10
  <2>2. heard = Reply(Server, Ok, payload) \o Opening(interval)
    BY <1>1, <1>8, <1>9, <1>11, <1>12
  <2>3. read.ok /\ read.set = Server /\ read.id = Ok /\ Ok # ServerError
    BY <1>0
  <2>. HIDE DEF payload
  <2>4. ReadMessage(heard) = read
    <3>. DEFINE more == Opening(interval)
    <3>1. more \in Seq(Nat)
      BY <1>10
    <3>. HIDE DEF more
    <3>2. ReadMessage(Reply(Server, Ok, payload) \o more) =
            [ok |-> TRUE, set |-> Server, id |-> Ok, payload |-> payload, rest |-> more]
      BY <1>10, <2>1, <3>1, ReplyReadsBack
    <3>. QED  BY <2>2, <3>2, Zenon DEF more
  <2>. HIDE DEF read
  <2>5. asked = read
    BY <1>6, <2>3, <2>4, Zenon DEF ReadResponse, Successful
  <2>. QED  BY <2>5 DEF read, payload
<1>14. result.stream = asked.rest
  <2>. DEFINE read == Fields(asked, <<"u64">>)
  <2>1. result = IF ~read.ok THEN read
                 ELSE [ok |-> TRUE, session_id |-> read.values[1][1], stream |-> asked.rest]
    BY <1>3, Zenon DEF Session
  <2>. HIDE DEF read
  <2>. QED  BY <1>3, <2>1
<1>. QED  BY <1>1, <1>11, <1>12, <1>13, <1>14 DEF result
=====================================================================================
