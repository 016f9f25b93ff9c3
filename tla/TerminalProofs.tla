------------------------------ MODULE TerminalProofs ------------------------------
(***************************************************************************)
(* Proofs about finding a process and about the session loop around the    *)
(* dashboards, for every machine, every list of processes that may start   *)
(* meanwhile, all keys, and any number of keystrokes, signals and deaths.  *)
(***************************************************************************)
EXTENDS Terminal, IpcProofs

----------------------------------------------------------------------------
(* Lists that are sorted.                                                  *)

\* Nothing is listed twice.
LEMMA SortedOnce ==
  ASSUME NEW S, NEW order, Decides(order, S), IsFiniteSet(S), NEW list, IsSorting(list, S, order)
  PROVE  list \in Bijection(1 .. Cardinality(S), S)
<1>. DEFINE n == Cardinality(S)
<1>0. n \in Nat
  BY FS_CardinalityType
<1>. HIDE DEF n
<1>1. /\ list \in [1 .. n -> S]
      /\ \A i, j \in 1 .. n : i < j => <<list[i], list[j]>> \in order
      /\ \A x \in S : \E i \in 1 .. n : list[i] = x
  BY DEF IsSorting, n
<1>2. ASSUME NEW i \in 1 .. n, NEW j \in 1 .. n, list[i] = list[j] PROVE i = j
  <2>. SUFFICES ASSUME i # j PROVE FALSE
    OBVIOUS
  <2>1. i < j \/ j < i
    BY <1>0
  <2>2. <<list[i], list[i]>> \in order
    BY <1>1, <1>2, <2>1
  <2>. QED  BY <1>1, <2>2 DEF Decides
<1>3. list \in Injection(1 .. n, S)
  BY <1>1, <1>2 DEF Injection, IsInjective
<1>4. list \in Surjection(1 .. n, S)
  BY <1>1 DEF Surjection
<1>. QED  BY <1>3, <1>4 DEF Bijection, n

\* The numbers up to n, and any of them, are decided by their size.
Smaller(S) == {ij \in S \X S : ij[1] < ij[2]}

\* Numbers are told apart by which is smaller.
LEMMA NumbersDecided ==
  ASSUME NEW S \in SUBSET Nat
  PROVE  Decides(Smaller(S), S)
<1>1. \A x, y \in S : <<x, y>> \in Smaller(S) <=> x < y
  BY DEF Smaller
<1>2. \A x \in S : <<x, x>> \notin Smaller(S)
  BY <1>1
<1>3. \A x, y, z \in S :
        <<x, y>> \in Smaller(S) /\ <<y, z>> \in Smaller(S) => <<x, z>> \in Smaller(S)
  BY <1>1
<1>4. \A x, y \in S : x # y => <<x, y>> \in Smaller(S) \/ <<y, x>> \in Smaller(S)
  BY <1>1
<1>. QED  BY <1>2, <1>3, <1>4 DEF Decides

\* A part of an interval is finite, and no larger.
LEMMA PiecesOfAnInterval ==
  ASSUME NEW n \in Nat, NEW S \in SUBSET (1 .. n)
  PROVE  IsFiniteSet(S) /\ Cardinality(S) \in Nat /\ Cardinality(S) <= n
         /\ IsFiniteSet(1 .. n) /\ Cardinality(1 .. n) = n
<1>1. IsFiniteSet(1 .. n) /\ Cardinality(1 .. n) = n
  <2>1. 1 \in Int /\ n \in Int
    OBVIOUS
  <2>2. IsFiniteSet(1 .. n) /\ Cardinality(1 .. n) = IF 1 > n THEN 0 ELSE n - 1 + 1
    BY <2>1, FS_Interval
  <2>. QED  BY <2>2
<1>2. IsFiniteSet(S) /\ Cardinality(S) <= Cardinality(1 .. n)
  BY <1>1, FS_Subset
<1>. QED  BY <1>1, <1>2, FS_CardinalityType

----------------------------------------------------------------------------
(* The list that discovery makes.                                          *)

\* The sockets that are used, and the order they are considered in.
CandidateOf(s, fate, files) ==
  [socket |-> s, verified |-> fate[s] = "verified", written |-> Mtime(files, s)]
Usable(fate, files) ==
  {CandidateOf(s, fate, files) : s \in {t \in DOMAIN fate : fate[t] \in {"verified", "unverified"}}}
Preferred(fate, files) == {ab \in Usable(fate, files) \X Usable(fate, files) : Better(ab[1], ab[2])}
Candidates(fate, files) == Sorted(Usable(fate, files), Preferred(fate, files))

\* What discovery lists: the best usable socket of each pid, named, in order.
LEMMA DiscoveredFromCandidates ==
  ASSUME NEW fate, NEW files, NEW alive
  PROVE  Discovered(fate, files, alive).processes =
           InOrder(Endpoints(DedupByPid(Candidates(fate, files)), alive))
BY DEF Discovered, Candidates, Preferred, Usable, CandidateOf

\* What the candidate of a socket is.
LEMMA CandidateIs ==
  ASSUME NEW fate, NEW files, Filed(DOMAIN fate), NEW s \in DOMAIN fate
  PROVE  LET u == CandidateOf(s, fate, files)
         IN  /\ u.socket = s /\ u.verified \in BOOLEAN /\ u.written \in Nat
             /\ u.verified <=> fate[s] = "verified"
             /\ u.written = Mtime(files, s)
<1>. DEFINE u == CandidateOf(s, fate, files)
<1>1. u.socket = s /\ u.written = Mtime(files, s)
  BY DEF CandidateOf
<1>2. u.verified = (fate[s] = "verified")
  BY Zenon DEF CandidateOf
<1>3. Mtime(files, s) \in Nat
  BY DEF Mtime, Filed
<1>. HIDE DEF u
<1>4. u.verified \in BOOLEAN
  BY <1>2
<1>5. u.verified <=> fate[s] = "verified"
  BY <1>2
<1>. QED  BY <1>1, <1>3, <1>4, <1>5 DEF u

\* Candidates are never undecided: no two come at one place in the directory.
LEMMA PreferredDecides ==
  ASSUME NEW fate, NEW files, Filed(DOMAIN fate)
  PROVE  Decides(Preferred(fate, files), Usable(fate, files))
<1>. DEFINE U == Usable(fate, files)
<1>1. ASSUME NEW u \in U
      PROVE  /\ u.written \in Nat /\ u.verified \in BOOLEAN
             /\ u.socket \in DOMAIN fate /\ u.socket.place \in Nat
             /\ u = CandidateOf(u.socket, fate, files)
  <2>1. PICK s \in DOMAIN fate : u = CandidateOf(s, fate, files)
    BY DEF Usable
  <2>2. u.socket = s /\ u.verified \in BOOLEAN /\ u.written \in Nat
    BY <2>1, CandidateIs
  <2>. QED  BY <2>1, <2>2 DEF Filed
<1>2. ASSUME NEW u \in U, NEW v \in U, u.socket.place = v.socket.place PROVE u = v
  <2>1. u.socket = v.socket
    BY <1>1, <1>2 DEF Filed
  <2>. HIDE DEF U
  <2>. QED  BY <1>1, <2>1
<1>3. \A u, v \in U : <<u, v>> \in Preferred(fate, files) <=> Better(u, v)
  BY DEF Preferred
<1>. HIDE DEF U
<1>4. \A u \in U : ~Better(u, u)
  BY <1>1 DEF Better
<1>5. ASSUME NEW u \in U, NEW v \in U, NEW w \in U, Better(u, v), Better(v, w)
      PROVE  Better(u, w)
  <2>1. CASE u.verified /\ ~v.verified
    BY <1>5, <2>1 DEF Better
  <2>2. CASE ~(u.verified /\ ~v.verified) /\ v.verified /\ ~w.verified
    BY <1>5, <2>2 DEF Better
  <2>3. CASE ~(u.verified /\ ~v.verified) /\ ~(v.verified /\ ~w.verified)
    <3>1. u.verified = v.verified /\ v.verified = w.verified
      BY <1>5, <2>3 DEF Better
    <3>2. /\ u.written > v.written \/ (u.written = v.written /\ u.socket.place < v.socket.place)
          /\ v.written > w.written \/ (v.written = w.written /\ v.socket.place < w.socket.place)
      BY <1>5, <2>3 DEF Better
    <3>3. u.written > w.written \/ (u.written = w.written /\ u.socket.place < w.socket.place)
      BY <1>1, <3>2
    <3>. QED  BY <3>1, <3>3 DEF Better
  <2>. QED  BY <2>1, <2>2, <2>3
<1>6. ASSUME NEW u \in U, NEW v \in U, u # v PROVE Better(u, v) \/ Better(v, u)
  <2>1. u.socket.place # v.socket.place
    BY <1>2, <1>6
  <2>2. u.socket.place < v.socket.place \/ v.socket.place < u.socket.place
    BY <1>1, <2>1
  <2>3. CASE u.verified # v.verified
    BY <1>1, <2>3 DEF Better
  <2>4. CASE u.verified = v.verified
    BY <1>1, <2>2, <2>4 DEF Better
  <2>. QED  BY <2>3, <2>4
<1>. QED  BY <1>3, <1>4, <1>5, <1>6 DEF Decides, U

\* Every usable socket is a candidate once.
LEMMA CandidatesAre ==
  ASSUME NEW fate, NEW files, Filed(DOMAIN fate), IsFiniteSet(DOMAIN fate)
  PROVE  /\ IsFiniteSet(Usable(fate, files)) /\ Cardinality(Usable(fate, files)) \in Nat
         /\ Candidates(fate, files) \in Bijection(1 .. Cardinality(Usable(fate, files)), Usable(fate, files))
<1>1. IsFiniteSet(Usable(fate, files))
  <2>. DEFINE used == {t \in DOMAIN fate : fate[t] \in {"verified", "unverified"}}
              Of(s) == CandidateOf(s, fate, files)
              f == [s \in used |-> Of(s)]
  <2>1. IsFiniteSet(used)
    <3>1. used \in SUBSET DOMAIN fate
      OBVIOUS
    <3>. HIDE DEF used
    <3>. QED  BY <3>1, FS_Subset
  <2>2. Usable(fate, files) = {Of(s) : s \in used}
    BY DEF Usable
  <2>3. f \in [used -> Usable(fate, files)] /\ \A u \in Usable(fate, files) : \E s \in used : f[s] = u
    <3>. HIDE DEF used, Of
    <3>. QED  BY <2>2
  <2>4. f \in Surjection(used, Usable(fate, files))
    <3>. HIDE DEF f, used
    <3>. QED  BY <2>3 DEF Surjection
  <2>. HIDE DEF f, used
  <2>. QED  BY <2>1, <2>4, FS_Surjection
<1>2. IsSorting(Candidates(fate, files), Usable(fate, files), Preferred(fate, files))
  BY <1>1, PreferredDecides, SortedIsSorted DEF Candidates
<1>. QED  BY <1>1, <1>2, PreferredDecides, SortedOnce, FS_CardinalityType

\* What is left of the candidates when of neighbours with one pid the first is kept.
Firsts(candidates) ==
  {i \in DOMAIN candidates :
     i = 1 \/ candidates[i].socket.pid # candidates[i - 1].socket.pid}

\* dedup_by_key leaves the first of each row of neighbours with a pid, in order.
LEMMA DedupKeepsFirsts ==
  ASSUME NEW n \in Nat, NEW candidates, DOMAIN candidates = 1 .. n
  PROVE  /\ Firsts(candidates) \in SUBSET (1 .. n)
         /\ \E f \in Bijection(1 .. Cardinality(Firsts(candidates)), Firsts(candidates)) :
              DedupByPid(candidates) =
                [i \in 1 .. Cardinality(Firsts(candidates)) |-> candidates[f[i]]]
<1>. DEFINE firsts == Firsts(candidates)
            order == Sorted(firsts, Smaller(firsts))
            k == Cardinality(firsts)
<1>1. firsts \in SUBSET (1 .. n) /\ firsts \in SUBSET Nat
  BY DEF Firsts
<1>2. DedupByPid(candidates) = [i \in DOMAIN order |-> candidates[order[i]]]
  BY DEF DedupByPid, Firsts, Smaller
<1>. HIDE DEF firsts
<1>3. IsFiniteSet(firsts)
  BY <1>1, PiecesOfAnInterval
<1>4. Decides(Smaller(firsts), firsts)
  BY <1>1, NumbersDecided
<1>5. IsSorting(order, firsts, Smaller(firsts))
  BY <1>3, <1>4, SortedIsSorted
<1>. HIDE DEF order
<1>6. order \in Bijection(1 .. k, firsts)
  BY <1>3, <1>4, <1>5, SortedOnce
<1>7. DOMAIN order = 1 .. k
  BY <1>6 DEF Bijection, Injection
<1>8. DedupByPid(candidates) = [i \in 1 .. k |-> candidates[order[i]]]
  BY <1>2, <1>7
<1>. QED  BY <1>1, <1>6, <1>8 DEF firsts

\* The list by name, then by pid.
ListedBefore(items, i, j) ==
  \/ NameBefore(items[i].name, items[j].name)
  \/ items[i].name = items[j].name
       /\ (items[i].pid < items[j].pid \/ (items[i].pid = items[j].pid /\ i < j))

\* The list is the same processes in the order of their names.
LEMMA InOrderSorts ==
  ASSUME NEW n \in Nat, NEW items, DOMAIN items = 1 .. n,
         \A i \in 1 .. n : items[i].name \in Seq(Nat) /\ items[i].pid \in Nat
  PROVE  \E f \in Bijection(1 .. n, 1 .. n) :
           /\ InOrder(items) = [i \in 1 .. n |-> items[f[i]]]
           /\ \A i, j \in 1 .. n : i < j => ~NameBefore(items[f[j]].name, items[f[i]].name)
<1>. DEFINE S == 1 .. n
            pairs == {ij \in S \X S : ListedBefore(items, ij[1], ij[2])}
            order == Sorted(S, pairs)
<1>0. IsFiniteSet(S) /\ Cardinality(S) = n
  BY PiecesOfAnInterval
<1>1. InOrder(items) = [i \in DOMAIN order |-> items[order[i]]]
  BY DEF InOrder, ListedBefore
<1>2. \A i, j \in S : <<i, j>> \in pairs <=> ListedBefore(items, i, j)
  OBVIOUS
<1>3. Decides(pairs, S)
  <2>1. ASSUME NEW i \in S PROVE ~ListedBefore(items, i, i)
    BY NotBeforeItself DEF ListedBefore
  <2>2. ASSUME NEW i \in S, NEW j \in S, NEW k \in S,
               ListedBefore(items, i, j), ListedBefore(items, j, k)
        PROVE  ListedBefore(items, i, k)
    <3>. DEFINE a == items[i].name
                b == items[j].name
                c == items[k].name
    <3>1. a \in Seq(Nat) /\ b \in Seq(Nat) /\ c \in Seq(Nat)
          /\ items[i].pid \in Nat /\ items[j].pid \in Nat /\ items[k].pid \in Nat
      OBVIOUS
    <3>2. NameBefore(a, b) /\ NameBefore(b, c) => NameBefore(a, c)
      BY <3>1, BeforeBefore
    <3>3. (NameBefore(a, b) \/ a = b) /\ (NameBefore(b, c) \/ b = c)
      BY <2>2 DEF ListedBefore
    <3>4. CASE NameBefore(a, c)
      BY <3>4 DEF ListedBefore
    <3>5. CASE a = b /\ b = c
      <4>1. ~NameBefore(a, b) /\ ~NameBefore(b, c)
        BY <3>1, <3>5, NotBeforeItself
      <4>2. \/ items[i].pid < items[j].pid
            \/ items[i].pid = items[j].pid /\ i < j
        BY <2>2, <4>1 DEF ListedBefore
      <4>3. \/ items[j].pid < items[k].pid
            \/ items[j].pid = items[k].pid /\ j < k
        BY <2>2, <4>1 DEF ListedBefore
      <4>4. \/ items[i].pid < items[k].pid
            \/ items[i].pid = items[k].pid /\ i < k
        BY <3>1, <4>2, <4>3
      <4>. QED  BY <3>5, <4>4 DEF ListedBefore
    <3>6. CASE a = b /\ NameBefore(b, c)
      BY <3>4, <3>6
    <3>7. CASE NameBefore(a, b) /\ b = c
      BY <3>4, <3>7
    <3>. HIDE DEF a, b, c
    <3>. QED  BY <3>2, <3>3, <3>4, <3>5, <3>6, <3>7
  <2>3. ASSUME NEW i \in S, NEW j \in S, i # j
        PROVE  ListedBefore(items, i, j) \/ ListedBefore(items, j, i)
    <3>1. CASE items[i].name # items[j].name
      BY <3>1, OneIsFirst DEF ListedBefore
    <3>2. CASE items[i].name = items[j].name
      BY <2>3, <3>2 DEF ListedBefore
    <3>. QED  BY <3>1, <3>2
  <2>. HIDE DEF pairs, S
  <2>. QED  BY <1>2, <2>1, <2>2, <2>3 DEF Decides
<1>4. IsSorting(order, S, pairs)
  <2>. HIDE DEF S, pairs
  <2>. QED  BY <1>0, <1>3, SortedIsSorted
<1>. HIDE DEF order
<1>5. order \in Bijection(S, S)
  <2>. HIDE DEF pairs
  <2>1. order \in Bijection(1 .. Cardinality(S), S)
    <3>. HIDE DEF S
    <3>. QED  BY <1>0, <1>3, <1>4, SortedOnce
  <2>. QED  BY <1>0, <2>1
<1>6. DOMAIN order = S /\ \A i \in S : order[i] \in S
  BY <1>5 DEF Bijection, Injection
<1>7. ASSUME NEW i \in S, NEW j \in S, i < j
      PROVE  ~NameBefore(items[order[j]].name, items[order[i]].name)
  <2>1. <<order[i], order[j]>> \in pairs
    BY <1>0, <1>4, <1>7 DEF IsSorting
  <2>. DEFINE a == items[order[i]].name
              b == items[order[j]].name
  <2>2. (NameBefore(a, b) \/ a = b) /\ a \in Seq(Nat) /\ b \in Seq(Nat)
    BY <1>6, <2>1 DEF ListedBefore
  <2>. HIDE DEF a, b
  <2>3. ~NameBefore(b, a)
    <3>. SUFFICES ASSUME NameBefore(b, a) PROVE FALSE
      OBVIOUS
    <3>1. NameBefore(a, a)
      BY <2>2, BeforeBefore
    <3>. QED  BY <2>2, <3>1, NotBeforeItself
  <2>. QED  BY <2>3 DEF a, b
<1>. QED  BY <1>1, <1>5, <1>6, <1>7

EndpointOf(candidate, alive) ==
  [pid |-> candidate.socket.pid, socket |-> candidate.socket,
   name |-> ProcessOf(alive, candidate.socket.pid).name,
   start_key_verified |-> candidate.verified]

\* No other usable socket is of that pid.
Alone(u, fate, files) == \A v \in Usable(fate, files) : v.socket.pid = u.socket.pid => v = u

\* A list in order of usable sockets, each once at most, and those that are alone once.
ListsUsable(list, fate, files, alive) ==
  \E k \in Nat : \E h \in Injection(1 .. k, Usable(fate, files)) :
    /\ list = [i \in 1 .. k |-> EndpointOf(h[i], alive)]
    /\ \A u \in Usable(fate, files) : Alone(u, fate, files) => \E i \in 1 .. k : h[i] = u
    /\ \A i, j \in 1 .. k : i < j => ~NameBefore(list[j].name, list[i].name)

\* Discovery lists usable sockets only, none twice, and each that shares its pid
\* with no other, in the order of the names.
LEMMA DiscoveredLists ==
  ASSUME NEW fate, NEW files, Filed(DOMAIN fate), IsFiniteSet(DOMAIN fate), NEW alive,
         \A u \in Usable(fate, files) : ProcessOf(alive, u.socket.pid).name \in Seq(Nat)
  PROVE  ListsUsable(Discovered(fate, files, alive).processes, fate, files, alive)
<1>. DEFINE U == Usable(fate, files)
            n == Cardinality(U)
            c == Candidates(fate, files)
            firsts == Firsts(c)
            k == Cardinality(firsts)
            deduped == DedupByPid(c)
            ends == Endpoints(deduped, alive)
            list == Discovered(fate, files, alive).processes
<1>1. n \in Nat /\ c \in Bijection(1 .. n, U)
  BY CandidatesAre
<1>2. list = InOrder(ends)
  BY DiscoveredFromCandidates
<1>3. /\ DOMAIN c = 1 .. n /\ \A i \in 1 .. n : c[i] \in U
      /\ \A i, j \in 1 .. n : c[i] = c[j] => i = j
      /\ \A u \in U : \E i \in 1 .. n : c[i] = u
  BY <1>1 DEF Bijection, Injection, IsInjective, Surjection
<1>. HIDE DEF c, n, U, list
<1>4. /\ firsts \in SUBSET (1 .. n)
      /\ \E f \in Bijection(1 .. k, firsts) : deduped = [i \in 1 .. k |-> c[f[i]]]
  BY <1>1, <1>3, DedupKeepsFirsts
<1>5. k \in Nat
  BY <1>1, <1>4, PiecesOfAnInterval
<1>6. \A i \in 1 .. n : i \in firsts \/ (i # 1 /\ c[i].socket.pid = c[i - 1].socket.pid)
  BY <1>3 DEF Firsts
<1>7. ends = [i \in DOMAIN deduped |-> EndpointOf(deduped[i], alive)]
  BY DEF Endpoints, EndpointOf
<1>. HIDE DEF firsts, k, deduped, ends
<1>8. PICK f \in Bijection(1 .. k, firsts) : deduped = [i \in 1 .. k |-> c[f[i]]]
  BY <1>4
<1>9. /\ \A i \in 1 .. k : f[i] \in firsts /\ f[i] \in 1 .. n
      /\ \A i, j \in 1 .. k : f[i] = f[j] => i = j
      /\ \A x \in firsts : \E i \in 1 .. k : f[i] = x
  BY <1>4, <1>8 DEF Bijection, Injection, IsInjective, Surjection
<1>10. ends = [i \in 1 .. k |-> EndpointOf(c[f[i]], alive)]
  BY <1>7, <1>8
<1>11. \A u \in U : u.socket.pid \in Nat
  <2>1. ASSUME NEW u \in U PROVE u.socket.pid \in Nat
    <3>1. PICK s \in DOMAIN fate : u = CandidateOf(s, fate, files)
      BY DEF U, Usable
    <3>. QED  BY <3>1, CandidateIs DEF Filed
  <2>. QED  BY <2>1
<1>12. /\ DOMAIN ends = 1 .. k
       /\ \A i \in 1 .. k : ends[i].name \in Seq(Nat) /\ ends[i].pid \in Nat
  BY <1>3, <1>9, <1>10, <1>11 DEF EndpointOf, U
<1>13. PICK g \in Bijection(1 .. k, 1 .. k) :
         /\ list = [i \in 1 .. k |-> ends[g[i]]]
         /\ \A i, j \in 1 .. k : i < j => ~NameBefore(ends[g[j]].name, ends[g[i]].name)
  BY <1>2, <1>5, <1>12, InOrderSorts
<1>14. /\ \A i \in 1 .. k : g[i] \in 1 .. k
       /\ \A i, j \in 1 .. k : g[i] = g[j] => i = j
       /\ \A x \in 1 .. k : \E i \in 1 .. k : g[i] = x
  BY <1>13 DEF Bijection, Injection, IsInjective, Surjection
<1>. DEFINE h == [i \in 1 .. k |-> c[f[g[i]]]]
<1>15. h \in Injection(1 .. k, U)
  <2>1. h \in [1 .. k -> U]
    BY <1>3, <1>9, <1>14
  <2>2. ASSUME NEW i \in 1 .. k, NEW j \in 1 .. k, h[i] = h[j] PROVE i = j
    <3>1. g[i] \in 1 .. k /\ g[j] \in 1 .. k
      BY <1>14
    <3>2. f[g[i]] \in 1 .. n /\ f[g[j]] \in 1 .. n /\ c[f[g[i]]] = c[f[g[j]]]
      BY <1>9, <2>2, <3>1
    <3>3. f[g[i]] = f[g[j]]
      BY <1>3, <3>2
    <3>4. g[i] = g[j]
      BY <1>9, <3>1, <3>3
    <3>. QED  BY <1>14, <3>4
  <2>. HIDE DEF h
  <2>. QED  BY <2>1, <2>2 DEF Injection, IsInjective
<1>16. list = [i \in 1 .. k |-> EndpointOf(h[i], alive)]
  BY <1>10, <1>13, <1>14
<1>17. ASSUME NEW u \in U, Alone(u, fate, files) PROVE \E i \in 1 .. k : h[i] = u
  <2>1. PICK j \in 1 .. n : c[j] = u
    BY <1>3
  <2>2. j \in firsts
    <3>1. CASE j # 1 /\ c[j].socket.pid = c[j - 1].socket.pid
      <4>1. j - 1 \in 1 .. n /\ j - 1 # j
        BY <1>1, <3>1
      <4>2. c[j - 1] = u
        BY <1>3, <1>17, <2>1, <3>1, <4>1 DEF Alone, U
      <4>. QED  BY <1>3, <2>1, <4>1, <4>2
    <3>. QED  BY <1>6, <3>1
  <2>3. PICK x \in 1 .. k : f[x] = j
    BY <1>9, <2>2
  <2>4. PICK i \in 1 .. k : g[i] = x
    BY <1>14
  <2>. QED  BY <2>1, <2>3, <2>4
<1>18. \A i, j \in 1 .. k : i < j => ~NameBefore(list[j].name, list[i].name)
  BY <1>13
<1>. HIDE DEF h
<1>. QED  BY <1>5, <1>15, <1>16, <1>17, <1>18 DEF ListsUsable, U, list

----------------------------------------------------------------------------
(* What discovery makes of each socket.                                    *)

\* The fates of sockets looked at one after another: each by some of the processes
\* seen, those that were listed and are still there among them.
Taken(fate, uid, sys, ps, seen) ==
  \A s \in DOMAIN fate : \E then \in SUBSET seen :
    /\ OnePerPid(then) /\ sys \cap ps \subseteq then
    /\ fate[s] = SocketFate(uid, s, sys, then)

\* The sockets are finitely many files; the processes listed are told apart, and while
\* one is there nobody else is seen with its pid.
Scanned(fate, uid, sys, ps, seen) ==
  /\ Filed(DOMAIN fate) /\ IsFiniteSet(DOMAIN fate)
  /\ OnePerPid(sys) /\ \A p \in sys : p.pid \in Nat /\ p.name \in Seq(Nat)
  /\ Taken(fate, uid, sys, ps, seen)
  /\ \A p \in sys \cap ps, q \in seen : q.pid = p.pid => q = p

\* What becomes of a socket, by the processes there were when it was looked at.
LEMMA FatesAre ==
  ASSUME NEW uid, NEW s, NEW sys, NEW ps
  PROVE  SocketFate(uid, s, sys, ps) =
           IF ~s.named THEN "other"
           ELSE IF WithPid(sys, s.pid) = {} THEN "stale"
           ELSE IF uid # Root /\ ProcessOf(sys, s.pid).uid # uid THEN "foreign"
           ELSE IF s.long THEN "too_long"
           ELSE IF StartKeys(ps, s.pid) = {} THEN "unverified"
           ELSE IF s.key \in StartKeys(ps, s.pid) THEN "verified" ELSE "mismatched"
BY Zenon DEF SocketFate

\* A pid finds the one process that has it.
LEMMA FirstOfPid ==
  ASSUME NEW sys, OnePerPid(sys), NEW p \in sys
  PROVE  ProcessOf(sys, p.pid) = p /\ WithPid(sys, p.pid) = {p}
BY DEF ProcessOf, WithPid, OnePerPid

\* The start times of a pid are that of the process that has it, if one has.
LEMMA StartOfPid ==
  ASSUME NEW ps, OnePerPid(ps)
  PROVE  /\ \A p \in ps : StartKeys(ps, p.pid) = {p.start}
         /\ \A pid : StartKeys(ps, pid) = {} <=> WithPid(ps, pid) = {}
         /\ \A s : s.key \in StartKeys(ps, s.pid) <=> Listening(ps, s) # {}
BY DEF StartKeys, WithPid, OnePerPid, Listening

\* What is usable has the name of a diagnostic socket and a process of ours that was
\* listed with its pid; it was made by a process that was seen, or that process has
\* ended; and by the process listed if that is still there.
LEMMA UsableIs ==
  ASSUME NEW fate, NEW files, NEW uid, NEW sys, NEW ps, NEW seen,
         Scanned(fate, uid, sys, ps, seen), NEW u \in Usable(fate, files)
  PROVE  /\ u.socket \in DOMAIN fate /\ u.socket.named /\ ~u.socket.long
         /\ u = CandidateOf(u.socket, fate, files)
         /\ u.verified \in BOOLEAN
         /\ ProcessOf(sys, u.socket.pid) \in WithPid(sys, u.socket.pid)
         /\ uid = Root \/ ProcessOf(sys, u.socket.pid).uid = uid
         /\ u.verified => Listening(seen, u.socket) # {}
         /\ ~u.verified => ProcessOf(sys, u.socket.pid) \notin ps
         /\ \A p \in sys \cap ps :
              p.pid = u.socket.pid => u.verified /\ u.socket.key = p.start
<1>1. PICK s \in DOMAIN fate : /\ fate[s] \in {"verified", "unverified"}
                               /\ u = CandidateOf(s, fate, files)
  BY DEF Usable
<1>2. u.socket = s /\ u.verified \in BOOLEAN /\ (u.verified <=> fate[s] = "verified")
  BY <1>1, CandidateIs DEF Scanned
<1>3. PICK then \in SUBSET seen : /\ OnePerPid(then) /\ sys \cap ps \subseteq then
                                  /\ fate[s] = SocketFate(uid, s, sys, then)
  BY <1>1 DEF Scanned, Taken
<1>4. /\ s.named /\ WithPid(sys, s.pid) # {} /\ ~(uid # Root /\ ProcessOf(sys, s.pid).uid # uid)
      /\ ~s.long
      /\ \/ fate[s] = "unverified" /\ StartKeys(then, s.pid) = {}
         \/ fate[s] = "verified" /\ s.key \in StartKeys(then, s.pid)
  <2>1. \A x \in {"verified", "unverified"} :
          x # "other" /\ x # "stale" /\ x # "foreign" /\ x # "too_long" /\ x # "mismatched"
    OBVIOUS
  <2>2. "verified" # "unverified"
    OBVIOUS
  <2>. QED  BY <1>1, <1>3, <2>1, <2>2, FatesAre, Zenon
<1>5. ProcessOf(sys, s.pid) \in WithPid(sys, s.pid)
  BY <1>4 DEF ProcessOf, WithPid
<1>6. u.verified => Listening(seen, s) # {}
  <2>1. u.verified => s.key \in StartKeys(then, s.pid)
    BY <1>2, <1>4
  <2>. QED  BY <2>1 DEF StartKeys, WithPid, Listening
<1>7. ASSUME ~u.verified PROVE ProcessOf(sys, s.pid) \notin ps
  <2>1. WithPid(then, s.pid) = {}
    BY <1>2, <1>3, <1>4, <1>7, StartOfPid
  <2>. QED  BY <1>3, <1>5, <2>1 DEF WithPid
<1>8. ASSUME NEW p \in sys \cap ps, p.pid = s.pid PROVE u.verified /\ s.key = p.start
  <2>1. StartKeys(then, s.pid) = {p.start}
    BY <1>3, <1>8, StartOfPid
  <2>. QED  BY <1>2, <1>4, <2>1
<1>. QED  BY <1>1, <1>2, <1>4, <1>5, <1>6, <1>7, <1>8

\* The own socket of a process of ours that was listed and is still there is verified.
LEMMA OwnIsVerified ==
  ASSUME NEW fate, NEW uid, NEW sys, NEW ps, NEW seen, Scanned(fate, uid, sys, ps, seen),
         NEW p \in sys \cap ps, uid \in {Root, p.uid}, NEW s \in DOMAIN fate,
         s.named, ~s.long, s.pid = p.pid, s.key = p.start
  PROVE  fate[s] = "verified"
<1>1. PICK then \in SUBSET seen : /\ OnePerPid(then) /\ sys \cap ps \subseteq then
                                  /\ fate[s] = SocketFate(uid, s, sys, then)
  BY DEF Scanned, Taken
<1>2. StartKeys(then, s.pid) = {p.start}
  BY <1>1, StartOfPid
<1>3. ProcessOf(sys, s.pid) = p /\ WithPid(sys, s.pid) = {p}
  BY FirstOfPid DEF Scanned
<1>4. /\ ~(uid # Root /\ ProcessOf(sys, s.pid).uid # uid) /\ WithPid(sys, s.pid) # {}
      /\ StartKeys(then, s.pid) # {} /\ s.key \in StartKeys(then, s.pid)
  BY <1>2, <1>3
<1>. QED  BY <1>1, <1>4, FatesAre, Zenon

\* A pid has one usable socket at most while the process listed with it is there.
LEMMA OneUsable ==
  ASSUME NEW fate, NEW files, NEW uid, NEW sys, NEW ps, NEW seen,
         Scanned(fate, uid, sys, ps, seen), NEW p \in sys \cap ps,
         NEW u \in Usable(fate, files), NEW v \in Usable(fate, files),
         u.socket.pid = p.pid, v.socket.pid = p.pid
  PROVE  u = v
<1>1. /\ u.socket \in DOMAIN fate /\ u.socket.named /\ u = CandidateOf(u.socket, fate, files)
      /\ u.socket.key = p.start
  BY UsableIs
<1>2. /\ v.socket \in DOMAIN fate /\ v.socket.named /\ v = CandidateOf(v.socket, fate, files)
      /\ v.socket.key = p.start
  BY UsableIs
<1>3. u.socket = v.socket
  BY <1>1, <1>2 DEF Scanned, Filed
<1>. QED  BY <1>1, <1>2, <1>3

\* Discovery lists what is usable.
LEMMA DiscoverLists ==
  ASSUME NEW fate, NEW files, NEW uid, NEW sys, NEW ps, NEW seen,
         Scanned(fate, uid, sys, ps, seen)
  PROVE  ListsUsable(Discovered(fate, files, sys).processes, fate, files, sys)
<1>1. ASSUME NEW u \in Usable(fate, files) PROVE ProcessOf(sys, u.socket.pid).name \in Seq(Nat)
  <2>1. ProcessOf(sys, u.socket.pid) \in WithPid(sys, u.socket.pid)
    BY UsableIs
  <2>. QED  BY <2>1 DEF WithPid, Scanned
<1>. QED  BY <1>1, DiscoveredLists DEF Scanned

----------------------------------------------------------------------------
(* What a list has to be, for the processes there were and are.            *)

\* A process of ours that was there all along is listed once, under its own socket;
\* ss are the sockets that were.
OursListed(found_, uid, ss, sys, ps) ==
  LET listed == found_.processes
      under(p) == {i \in DOMAIN listed : listed[i].pid = p.pid}
      own(p) == {s \in ss : s.named /\ ~s.long /\ Listening(ps, s) = {p}}
  IN \A p \in ps \cap sys : uid \in {Root, p.uid} /\ own(p) # {} =>
       \E i \in DOMAIN listed : under(p) = {i} /\ listed[i].socket \in own(p)

\* What is listed was made by a process that was seen, or the process listed has ended.
ListedAreThere(found_, sys, ps, seen) ==
  LET listed == found_.processes
  IN \A i \in DOMAIN listed :
       IF listed[i].start_key_verified THEN Listening(seen, listed[i].socket) # {}
       ELSE WithPid(sys \ ps, listed[i].pid) # {}

\* Another user's process is listed only if it took over the pid of one of ours.
OthersNotListed(found_, uid, sys, ps, seen) ==
  LET listed == found_.processes
  IN \A q \in seen :
       ~(uid \in {Root, q.uid}) /\ {i \in DOMAIN listed : listed[i].pid = q.pid} # {} =>
         \E p \in sys \ ps : p.pid = q.pid /\ uid \in {Root, p.uid}

ListedInOrder(found_) ==
  LET listed == found_.processes
  IN \A i, j \in DOMAIN listed : i < j => ~NameBefore(listed[j].name, listed[i].name)

\* What discovery promises of its list.
LEMMA ListedIsRight ==
  ASSUME NEW fate, NEW files, NEW uid, NEW sys, NEW ps, NEW seen,
         Scanned(fate, uid, sys, ps, seen), NEW ss \in SUBSET DOMAIN fate
  PROVE  LET found_ == Discovered(fate, files, sys)
         IN  /\ OursListed(found_, uid, ss, sys, ps)
             /\ ListedAreThere(found_, sys, ps, seen)
             /\ OthersNotListed(found_, uid, sys, ps, seen)
             /\ ListedInOrder(found_)
<1>. DEFINE result == Discovered(fate, files, sys)
            U == Usable(fate, files)
            listed == result.processes
<1>0. ListsUsable(listed, fate, files, sys)
  BY DiscoverLists
<1>. HIDE DEF result
<1>1. PICK k \in Nat : \E h \in Injection(1 .. k, U) :
        /\ listed = [i \in 1 .. k |-> EndpointOf(h[i], sys)]
        /\ \A u \in U : Alone(u, fate, files) => \E i \in 1 .. k : h[i] = u
        /\ \A i, j \in 1 .. k : i < j => ~NameBefore(listed[j].name, listed[i].name)
  <2>. HIDE DEF listed
  <2>. QED  BY <1>0 DEF ListsUsable
<1>2. PICK h \in Injection(1 .. k, U) :
        /\ listed = [i \in 1 .. k |-> EndpointOf(h[i], sys)]
        /\ \A u \in U : Alone(u, fate, files) => \E i \in 1 .. k : h[i] = u
        /\ \A i, j \in 1 .. k : i < j => ~NameBefore(listed[j].name, listed[i].name)
  <2>. HIDE DEF U, listed
  <2>. QED  BY <1>1
<1>3. ASSUME NEW u \in U
      PROVE  /\ ProcessOf(sys, u.socket.pid) \in sys
             /\ ProcessOf(sys, u.socket.pid).pid = u.socket.pid
             /\ uid = Root \/ ProcessOf(sys, u.socket.pid).uid = uid
             /\ u.verified => Listening(seen, u.socket) # {}
             /\ ~u.verified => ProcessOf(sys, u.socket.pid) \notin ps
  <2>. HIDE DEF listed
  <2>1. /\ ProcessOf(sys, u.socket.pid) \in WithPid(sys, u.socket.pid)
        /\ uid = Root \/ ProcessOf(sys, u.socket.pid).uid = uid
        /\ u.verified => Listening(seen, u.socket) # {}
        /\ ~u.verified => ProcessOf(sys, u.socket.pid) \notin ps
    BY UsableIs
  <2>. QED  BY <2>1 DEF WithPid
<1>. HIDE DEF listed
<1>4. /\ DOMAIN listed = 1 .. k
      /\ \A i \in 1 .. k : /\ h[i] \in U /\ listed[i].pid = h[i].socket.pid
                           /\ listed[i].socket = h[i].socket
      /\ \A i, j \in 1 .. k : h[i] = h[j] => i = j
  <2>. HIDE DEF U
  <2>. QED  BY <1>2 DEF EndpointOf, Injection, IsInjective
<1>5. \A i \in 1 .. k : listed[i].start_key_verified = h[i].verified
  BY <1>2, Zenon DEF EndpointOf
<1>6. ListedAreThere(result, sys, ps, seen)
  <2>1. ASSUME NEW i \in 1 .. k
        PROVE  IF listed[i].start_key_verified THEN Listening(seen, listed[i].socket) # {}
               ELSE WithPid(sys \ ps, listed[i].pid) # {}
    <3>1. h[i] \in U /\ listed[i].pid = h[i].socket.pid /\ listed[i].socket = h[i].socket
      BY <1>4
    <3>2. listed[i].start_key_verified = h[i].verified
      BY <1>5
    <3>. HIDE DEF U
    <3>3. CASE h[i].verified
      <4>1. Listening(seen, h[i].socket) # {}
        BY <1>3, <3>1, <3>3
      <4>. QED  BY <3>1, <3>2, <3>3, <4>1, Zenon
    <3>4. CASE ~h[i].verified
      <4>1. WithPid(sys \ ps, h[i].socket.pid) # {}
        BY <1>3, <3>1, <3>4 DEF WithPid
      <4>. QED  BY <3>1, <3>2, <3>4, <4>1, Zenon
    <3>. QED  BY <3>3, <3>4
  <2>. QED  BY <1>4, <2>1, Zenon DEF ListedAreThere, listed
<1>7. OthersNotListed(result, uid, sys, ps, seen)
  <2>1. ASSUME NEW q \in seen, ~(uid \in {Root, q.uid}), NEW i \in 1 .. k, listed[i].pid = q.pid
        PROVE  \E p \in sys \ ps : p.pid = q.pid /\ uid \in {Root, p.uid}
    <3>. DEFINE p == ProcessOf(sys, q.pid)
    <3>1. h[i] \in U /\ h[i].socket.pid = q.pid
      BY <1>4, <2>1
    <3>. HIDE DEF U
    <3>2. p \in sys /\ p.pid = q.pid /\ uid \in {Root, p.uid}
      BY <1>3, <3>1
    <3>. HIDE DEF p
    <3>3. p \notin ps
      BY <2>1, <3>2 DEF Scanned
    <3>. QED  BY <3>2, <3>3
  <2>. HIDE DEF U
  <2>. QED  BY <1>4, <2>1 DEF OthersNotListed, listed
<1>8. ListedInOrder(result)
  BY <1>2, <1>4 DEF ListedInOrder, listed
<1>9. OursListed(result, uid, ss, sys, ps)
  <2>. DEFINE own(p) == {s \in ss : s.named /\ ~s.long /\ Listening(ps, s) = {p}}
              under(p) == {i \in DOMAIN listed : listed[i].pid = p.pid}
  <2>1. ASSUME NEW p \in ps \cap sys, uid \in {Root, p.uid}, own(p) # {}
        PROVE  \E i \in DOMAIN listed : under(p) = {i} /\ listed[i].socket \in own(p)
    <3>1. PICK s \in ss : s.named /\ ~s.long /\ Listening(ps, s) = {p} /\ s \in own(p)
      BY <2>1
    <3>2. s.pid = p.pid /\ s.key = p.start /\ s \in DOMAIN fate
      BY <3>1 DEF Listening
    <3>3. fate[s] = "verified"
      BY <2>1, <3>1, <3>2, OwnIsVerified
    <3>. DEFINE u == CandidateOf(s, fate, files)
    <3>4. u \in U /\ u.socket = s
      BY <3>2, <3>3, CandidateIs DEF Usable, Scanned
    <3>. HIDE DEF u
    <3>5. ASSUME NEW v \in U, v.socket.pid = s.pid PROVE v = u
      BY <3>2, <3>4, <3>5, OneUsable
    <3>6. Alone(u, fate, files)
      BY <3>4, <3>5 DEF Alone
    <3>. HIDE DEF U
    <3>7. PICK i \in 1 .. k : h[i] = u
      BY <1>2, <3>4, <3>6
    <3>8. listed[i].pid = p.pid /\ listed[i].socket = s
      BY <1>4, <3>2, <3>4, <3>7
    <3>9. ASSUME NEW j \in 1 .. k, listed[j].pid = p.pid PROVE j = i
      <4>1. h[j] \in U /\ h[j].socket.pid = s.pid
        BY <1>4, <3>2, <3>9
      <4>2. h[j] = u
        BY <3>5, <4>1
      <4>. QED  BY <1>4, <3>7, <4>2
    <3>10. under(p) = {i}
      BY <1>4, <3>8, <3>9
    <3>. HIDE DEF own
    <3>. QED  BY <1>4, <3>1, <3>8, <3>10
  <2>. QED  BY <2>1, Zenon DEF OursListed, listed
<1>. QED  BY <1>6, <1>7, <1>8, <1>9 DEF result

\* The sockets of one fate.
OfFate(fate, kind) == {s \in DOMAIN fate : fate[s] = kind}

\* The sockets of two fates are as many as those of each, added.
LEMMA FatesAddUp ==
  ASSUME NEW fate, IsFiniteSet(DOMAIN fate), NEW a, NEW b, a # b,
         NEW S \in SUBSET DOMAIN fate, S \cap OfFate(fate, b) = {}, OfFate(fate, a) \subseteq S
  PROVE  /\ Cardinality(S) \in Nat /\ Cardinality(OfFate(fate, b)) \in Nat
         /\ Cardinality(S \cup OfFate(fate, b)) = Cardinality(S) + Cardinality(OfFate(fate, b))
<1>. DEFINE T == OfFate(fate, b)
            D == DOMAIN fate
<1>1. T \in SUBSET D
  BY DEF OfFate
<1>. HIDE DEF T, D
<1>2. IsFiniteSet(S) /\ IsFiniteSet(T)
  BY <1>1, FS_Subset DEF D
<1>3. Cardinality(S \cap T) = 0
  BY FS_EmptySet DEF T
<1>4. Cardinality(S) \in Nat /\ Cardinality(T) \in Nat
  BY <1>2, FS_CardinalityType
<1>5. Cardinality(S \cup T) = Cardinality(S) + Cardinality(T) - Cardinality(S \cap T)
  BY <1>2, FS_Union
<1>. QED  BY <1>3, <1>4, <1>5 DEF T

\* The sockets passed over are those of the other fates.
LEMMA SkippedAre ==
  ASSUME NEW fate, NEW files, NEW sys
  PROVE  Skipped(Discovered(fate, files, sys)) =
           Cardinality(OfFate(fate, "stale")) + Cardinality(OfFate(fate, "mismatched"))
             + Cardinality(OfFate(fate, "foreign")) + Cardinality(OfFate(fate, "too_long"))
BY DEF Skipped, Discovered, OfFate

\* The sockets with the name of a runtime's are as many as those of their five fates.
LEMMA NamedAddUp ==
  ASSUME NEW fate, IsFiniteSet(DOMAIN fate), NEW named,
         named = {s \in DOMAIN fate : fate[s] \in {"stale", "mismatched", "foreign", "too_long",
                                                   "verified"}}
  PROVE  Cardinality(named) =
           Cardinality(OfFate(fate, "verified")) + Cardinality(OfFate(fate, "stale"))
             + Cardinality(OfFate(fate, "mismatched")) + Cardinality(OfFate(fate, "foreign"))
             + Cardinality(OfFate(fate, "too_long"))
<1>. DEFINE V == OfFate(fate, "verified")
            A == OfFate(fate, "stale")
            B == OfFate(fate, "mismatched")
            C == OfFate(fate, "foreign")
            D == OfFate(fate, "too_long")
<1>1. /\ V \in SUBSET DOMAIN fate /\ V \cup A \in SUBSET DOMAIN fate
      /\ V \cup A \cup B \in SUBSET DOMAIN fate /\ V \cup A \cup B \cup C \in SUBSET DOMAIN fate
      /\ V \cap A = {} /\ (V \cup A) \cap B = {} /\ (V \cup A \cup B) \cap C = {}
      /\ (V \cup A \cup B \cup C) \cap D = {}
      /\ V \subseteq V \cup A /\ V \subseteq V \cup A \cup B /\ V \subseteq V \cup A \cup B \cup C
  BY DEF OfFate
<1>2. named = V \cup A \cup B \cup C \cup D
  BY DEF OfFate
<1>3. /\ Cardinality(V) \in Nat /\ Cardinality(A) \in Nat
      /\ Cardinality(V \cup A) = Cardinality(V) + Cardinality(A)
  BY <1>1, FatesAddUp
<1>4. /\ Cardinality(V \cup A) \in Nat /\ Cardinality(B) \in Nat
      /\ Cardinality(V \cup A \cup B) = Cardinality(V \cup A) + Cardinality(B)
  <2>. DEFINE S == V \cup A
  <2>1. S \in SUBSET DOMAIN fate /\ S \cap B = {} /\ V \subseteq S
    BY <1>1
  <2>. HIDE DEF S
  <2>2. /\ Cardinality(S) \in Nat /\ Cardinality(B) \in Nat
        /\ Cardinality(S \cup B) = Cardinality(S) + Cardinality(B)
    BY <2>1, FatesAddUp
  <2>. QED  BY <2>2 DEF S
<1>5. /\ Cardinality(V \cup A \cup B) \in Nat /\ Cardinality(C) \in Nat
      /\ Cardinality(V \cup A \cup B \cup C) = Cardinality(V \cup A \cup B) + Cardinality(C)
  <2>. DEFINE S == V \cup A \cup B
  <2>1. S \in SUBSET DOMAIN fate /\ S \cap C = {} /\ V \subseteq S
    BY <1>1
  <2>. HIDE DEF S
  <2>2. /\ Cardinality(S) \in Nat /\ Cardinality(C) \in Nat
        /\ Cardinality(S \cup C) = Cardinality(S) + Cardinality(C)
    BY <2>1, FatesAddUp
  <2>. QED  BY <2>2 DEF S
<1>6. /\ Cardinality(V \cup A \cup B \cup C) \in Nat /\ Cardinality(D) \in Nat
      /\ Cardinality(V \cup A \cup B \cup C \cup D)
           = Cardinality(V \cup A \cup B \cup C) + Cardinality(D)
  <2>. DEFINE S == V \cup A \cup B \cup C
  <2>1. S \in SUBSET DOMAIN fate /\ S \cap D = {} /\ V \subseteq S
    BY <1>1
  <2>. HIDE DEF S
  <2>2. /\ Cardinality(S) \in Nat /\ Cardinality(D) \in Nat
        /\ Cardinality(S \cup D) = Cardinality(S) + Cardinality(D)
    BY <2>1, FatesAddUp
  <2>. QED  BY <2>2 DEF S
<1>. HIDE DEF V, A, B, C, D
<1>. QED  BY <1>2, <1>3, <1>4, <1>5, <1>6 DEF V, A, B, C, D

\* If none of those listed has ended, every socket looked at with the name of one is
\* listed or counted.
LEMMA ListedAddsUp ==
  ASSUME NEW fate, NEW files, NEW uid, NEW sys, NEW ps, NEW seen,
         Scanned(fate, uid, sys, ps, seen), sys \subseteq ps
  PROVE  LET found_ == Discovered(fate, files, sys)
         IN  Len(found_.processes) + Skipped(found_) = Cardinality({s \in DOMAIN fate : s.named})
<1>. DEFINE result == Discovered(fate, files, sys)
            U == Usable(fate, files)
            V == OfFate(fate, "verified")
            ss == DOMAIN fate
            named == {s \in ss : s.named}
            listed == result.processes
<1>0. ListsUsable(listed, fate, files, sys)
  BY DiscoverLists
<1>1. IsFiniteSet(ss)
  BY DEF Scanned
<1>2. \A s \in ss : /\ fate[s] \in {"other", "stale", "mismatched", "foreign", "too_long",
                                    "verified", "unverified"}
                    /\ fate[s] = "other" <=> ~s.named
  <2>1. ASSUME NEW s \in ss
        PROVE  /\ fate[s] \in {"other", "stale", "mismatched", "foreign", "too_long",
                               "verified", "unverified"}
               /\ fate[s] = "other" <=> ~s.named
    <3>1. PICK then : fate[s] = SocketFate(uid, s, sys, then)
      BY DEF Scanned, Taken
    <3>. QED  BY <3>1, FatesAre
  <2>. QED  BY <2>1
<1>3. ASSUME NEW u \in U
      PROVE  u.verified /\ \E p \in sys \cap ps : p.pid = u.socket.pid
  <2>1. ProcessOf(sys, u.socket.pid) \in WithPid(sys, u.socket.pid)
    BY UsableIs
  <2>2. PICK p \in sys \cap ps : p.pid = u.socket.pid
    BY <2>1 DEF WithPid
  <2>3. u.verified
    BY <2>2, UsableIs
  <2>. QED  BY <2>2, <2>3
<1>4. ASSUME NEW u \in U PROVE Alone(u, fate, files)
  <2>1. PICK p \in sys \cap ps : p.pid = u.socket.pid
    BY <1>3
  <2>2. ASSUME NEW v \in U, v.socket.pid = u.socket.pid PROVE v = u
    BY <2>1, <2>2, OneUsable
  <2>. QED  BY <2>2 DEF Alone
<1>5. U = {CandidateOf(s, fate, files) : s \in {t \in ss : fate[t] \in {"verified", "unverified"}}}
  BY DEF Usable
<1>c. \A s \in ss : LET u == CandidateOf(s, fate, files)
                    IN  u.socket = s /\ (u.verified <=> fate[s] = "verified")
  BY CandidateIs DEF Scanned
<1>. HIDE DEF U, listed, result, ss
<1>6. \A s \in ss : fate[s] # "unverified"
  <2>1. ASSUME NEW s \in ss, fate[s] = "unverified" PROVE FALSE
    <3>1. CandidateOf(s, fate, files) \in U
      BY <1>5, <2>1
    <3>2. CandidateOf(s, fate, files).verified
      BY <1>3, <3>1
    <3>. QED  BY <1>c, <2>1, <3>2
  <2>. QED  BY <2>1
<1>7. PICK k \in Nat : \E h \in Injection(1 .. k, U) :
        /\ listed = [i \in 1 .. k |-> EndpointOf(h[i], sys)]
        /\ \A u \in U : Alone(u, fate, files) => \E i \in 1 .. k : h[i] = u
  BY <1>0 DEF ListsUsable, U
<1>8. PICK h \in Injection(1 .. k, U) :
        /\ listed = [i \in 1 .. k |-> EndpointOf(h[i], sys)]
        /\ \A u \in U : Alone(u, fate, files) => \E i \in 1 .. k : h[i] = u
  BY <1>7
<1>9. Len(listed) = k
  BY <1>8
<1>10. /\ V = {s \in ss : fate[s] = "verified"}
       /\ V \in SUBSET ss
  BY DEF OfFate, ss
<1>11. ExistsBijection(1 .. k, V)
  <2>. DEFINE f == [i \in 1 .. k |-> h[i].socket]
  <2>1. \A i \in 1 .. k : h[i] \in U /\ \A j \in 1 .. k : h[i] = h[j] => i = j
    BY <1>8 DEF Injection, IsInjective
  <2>2. ASSUME NEW u \in U
        PROVE  u.socket \in V /\ u = CandidateOf(u.socket, fate, files)
    <3>1. PICK s \in ss : /\ fate[s] \in {"verified", "unverified"}
                          /\ u = CandidateOf(s, fate, files)
      BY <1>5
    <3>2. u.socket = s
      BY <1>c, <3>1
    <3>. QED  BY <1>6, <1>10, <3>1, <3>2
  <2>. HIDE DEF V
  <2>3. f \in [1 .. k -> V]
    BY <2>1, <2>2
  <2>4. ASSUME NEW i \in 1 .. k, NEW j \in 1 .. k, f[i] = f[j] PROVE i = j
    <3>1. h[i] \in U /\ h[j] \in U /\ h[i].socket = h[j].socket
      BY <2>1, <2>4
    <3>2. h[i] = h[j]
      BY <2>2, <3>1
    <3>. QED  BY <2>1, <3>2
  <2>5. ASSUME NEW s \in V PROVE \E i \in 1 .. k : f[i] = s
    <3>. DEFINE u == CandidateOf(s, fate, files)
    <3>1. u \in U /\ u.socket = s
      BY <1>5, <1>10, <1>c
    <3>. HIDE DEF u
    <3>2. PICK i \in 1 .. k : h[i] = u
      BY <1>4, <1>8, <3>1
    <3>. QED  BY <3>1, <3>2
  <2>. HIDE DEF f
  <2>6. f \in Bijection(1 .. k, V)
    BY <2>3, <2>4, <2>5 DEF Bijection, Injection, IsInjective, Surjection
  <2>. QED  BY <2>6 DEF ExistsBijection
<1>12. Cardinality(V) = k
  <2>1. IsFiniteSet(1 .. k) /\ Cardinality(1 .. k) = k
    BY PiecesOfAnInterval
  <2>. HIDE DEF V
  <2>. QED  BY <1>11, <2>1, FS_Bijection
<1>13. named = {s \in DOMAIN fate : fate[s] \in {"stale", "mismatched", "foreign", "too_long",
                                                 "verified"}}
  BY <1>2, <1>6 DEF ss
<1>14. Skipped(result) = Cardinality(OfFate(fate, "stale")) + Cardinality(OfFate(fate, "mismatched"))
             + Cardinality(OfFate(fate, "foreign")) + Cardinality(OfFate(fate, "too_long"))
  BY SkippedAre DEF result
<1>15. /\ Cardinality(OfFate(fate, "stale")) \in Nat /\ Cardinality(OfFate(fate, "mismatched")) \in Nat
       /\ Cardinality(OfFate(fate, "foreign")) \in Nat /\ Cardinality(OfFate(fate, "too_long")) \in Nat
  <2>1. ASSUME NEW kind PROVE Cardinality(OfFate(fate, kind)) \in Nat
    <3>. DEFINE D == DOMAIN fate
    <3>1. OfFate(fate, kind) \in SUBSET D /\ IsFiniteSet(D)
      BY <1>1 DEF OfFate, ss
    <3>. HIDE DEF D
    <3>. QED  BY <3>1, FS_Subset, FS_CardinalityType
  <2>. QED  BY <2>1
<1>. HIDE DEF named
<1>16. Cardinality(named) = k + Cardinality(OfFate(fate, "stale"))
             + Cardinality(OfFate(fate, "mismatched")) + Cardinality(OfFate(fate, "foreign"))
             + Cardinality(OfFate(fate, "too_long"))
  BY <1>1, <1>12, <1>13, NamedAddUp DEF ss
<1>17. Len(listed) + Skipped(result) = Cardinality(named)
  BY <1>9, <1>14, <1>15, <1>16
<1>. QED  BY <1>17 DEF listed, result, named, ss

----------------------------------------------------------------------------
(* The inductive invariant.                                                *)

\* The processes and the sockets that have come to be where m is what was found.
Come(m) == m.processes \cup {Arrivals[i].process : i \in 1 .. arrived}
Made(m) == m.sockets \cup {Arrivals[i].socket : i \in 1 .. arrived}

\* All processes, the ones that may still start included, are told apart; at any time
\* no two have one pid.  A process whose info is on the way to the screen is the one
\* that made the socket chosen.
ChosenIs(p) == target[1].socket.pid = p.pid /\ target[1].socket.key = p.start
MachineOf(m) ==
  /\ processes \cup system \cup present \subseteq Come(m)
  /\ sockets \cup directory \cup DOMAIN fates \subseteq Made(m) /\ IsFiniteSet(DOMAIN fates)
  /\ OnePerPid(processes) /\ OnePerPid(system)
  /\ at = "open" => \E p \in Processes(m) : info = ProcessInfo({p}) /\ info.ok /\ ChosenIs(p)
MachineInv == \E m \in Machines : MachineOf(m) /\ arrived \in 0 .. Len(Arrivals)

\* While sockets are looked at: each fate was taken by processes that there have been,
\* those listed and still there among them; nobody else has been there with the pid of
\* one of those; and no socket that was there all along has been passed by.
ScanInv ==
  /\ at \notin {"scan", "killed"} => fates = <<>>
  /\ at = "scan" =>
       /\ processes \subseteq present
       /\ Taken(fates, invocation.uid, system, processes, present)
       /\ \A p \in system \cap processes, q \in present : q.pid = p.pid => q = p
       /\ \A s \in directory \cap sockets : s \in DOMAIN fates \/ Ahead(s)

\* What is listed, shown in the picker and chosen has the pid of its socket, and the
\* picker's selection is in its list.
OwnPid(endpoint) == endpoint.pid = endpoint.socket.pid
Listing(list) == \E k \in Nat : DOMAIN list = 1 .. k /\ \A i \in 1 .. k : OwnPid(list[i])
Picking(pk) ==
  \E k \in Nat : /\ pk = [entries |-> pk.entries, selected |-> pk.selected]
                 /\ pk.entries = [i \in 1 .. k |-> pk.entries[i]]
                 /\ \A i \in 1 .. k : OwnPid(pk.entries[i].process)
                 /\ pk.selected \in 0 .. k
Chosen == \E endpoint : target = <<endpoint>> /\ OwnPid(endpoint)
ListInv ==
  /\ Listing(found.processes) /\ Picking(picker)
  /\ target = <<>> \/ Chosen
  /\ at \in {"attach", "open", "dashboard", "leaving"} => Chosen

\* The rates, in force and wanted, are what the screen showed.
RateInv ==
  /\ acknowledged \in Nat /\ rate \in Nat /\ app \in App
  /\ at \in {"dashboard", "leaving"} => WantedInterval(app) = acknowledged
  /\ at \notin {"dashboard", "leaving", "killed"} => rate = acknowledged

\* A key that was taken for a dashboard that was over ended the thread that took it.
Thread == [state : {"polling", "reading", "gone"}, stop : BOOLEAN]
Ended == {i \in DOMAIN keyboards : keyboards[i].state = "gone"}
KeyInv ==
  /\ typed \in Seq(Keys \cup PickerKeys) /\ channel \in Seq(Keys \cup PickerKeys)
  /\ keyboards \in Seq(Thread)
  /\ stolen \in Nat /\ stolen <= Cardinality(Ended)

\* Where the main thread is when the terminal is whose.
PlaceInv ==
  /\ at \in Places /\ tty \in {"normal", "raw", "gone"} /\ invocation \in Invocations
  /\ at \in {"start", "resolve", "init"} => tty = "normal"
  /\ at \notin {"start", "scan", "resolve", "init", "over", "killed"} => tty # "normal"
  /\ at = "over" => tty # "raw"
  /\ at = "start" \/ (at = "scan" /\ tty = "normal") => invocation.kind # "none"
  /\ at = "resolve" => invocation.kind \in {"pid", "name"}

\* A signal whose handler is not in place has come, unless none has been put there yet.
SignalInv ==
  /\ disposition \in [Signals -> {"default", "caught"}] /\ interrupted \in BOOLEAN
  /\ sent \in [Signals -> Nat]
  /\ \/ ~interrupted /\ \A s \in Signals : disposition[s] = "default"
     \/ \A s \in Signals : disposition[s] = "default" => sent[s] > 0
  /\ at = "killed" =>
       \/ \E s \in Signals : sent[s] > 1
       \/ ~interrupted /\ \A s \in Signals : disposition[s] = "default"

Inv == MachineInv /\ ScanInv /\ ListInv /\ RateInv /\ KeyInv /\ PlaceInv /\ SignalInv

----------------------------------------------------------------------------
(* What the larger steps do.                                               *)

\* A turn of the dashboard: what of the terminal's state it touches.
LEMMA TurnDoes ==
  ASSUME Turn
  PROVE  /\ at = "dashboard" /\ at' \in {"dashboard", "leaving"} /\ channel' \in {<<>>, channel}
         /\ UNCHANGED <<budget, machine, world, keys, choice, info, rate>>
         /\ \/ UNCHANGED <<app, acknowledged>>
            \/ acknowledged' = WantedInterval(app')
<1>. DEFINE handled == Handled(app, channel)
            wanted == WantedInterval(handled)
            trace == StartTracing(Behind, wanted)
            leave(a) == [a EXCEPT !.exit = IF interrupted THEN "Quit" ELSE @]
            turns == /\ channel' = <<>>
             /\ \/ app' = leave(handled) /\ UNCHANGED session
                \/ /\ handled.pending # NoRate
                   /\ app' = leave([handled EXCEPT !.pending = NoRate,
                                      !.interval = IF trace.ok THEN wanted ELSE @,
                                      !.status = IF trace.ok THEN @ ELSE "Failed"])
                   /\ session' = IF trace.ok THEN [on |-> Behind, stream |-> trace.stream]
                                 ELSE NoSessionOpen
             /\ acknowledged' = WantedInterval(app')
             /\ at' = IF app'.exit = "None" THEN "dashboard" ELSE "leaving"
<1>1. /\ at = "dashboard"
      /\ IF tty = "gone" THEN at' = "leaving" /\ UNCHANGED <<app, channel, session, acknowledged>>
         ELSE turns
      /\ UNCHANGED <<budget, machine, world, keys, choice, info, rate>>
  BY Zenon DEF Turn
<1>2. turns => /\ channel' = <<>> /\ acknowledged' = WantedInterval(app')
               /\ at' \in {"dashboard", "leaving"}
  OBVIOUS
<1>. HIDE DEF turns
<1>. QED  BY <1>1, <1>2

\* Who answers on the socket attached to is the process that was chosen.
LEMMA BehindIsChosen ==
  ASSUME NEW ps, Distinct(ps), processes \subseteq ps, Behind # {}
  PROVE  \E p \in processes : Behind = {p} /\ ChosenIs(p)
<1>1. PICK p \in Behind : TRUE
  OBVIOUS
<1>2. p \in processes /\ ChosenIs(p)
  BY <1>1 DEF Behind, Listening, ChosenIs
<1>3. \A q \in Behind : q = p
  BY <1>1 DEF Behind, Listening, Distinct
<1>. QED  BY <1>1, <1>2, <1>3

----------------------------------------------------------------------------
(* The machine.                                                            *)

\* What has come to be is among what may.
LEMMA ComeAre ==
  ASSUME NEW m \in Machines, arrived \in 0 .. Len(Arrivals)
  PROVE  /\ Come(m) \subseteq Processes(m) /\ Made(m) \subseteq Sockets(m)
         /\ Distinct(Come(m)) /\ Filed(Made(m))
<1>1. 1 .. arrived \subseteq DOMAIN Arrivals
  BY TerminalAssumption
<1>2. Come(m) \subseteq Processes(m) /\ Made(m) \subseteq Sockets(m)
  BY <1>1 DEF Come, Made, Processes, Sockets
<1>3. Distinct(Processes(m)) /\ Filed(Sockets(m))
  BY TerminalAssumption
<1>4. Distinct(Come(m))
  <2>. DEFINE T == Processes(m)
              S == Come(m)
  <2>1. S \subseteq T /\ Distinct(T)
    BY <1>2, <1>3
  <2>. HIDE DEF S, T
  <2>2. Distinct(S)
    BY <2>1 DEF Distinct
  <2>. QED  BY <2>2 DEF S
<1>5. Filed(Made(m))
  <2>. DEFINE T == Sockets(m)
              S == Made(m)
  <2>1. S \subseteq T /\ Filed(T)
    BY <1>2, <1>3
  <2>. HIDE DEF S, T
  <2>2. Filed(S)
    BY <2>1 DEF Filed
  <2>. QED  BY <2>2 DEF S
<1>. QED  BY <1>2, <1>4, <1>5

\* What arrives is new: it has not been there since the machine was found.
LEMMA ArrivalIsNew ==
  ASSUME NEW m \in Machines, arrived \in 0 .. Len(Arrivals), Arrive
  PROVE  /\ arrived + 1 \in DOMAIN Arrivals /\ arrived' = arrived + 1
         /\ arrived' \in 0 .. Len(Arrivals)
         /\ New(Arrivals[arrived + 1], Come(m), Made(m))
         /\ Come(m)' = Come(m) \cup {Arrivals[arrived + 1].process}
         /\ Made(m)' = Made(m) \cup {Arrivals[arrived + 1].socket}
<1>. DEFINE n == arrived + 1
<1>1. n \in DOMAIN Arrivals /\ arrived' = n /\ n \in 1 .. Len(Arrivals)
  BY TerminalAssumption DEF Arrive
<1>2. New(Arrivals[n], m.processes \cup {Arrivals[j].process : j \in 1 .. n - 1},
                       m.sockets \cup {Arrivals[j].socket : j \in 1 .. n - 1})
  BY <1>1, TerminalAssumption
<1>3. 1 .. n - 1 = 1 .. arrived /\ 1 .. n = (1 .. arrived) \cup {n}
  OBVIOUS
<1>. HIDE DEF n
<1>4. New(Arrivals[n], Come(m), Made(m))
  BY <1>2, <1>3 DEF Come, Made
<1>5. /\ Come(m)' = m.processes \cup {Arrivals[i].process : i \in 1 .. n}
      /\ Made(m)' = m.sockets \cup {Arrivals[i].socket : i \in 1 .. n}
  BY <1>1 DEF Come, Made
<1>6. /\ Come(m)' = Come(m) \cup {Arrivals[n].process}
      /\ Made(m)' = Made(m) \cup {Arrivals[n].socket}
  BY <1>3, <1>5 DEF Come, Made
<1>. QED  BY <1>1, <1>4, <1>6 DEF n

\* Processes come and go, their sockets with them, and pids are not shared.
LEMMA MachineStep ==
  ASSUME MachineInv, [Next]_vars
  PROVE  MachineInv'
<1>. USE DEF MachineOf
<1>1. PICK m \in Machines : MachineOf(m) /\ arrived \in 0 .. Len(Arrivals)
  BY DEF MachineInv
<1>2. Distinct(Processes(m)) /\ Len(Arrivals) \in Nat /\ DOMAIN Arrivals = 1 .. Len(Arrivals)
  BY TerminalAssumption
<1>3. SUFFICES MachineOf(m)' /\ arrived' \in 0 .. Len(Arrivals)
  BY DEF MachineInv
<1>c. UNCHANGED arrived => UNCHANGED <<Come(m), Made(m)>>
  BY DEF Come, Made
<1>a. ASSUME UNCHANGED <<processes, sockets, arrived, scan>>, at' # "open"
      PROVE  MachineOf(m)' /\ arrived' \in 0 .. Len(Arrivals)
  BY <1>1, <1>a, <1>c DEF scan
<1>b. ASSUME UNCHANGED <<processes, sockets, arrived, scan, at, info, target>>
      PROVE  MachineOf(m)' /\ arrived' \in 0 .. Len(Arrivals)
  BY <1>1, <1>b, <1>c DEF ChosenIs, scan
<1>4. CASE Arrive
  <2>. DEFINE p == Arrivals[arrived + 1].process
              s == Arrivals[arrived + 1].socket
  <2>1. /\ arrived' \in 0 .. Len(Arrivals)
        /\ Come(m)' = Come(m) \cup {p} /\ Made(m)' = Made(m) \cup {s}
    BY <1>1, <1>4, ArrivalIsNew
  <2>2. /\ WithPid(processes, p.pid) = {} /\ processes' = processes \cup {p}
        /\ sockets' = sockets \cup {s} /\ present' \subseteq present \cup {p}
        /\ UNCHANGED <<system, directory, fates, at, info, target>>
    BY <1>4 DEF Arrive, dashboard
  <2>. HIDE DEF p, s
  <2>3. OnePerPid(processes')
    BY <1>1, <2>2 DEF OnePerPid, WithPid
  <2>. QED  BY <1>1, <2>1, <2>2, <2>3 DEF ChosenIs
<1>5. CASE End
  <2>1. /\ processes' \subseteq processes /\ sockets' \in SUBSET sockets
        /\ UNCHANGED <<arrived, scan, at, info, target>>
    BY <1>5 DEF End, choice, dashboard
  <2>. QED  BY <1>1, <1>c, <2>1 DEF ChosenIs, OnePerPid, scan
<1>6. CASE ListProcesses
  BY <1>1, <1>6, <1>c DEF ListProcesses, machine
<1>7. CASE LookAt
  <2>1. PICK s \in directory \cup sockets : DOMAIN fates' = DOMAIN fates \cup {s}
    BY <1>7 DEF LookAt
  <2>2. IsFiniteSet(DOMAIN fates')
    <3>. DEFINE D == DOMAIN fates
                E == DOMAIN fates'
    <3>1. E = D \cup {s} /\ IsFiniteSet(D)
      BY <1>1, <2>1
    <3>. HIDE DEF D, E
    <3>2. IsFiniteSet(E)
      BY <3>1, FS_AddElement
    <3>. QED  BY <3>2 DEF E
  <2>3. UNCHANGED <<processes, sockets, arrived, system, directory, present, at>> /\ at = "scan"
    BY <1>7 DEF LookAt, machine
  <2>. QED  BY <1>1, <1>c, <2>1, <2>2, <2>3
<1>t. CASE ScanEnds
  <2>1. /\ UNCHANGED <<processes, sockets, arrived>>
        /\ system' = {} /\ directory' = {} /\ fates' = <<>> /\ present' = {} /\ at' # "open"
    BY <1>t DEF ScanEnds, machine
  <2>2. DOMAIN fates' = {} /\ IsFiniteSet({})
    BY <2>1, FS_EmptySet
  <2>. QED  BY <1>1, <1>c, <2>1, <2>2 DEF OnePerPid
<1>8. CASE Attach
  <2>1. CASE at' = "open"
    <3>1. ProcessInfo(Behind).ok /\ info' = ProcessInfo(Behind)
      BY <1>8, <2>1 DEF Attach
    <3>2. Behind # {}
      BY <3>1, NobodyIsThere
    <3>3. PICK p \in processes : Behind = {p} /\ ChosenIs(p)
      <4>1. processes \subseteq Processes(m)
        BY <1>1, ComeAre
      <4>. QED  BY <1>2, <3>2, <4>1, BehindIsChosen
    <3>4. UNCHANGED <<processes, sockets, arrived, scan, target>>
      BY <1>8 DEF Attach, machine, choice
    <3>5. p \in Processes(m)
      BY <1>1, <3>3, ComeAre
    <3>. QED  BY <1>1, <1>c, <3>1, <3>3, <3>4, <3>5 DEF ChosenIs, scan
  <2>2. CASE at' # "open"
    BY <1>a, <1>8, <2>2 DEF Attach, machine, choice
  <2>. QED  BY <2>1, <2>2
<1>9. CASE Type \/ HangUp
  BY <1>b, <1>9 DEF Type, HangUp, machine, choice, dashboard
<1>10. ASSUME NEW s \in Signals, Signal(s)
       PROVE  MachineOf(m)' /\ arrived' \in 0 .. Len(Arrivals)
  <2>1. UNCHANGED <<processes, sockets, arrived, scan, info, target>> /\ at' \in {at, "killed"}
    BY <1>10 DEF Signal, machine, choice, dashboard
  <2>. QED  BY <1>a, <1>b, <2>1
<1>11. ASSUME NEW i \in DOMAIN keyboards, KeyboardPolls(i) \/ KeyboardReads(i)
       PROVE  MachineOf(m)' /\ arrived' \in 0 .. Len(Arrivals)
  BY <1>b, <1>11 DEF KeyboardPolls, KeyboardReads, machine, choice, dashboard
<1>12. CASE Resolve
  BY <1>a, <1>12 DEF Resolve, machine
<1>13. CASE InitTerminal \/ Listen \/ Restore
  BY <1>a, <1>13 DEF InitTerminal, Listen, Restore, machine, choice
<1>14. CASE Identify \/ PickerLeaves \/ PickerPolls
  BY <1>a, <1>14 DEF Identify, PickerLeaves, PickerPolls, machine, choice
<1>15. CASE PickerReads
  BY <1>a, <1>15 DEF PickerReads, machine
<1>16. CASE Open
  BY <1>a, <1>16 DEF Open, machine, choice
<1>17. CASE Turn
  BY <1>a, <1>17, TurnDoes DEF machine, choice
<1>18. CASE LeaveDashboard
  BY <1>a, <1>18 DEF LeaveDashboard, machine
<1>19. CASE UNCHANGED vars
  BY <1>b, <1>19 DEF vars, machine, choice, dashboard
<1>. HIDE DEF MachineOf
<1>. QED  BY <1>4, <1>5, <1>6, <1>7, <1>t, <1>8, <1>9, <1>10, <1>11, <1>12, <1>13, <1>14, <1>15,
             <1>16, <1>17, <1>18, <1>19 DEF Next, Main

\* The looks at the sockets, and what happens between them.
LEMMA ScanStep ==
  ASSUME MachineInv, ScanInv, [Next]_vars
  PROVE  ScanInv'
<1>1. PICK m \in Machines : MachineOf(m) /\ arrived \in 0 .. Len(Arrivals)
  BY DEF MachineInv
<1>a. ASSUME UNCHANGED <<processes, sockets, scan, invocation>>, at' \in {at, "killed"}
      PROVE  ScanInv'
  BY <1>a DEF ScanInv, scan, Taken, Ahead
<1>b. ASSUME at \notin {"scan", "killed"}, at' # "scan", UNCHANGED fates
      PROVE  ScanInv'
  BY <1>b DEF ScanInv
<1>2. CASE Arrive
  <2>. DEFINE p == Arrivals[arrived + 1].process
              s == Arrivals[arrived + 1].socket
  <2>1. p \notin Come(m) /\ s \notin Made(m)
    BY <1>1, <1>2, ArrivalIsNew DEF New
  <2>2. /\ WithPid(processes, p.pid) = {} /\ processes' = processes \cup {p}
        /\ sockets' = sockets \cup {s}
        /\ at = "scan" => present' = present \cup {p}
        /\ UNCHANGED <<system, directory, fates, at, invocation>>
    BY <1>2 DEF Arrive
  <2>. HIDE DEF p, s
  <2>3. p \notin system /\ s \notin directory
    BY <1>1, <2>1 DEF MachineOf
  <2>4. CASE at = "scan"
    <3>1. system \cap processes' = system \cap processes /\ directory \cap sockets' = directory \cap sockets
      BY <2>2, <2>3
    <3>2. Taken(fates, invocation.uid, system, processes, present)'
      BY <2>2, <2>4, <3>1 DEF ScanInv, Taken
    <3>3. \A q \in system \cap processes : q.pid # p.pid
      BY <2>2 DEF WithPid
    <3>. QED  BY <2>2, <2>4, <3>1, <3>2, <3>3 DEF ScanInv, Ahead
  <2>5. CASE at # "scan"
    BY <2>2, <2>5 DEF ScanInv
  <2>. QED  BY <2>4, <2>5
<1>3. CASE End
  <2>1. /\ processes' \subseteq processes /\ sockets' \subseteq sockets
        /\ UNCHANGED <<scan, at, invocation>>
    BY <1>3 DEF End, choice
  <2>2. CASE at = "scan"
    <3>1. Taken(fates, invocation.uid, system, processes, present)'
      <4>1. Taken(fates, invocation.uid, system, processes, present)
        BY <2>2 DEF ScanInv
      <4>2. system \cap processes' \subseteq system \cap processes
        BY <2>1
      <4>3. ASSUME NEW t \in DOMAIN fates
            PROVE  \E then \in SUBSET present :
                     /\ OnePerPid(then) /\ system \cap processes' \subseteq then
                     /\ fates[t] = SocketFate(invocation.uid, t, system, then)
        <5>1. PICK then \in SUBSET present :
                /\ OnePerPid(then) /\ system \cap processes \subseteq then
                /\ fates[t] = SocketFate(invocation.uid, t, system, then)
          BY <4>1 DEF Taken
        <5>. QED  BY <4>2, <5>1
      <4>. QED  BY <2>1, <4>3 DEF Taken, scan
    <3>. QED  BY <2>1, <2>2, <3>1 DEF ScanInv, scan, Ahead
  <2>3. CASE at # "scan"
    BY <2>1, <2>3 DEF ScanInv, scan
  <2>. QED  BY <2>2, <2>3
<1>4. CASE ListProcesses
  <2>1. at \in {"start", "choose"} /\ UNCHANGED <<processes, sockets, fates>>
        /\ \/ at' = "scan" /\ system' = processes /\ present' = processes /\ directory' = sockets
           \/ at' \in {"over", "restore"}
    BY <1>4 DEF ListProcesses, machine
  <2>2. fates' = <<>> /\ DOMAIN fates' = {}
    BY <2>1 DEF ScanInv
  <2>3. CASE at' = "scan"
    <3>1. OnePerPid(processes)
      BY <1>1 DEF MachineOf
    <3>. QED  BY <2>1, <2>2, <2>3, <3>1 DEF ScanInv, Taken, Ahead, OnePerPid
  <2>4. CASE at' # "scan"
    BY <2>2, <2>4 DEF ScanInv
  <2>. QED  BY <2>3, <2>4
<1>5. CASE LookAt
  <2>1. PICK s \in directory \cup sockets :
          /\ Ahead(s) /\ \A t \in Due : s.place <= t.place
          /\ fates' = [t \in DOMAIN fates \cup {s} |->
                         IF t = s THEN SocketFate(invocation.uid, s, system, processes)
                         ELSE fates[t]]
    BY <1>5 DEF LookAt
  <2>2. at = "scan" /\ UNCHANGED <<at, processes, sockets, system, directory, present, invocation>>
    BY <1>5 DEF LookAt, machine
  <2>3. /\ DOMAIN fates' = DOMAIN fates \cup {s}
        /\ fates'[s] = SocketFate(invocation.uid, s, system, processes)
        /\ \A t \in DOMAIN fates : t # s => fates'[t] = fates[t]
    BY <2>1
  <2>4. Taken(fates, invocation.uid, system, processes, present)'
    <3>1. OnePerPid(processes) /\ processes \in SUBSET present
      BY <1>1, <2>2 DEF MachineOf, ScanInv
    <3>2. Taken(fates, invocation.uid, system, processes, present)
      BY <2>2 DEF ScanInv
    <3>3. ASSUME NEW t \in DOMAIN fates'
          PROVE  \E then \in SUBSET present :
                   /\ OnePerPid(then) /\ system \cap processes \subseteq then
                   /\ fates'[t] = SocketFate(invocation.uid, t, system, then)
      <4>1. CASE t = s
        BY <2>3, <3>1, <4>1
      <4>2. CASE t # s
        BY <2>3, <3>2, <4>2 DEF Taken
      <4>. QED  BY <4>1, <4>2
    <3>. QED  BY <2>2, <3>3 DEF Taken
  <2>5. ASSUME NEW t \in directory \cap sockets, t \notin DOMAIN fates'
        PROVE  \A r \in DOMAIN fates' : r.place < t.place
    <3>1. Ahead(t) /\ t # s
      BY <2>2, <2>3, <2>5 DEF ScanInv
    <3>2. s.place <= t.place
      BY <2>1, <3>1 DEF Due
    <3>3. Filed(Made(m)) /\ s \in Made(m) /\ t \in Made(m)
      BY <1>1, ComeAre DEF MachineOf
    <3>4. s.place < t.place
      BY <3>1, <3>2, <3>3 DEF Filed
    <3>. QED  BY <2>3, <3>1, <3>4 DEF Ahead
  <2>. QED  BY <2>2, <2>4, <2>5 DEF ScanInv, Ahead
<1>6. CASE ScanEnds
  BY <1>6 DEF ScanEnds, ScanInv
<1>7. CASE Type \/ HangUp
  BY <1>a, <1>7 DEF Type, HangUp, machine, choice
<1>8. ASSUME NEW s \in Signals, Signal(s) PROVE ScanInv'
  <2>1. UNCHANGED <<processes, sockets, scan, invocation>> /\ at' \in {at, "killed"}
    BY <1>8 DEF Signal, machine, choice
  <2>. QED  BY <1>a, <2>1
<1>9. ASSUME NEW i \in DOMAIN keyboards, KeyboardPolls(i) \/ KeyboardReads(i) PROVE ScanInv'
  BY <1>a, <1>9 DEF KeyboardPolls, KeyboardReads, machine, choice
<1>10. CASE Resolve \/ InitTerminal \/ Listen \/ Restore
  BY <1>b, <1>10 DEF Resolve, InitTerminal, Listen, Restore, choice, scan
<1>11. CASE Identify \/ PickerLeaves \/ PickerPolls
  BY <1>b, <1>11 DEF Identify, PickerLeaves, PickerPolls, choice, scan
<1>12. CASE PickerReads
  BY <1>b, <1>12 DEF PickerReads, choice, scan
<1>13. CASE Attach \/ Open \/ LeaveDashboard
  BY <1>b, <1>13 DEF Attach, Open, LeaveDashboard, choice, scan
<1>14. CASE Turn
  BY <1>b, <1>14, TurnDoes DEF choice, scan
<1>15. CASE UNCHANGED vars
  BY <1>a, <1>15 DEF vars, machine, choice
<1>. QED  BY <1>2, <1>3, <1>4, <1>5, <1>6, <1>7, <1>8, <1>9, <1>10, <1>11, <1>12, <1>13, <1>14,
             <1>15 DEF Next, Main

----------------------------------------------------------------------------
(* The lists and the choice.                                               *)

\* A scan is always one that discovery's promises are about.
LEMMA ScanIs ==
  ASSUME MachineInv, ScanInv, at = "scan"
  PROVE  Scanned(fates, invocation.uid, system, processes, present)
<1>1. PICK m \in Machines : MachineOf(m) /\ arrived \in 0 .. Len(Arrivals)
  BY DEF MachineInv
<1>2. Distinct(Come(m)) /\ Filed(Made(m))
  BY <1>1, ComeAre
<1>3. Filed(DOMAIN fates)
  <2>. DEFINE T == Made(m)
              D == DOMAIN fates
  <2>1. D \subseteq T /\ Filed(T)
    BY <1>1, <1>2 DEF MachineOf
  <2>. HIDE DEF T, D
  <2>2. Filed(D)
    BY <2>1 DEF Filed
  <2>. QED  BY <2>2 DEF D
<1>4. \A p \in system : p.pid \in Nat /\ p.name \in Seq(Nat)
  <2>. DEFINE T == Come(m)
  <2>1. system \subseteq T /\ Distinct(T)
    BY <1>1, <1>2 DEF MachineOf
  <2>. HIDE DEF T
  <2>. QED  BY <2>1 DEF Distinct, IsProcess
<1>. QED  BY <1>1, <1>3, <1>4 DEF Scanned, MachineOf, ScanInv

\* What discovery lists has the pid that its socket names.
LEMMA DiscoverListing ==
  ASSUME NEW fate, NEW files, NEW uid, NEW sys, NEW ps, NEW seen,
         Scanned(fate, uid, sys, ps, seen)
  PROVE  Listing(Discovered(fate, files, sys).processes)
<1>. DEFINE list == Discovered(fate, files, sys).processes
            U == Usable(fate, files)
<1>1. ListsUsable(list, fate, files, sys)
  BY DiscoverLists
<1>. HIDE DEF list
<1>2. PICK k \in Nat : \E h \in Injection(1 .. k, U) :
        list = [i \in 1 .. k |-> EndpointOf(h[i], sys)]
  BY <1>1 DEF ListsUsable
<1>. HIDE DEF U
<1>3. PICK h \in Injection(1 .. k, U) : list = [i \in 1 .. k |-> EndpointOf(h[i], sys)]
  BY <1>2
<1>4. DOMAIN list = 1 .. k
  BY <1>3
<1>5. \A i \in 1 .. k : OwnPid(list[i])
  BY <1>3 DEF EndpointOf, OwnPid
<1>6. Listing(list)
  BY <1>4, <1>5 DEF Listing
<1>. QED  BY <1>6 DEF list

\* So is an empty one.
LEMMA NothingListed ==
  Listing(NothingFound.processes)
<1>. DEFINE list == NothingFound.processes
<1>1. DOMAIN list = 1 .. 0 /\ 0 \in Nat /\ \A i \in 1 .. 0 : OwnPid(list[i])
  BY DEF NothingFound
<1>. HIDE DEF list
<1>2. Listing(list)
  BY <1>1 DEF Listing
<1>. QED  BY <1>2 DEF list

\* One that --pid or --name can mean is one that is listed.
LEMMA MatchesAreListed ==
  ASSUME NEW option, option.kind \in {"pid", "name"}, NEW list, Listing(list.processes), NEW ps
  PROVE  Matches(option, list, ps) \subseteq DOMAIN list.processes
<1>. DEFINE listed == DOMAIN list.processes
            called(answer) == answer.ok /\ Containing(answer.assembly_name, option.name)
            withPid == {i \in listed : list.processes[i].pid = option.pid}
            named == {i \in listed : Containing(list.processes[i].name, option.name)}
            assembled ==
              {i \in listed : called(ProcessInfo(Listening(ps, list.processes[i].socket)))}
<1>1. Matches(option, list, ps) =
        CASE option.kind = "pid" -> IF withPid = {} THEN {} ELSE {Min(withPid)}
          [] option.kind = "name" -> IF named # {} THEN named ELSE assembled
  BY Zenon DEF Matches
<1>2. withPid \in SUBSET Nat /\ withPid \subseteq listed
  BY DEF Listing
<1>3. named \subseteq listed /\ assembled \subseteq listed
  OBVIOUS
<1>. HIDE DEF withPid, named, assembled
<1>4. withPid # {} => Min(withPid) \in listed
  BY <1>2, LeastIsMember
<1>5. "pid" # "name"
  OBVIOUS
<1>6. CASE option.kind = "pid"
  <2>1. Matches(option, list, ps) = IF withPid = {} THEN {} ELSE {Min(withPid)}
    BY <1>1, <1>5, <1>6, Zenon
  <2>. QED  BY <1>4, <2>1
<1>7. CASE option.kind = "name"
  <2>1. Matches(option, list, ps) = IF named # {} THEN named ELSE assembled
    BY <1>1, <1>5, <1>7, Zenon
  <2>. QED  BY <1>3, <2>1
<1>. QED  BY <1>6, <1>7

\* A picker starts with its selection in the list, on its own entries.
LEMMA NewPickerPicks ==
  ASSUME NEW k \in Nat, NEW entries, entries = [i \in 1 .. k |-> entries[i]],
         \A i \in 1 .. k : OwnPid(entries[i].process)
  PROVE  Picking(NewPicker(entries))
<1>. DEFINE pk == NewPicker(entries)
            first == IF entries = <<>> THEN 0 ELSE 1
<1>0. pk = [entries |-> entries, selected |-> first]
  BY DEF NewPicker
<1>2. first \in 0 .. k
  OBVIOUS
<1>. HIDE DEF pk, first
<1>1. pk.entries = entries /\ pk.selected = first
      /\ pk = [entries |-> pk.entries, selected |-> pk.selected]
  BY <1>0
<1>3. pk.selected \in 0 .. k
  BY <1>1, <1>2
<1>4. Picking(pk)
  BY <1>1, <1>3 DEF Picking
<1>. QED  BY <1>4 DEF pk

\* Moving the selection keeps it in the list.
LEMMA SelectionStays ==
  ASSUME NEW pk, Picking(pk), NEW key
  PROVE  Picking(PickerKey(pk, key))
<1>1. PICK k \in Nat :
        /\ pk = [entries |-> pk.entries, selected |-> pk.selected]
        /\ pk.entries = [i \in 1 .. k |-> pk.entries[i]]
        /\ \A i \in 1 .. k : OwnPid(pk.entries[i].process)
        /\ pk.selected \in 0 .. k
  BY DEF Picking
<1>2. Len(pk.entries) = k
  BY <1>1
<1>3. k = 0 => pk.entries = <<>>
  BY <1>1
<1>4. ASSUME NEW at_ \in 0 .. k PROVE Picking([pk EXCEPT !.selected = at_])
  <2>. DEFINE moved == [pk EXCEPT !.selected = at_]
  <2>1. moved = [entries |-> pk.entries, selected |-> at_]
    <3>1. pk = [entries |-> pk.entries, selected |-> pk.selected]
      BY <1>1
    <3>. QED  BY <3>1
  <2>. HIDE DEF moved
  <2>2. moved.entries = pk.entries /\ moved.selected = at_
        /\ moved = [entries |-> moved.entries, selected |-> moved.selected]
    BY <2>1
  <2>3. Picking(moved)
    BY <1>1, <2>2 DEF Picking
  <2>. QED  BY <2>3 DEF moved
<1>5. ASSUME NEW delta \in Int PROVE Picking(MoveBy(pk, delta))
  <2>1. CASE pk.entries = <<>>
    BY <2>1 DEF MoveBy
  <2>2. CASE pk.entries # <<>>
    <3>. DEFINE least == Min({pk.selected + delta, k})
                to == Max({1, least})
    <3>0. pk.selected + delta \in Int /\ k \in Int
      BY <1>1
    <3>1. least \in Int /\ least <= k
      <4>. DEFINE x == pk.selected + delta
      <4>. HIDE DEF x
      <4>1. x \in Int /\ Min({x, k}) = IF x <= k THEN x ELSE k
        BY <3>0, LeastOfTwo DEF x
      <4>2. Min({x, k}) \in Int /\ Min({x, k}) <= k
        BY <3>0, <4>1
      <4>. QED  BY <4>2 DEF x
    <3>. HIDE DEF least
    <3>2. to \in 0 .. k
      <4>1. Max({1, least}) = IF 1 >= least THEN 1 ELSE least
        BY <3>1, LeastOfTwo
      <4>. QED  BY <1>3, <2>2, <3>1, <4>1
    <3>3. MoveBy(pk, delta) = [pk EXCEPT !.selected = to]
      <4>1. MoveBy(pk, delta) =
              [pk EXCEPT !.selected = Max({1, Min({pk.selected + delta, Len(pk.entries)})})]
        BY <2>2 DEF MoveBy
      <4>. QED  BY <1>2, <4>1 DEF least
    <3>. HIDE DEF to
    <3>. QED  BY <1>4, <3>2, <3>3
  <2>. QED  BY <2>1, <2>2
<1>6. Picking(SelectFirst(pk)) /\ Picking(SelectLast(pk))
  <2>1. pk.entries # <<>> => 1 \in 0 .. k
    BY <1>3
  <2>2. k \in 0 .. k
    OBVIOUS
  <2>. QED  BY <1>2, <1>4, <2>1, <2>2 DEF SelectFirst, SelectLast
<1>7. -1 \in Int /\ 1 \in Int /\ -10 \in Int /\ 10 \in Int
  OBVIOUS
<1>. QED  BY <1>5, <1>6, <1>7 DEF PickerKey

\* So does one with nothing to show.
LEMMA EmptyPicks ==
  Picking(NewPicker(<<>>))
<1>. DEFINE entries == <<>>
<1>1. 0 \in Nat /\ entries = [i \in 1 .. 0 |-> entries[i]]
      /\ \A i \in 1 .. 0 : OwnPid(entries[i].process)
  OBVIOUS
<1>. HIDE DEF entries
<1>2. Picking(NewPicker(entries))
  BY <1>1, NewPickerPicks
<1>. QED  BY <1>2 DEF entries

\* What is listed, shown and chosen has the pid that its socket names.
LEMMA ListStep ==
  ASSUME MachineInv, ScanInv, ListInv, PlaceInv, [Next]_vars
  PROVE  ListInv'
<1>1. /\ Listing(found.processes) /\ Picking(picker)
      /\ target = <<>> \/ Chosen
      /\ at \in {"attach", "open", "dashboard", "leaving"} => Chosen
  BY DEF ListInv
<1>a. ASSUME UNCHANGED <<found, picker, target>>,
             at' \in {at, "scan", "over", "restore", "identify", "resolve", "init", "listen",
                      "choose", "picker", "reading", "killed"}
      PROVE  ListInv'
  BY <1>1, <1>a DEF ListInv, Chosen
<1>b. ASSUME UNCHANGED <<found, picker, target>>, Chosen
      PROVE  ListInv'
  BY <1>1, <1>b DEF ListInv, Chosen
<1>2. CASE Arrive \/ End \/ Type \/ HangUp
  BY <1>a, <1>2 DEF Arrive, End, Type, HangUp, choice
<1>3. ASSUME NEW s \in Signals, Signal(s) PROVE ListInv'
  BY <1>a, <1>3 DEF Signal, choice
<1>4. ASSUME NEW i \in DOMAIN keyboards, KeyboardPolls(i) \/ KeyboardReads(i) PROVE ListInv'
  BY <1>a, <1>4 DEF KeyboardPolls, KeyboardReads, choice
<1>5. CASE ListProcesses
  BY <1>a, <1>5 DEF ListProcesses
<1>t. CASE LookAt
  BY <1>a, <1>t DEF LookAt
<1>6. CASE ScanEnds
  <2>1. /\ found' = Discovered(fates, sockets, system) /\ at = "scan"
        /\ UNCHANGED <<picker, target>> /\ at' \in {"identify", "over", "resolve"}
    BY <1>6 DEF ScanEnds
  <2>2. Listing(found'.processes)
    BY <2>1, ScanIs, DiscoverListing
  <2>. QED  BY <1>1, <2>1, <2>2 DEF ListInv, Chosen
<1>7. CASE Resolve
  <2>. DEFINE matches == Matches(invocation, found, processes)
              one == found.processes[CHOOSE i \in matches : TRUE]
  <2>1. /\ at = "resolve" /\ found' = NothingFound /\ UNCHANGED picker
        /\ IF Cardinality(matches) = 1 THEN target' = <<one>> /\ at' = "init"
           ELSE at' = "over" /\ UNCHANGED target
    BY <1>7 DEF Resolve
  <2>2. matches \subseteq DOMAIN found.processes
    BY <1>1, <2>1, MatchesAreListed DEF PlaceInv
  <2>3. Listing(found'.processes)
    BY <2>1, NothingListed
  <2>. HIDE DEF matches
  <2>4. CASE Cardinality(matches) = 1
    <3>1. matches # {}
      BY <2>4, FS_EmptySet
    <3>2. (CHOOSE i \in matches : TRUE) \in DOMAIN found.processes
      BY <2>2, <3>1
    <3>3. OwnPid(one)
      BY <1>1, <3>2 DEF Listing
    <3>. HIDE DEF one
    <3>4. Chosen'
      BY <2>1, <2>4, <3>3 DEF Chosen
    <3>. QED  BY <1>1, <2>1, <2>3, <3>4 DEF ListInv
  <2>5. CASE Cardinality(matches) # 1
    BY <1>1, <2>1, <2>3, <2>5 DEF ListInv, Chosen
  <2>. QED  BY <2>4, <2>5
<1>8. CASE InitTerminal \/ Restore
  BY <1>a, <1>8 DEF InitTerminal, Restore, choice
<1>9. CASE Listen
  <2>1. UNCHANGED <<found, picker, target>> /\ at' = IF target = <<>> THEN "choose" ELSE "attach"
    BY <1>9 DEF Listen, choice
  <2>. QED  BY <1>1, <1>a, <1>b, <2>1
<1>10. CASE Identify
  <2>. DEFINE entries == [i \in DOMAIN found.processes |-> Entry(found.processes[i], processes)]
  <2>1. /\ picker' = NewPicker(entries) /\ found' = NothingFound /\ at' = "picker"
        /\ UNCHANGED target
    BY <1>10 DEF Identify
  <2>2. PICK k \in Nat : DOMAIN found.processes = 1 .. k
                         /\ \A i \in 1 .. k : OwnPid(found.processes[i])
    BY <1>1 DEF Listing
  <2>3. entries = [i \in 1 .. k |-> entries[i]] /\ \A i \in 1 .. k : OwnPid(entries[i].process)
    BY <2>2 DEF Entry
  <2>. HIDE DEF entries
  <2>4. Picking(picker')
    BY <2>1, <2>3, NewPickerPicks
  <2>5. Listing(found'.processes)
    BY <2>1, NothingListed
  <2>. QED  BY <1>1, <2>1, <2>4, <2>5 DEF ListInv, Chosen
<1>11. CASE PickerLeaves \/ PickerPolls
  BY <1>a, <1>11 DEF PickerLeaves, PickerPolls, choice
<1>12. CASE PickerReads
  <2>. DEFINE key == Head(typed)
              chosen == key = "Enter" /\ picker.selected # 0
  <2>1. /\ at' = CASE key \in {"q", "Esc", "ctrl_c"} -> "restore"
                   [] chosen -> "attach"
                   [] OTHER -> "picker"
        /\ picker' = IF chosen THEN NewPicker(<<>>) ELSE PickerKey(picker, key)
        /\ target' = IF chosen THEN <<picker.entries[picker.selected].process>> ELSE target
        /\ UNCHANGED found
    BY <1>12 DEF PickerReads
  <2>. HIDE DEF key
  <2>2. CASE chosen
    <3>. DEFINE one == picker.entries[picker.selected].process
    <3>1. PICK k \in Nat : picker.selected \in 0 .. k
                           /\ \A i \in 1 .. k : OwnPid(picker.entries[i].process)
      BY <1>1 DEF Picking
    <3>2. OwnPid(one)
      BY <2>2, <3>1
    <3>. HIDE DEF one
    <3>3. target' = <<one>> /\ picker' = NewPicker(<<>>)
      BY <2>1, <2>2 DEF one
    <3>4. Chosen'
      BY <3>2, <3>3 DEF Chosen
    <3>5. Picking(NewPicker(<<>>))
      BY EmptyPicks
    <3>. QED  BY <1>1, <2>1, <3>3, <3>4, <3>5 DEF ListInv
  <2>3. CASE ~chosen
    <3>1. /\ at' \in {"restore", "picker"} /\ UNCHANGED <<target, found>>
          /\ picker' = PickerKey(picker, key)
      BY <2>1, <2>3
    <3>2. Picking(PickerKey(picker, key))
      BY <1>1, SelectionStays
    <3>. QED  BY <1>1, <3>1, <3>2 DEF ListInv, Chosen
  <2>. QED  BY <2>2, <2>3
<1>13. CASE Attach
  <2>1. Chosen /\ UNCHANGED <<found, picker, target>>
    BY <1>1, <1>13 DEF Attach, choice
  <2>. QED  BY <1>b, <2>1
<1>14. CASE Open
  <2>1. Chosen /\ UNCHANGED <<found, picker, target>>
    BY <1>1, <1>14 DEF Open, choice
  <2>. QED  BY <1>b, <2>1
<1>15. CASE Turn
  <2>1. Chosen /\ UNCHANGED <<found, picker, target>>
    BY <1>1, <1>15, TurnDoes DEF choice
  <2>. QED  BY <1>b, <2>1
<1>16. CASE LeaveDashboard
  <2>1. /\ at' \in {"choose", "restore"} /\ target' = <<>> /\ UNCHANGED <<found, picker>>
    BY <1>16 DEF LeaveDashboard
  <2>. QED  BY <1>1, <2>1 DEF ListInv
<1>17. CASE UNCHANGED vars
  BY <1>a, <1>17 DEF vars, choice
<1>. QED  BY <1>2, <1>3, <1>4, <1>5, <1>t, <1>6, <1>7, <1>8, <1>9, <1>10, <1>11, <1>12, <1>13,
             <1>14, <1>15, <1>16, <1>17 DEF Next, Main

----------------------------------------------------------------------------
(* The dashboard and its rate.                                             *)

\* A key leaves the App an App.
LEMMA KeyKeepsApp ==
  ASSUME NEW a \in App, NEW k
  PROVE  HandleKey(a, k) \in App
<1>. USE DEF App, Statuses, Exits, Views, Phases
<1>1. StepInterval(a, TRUE) \in App /\ StepInterval(a, FALSE) \in App
  <2>1. \A r \in Int : Clamp(r) \in Nat
    BY AppAssumption DEF Clamp
  <2>2. WantedInterval(a) \in Nat
    BY DEF WantedInterval
  <2>3. WantedInterval(a) - 1 \in Int /\ WantedInterval(a) + 1 \in Int
    BY <2>2
  <2>4. \A r \in Nat : [a EXCEPT !.pending = r, !.settled = FALSE] \in App
    OBVIOUS
  <2>. HIDE DEF App
  <2>. QED  BY <2>1, <2>3, <2>4 DEF StepInterval
<1>2. Leave(a, "Quit") \in App /\ Leave(a, "Detach") \in App /\ ToggleInvestigate(a) \in App
  BY DEF Leave, ToggleInvestigate
<1>3. StartProfile(a) \in App /\ CancelProfile(a) \in App /\ ToggleProfileWaiting(a) \in App
  BY DEF StartProfile, CancelProfile, ToggleProfileWaiting, NoResult
<1>4. /\ [a EXCEPT !.help = TRUE] \in App /\ [a EXCEPT !.help = FALSE] \in App
      /\ [a EXCEPT !.paused = ~@] \in App
  OBVIOUS
<1>. HIDE DEF App
<1>5. ProfileKey(a, k) \in App
  BY <1>2, <1>3 DEF ProfileKey
<1>6. InvestigateKey(a, k) \in App
  BY <1>2, <1>4 DEF InvestigateKey
<1>7. DashboardKey(a, k) \in App
  BY <1>1, <1>2, <1>3, <1>4 DEF DashboardKey
<1>8. a.help \in BOOLEAN
  BY DEF App
<1>. QED  BY <1>4, <1>5, <1>6, <1>7, <1>8 DEF HandleKey

\* What Handled computes on the way.
KeyFor(k) == IF k \in Keys THEN k ELSE "other"
IsHandled(after, a, ks) ==
  after = [n \in 0 .. Len(ks) |->
             IF n = 0 THEN a ELSE HandleKey(after[n - 1], KeyFor(ks[n]))]

\* So do the keys of a turn.
LEMMA HandledIsApp ==
  ASSUME NEW a \in App, NEW K, NEW ks \in Seq(K)
  PROVE  Handled(a, ks) \in App
<1>. DEFINE n == Len(ks)
            next == [kt \in (1 .. n) \X App |-> HandleKey(kt[2], KeyFor(ks[kt[1]]))]
            after == CHOOSE f : IsHandled(f, a, ks)
            good == {i \in Nat : i \in 0 .. n => after[i] \in App}
<1>0. n \in Nat
  OBVIOUS
<1>1. Handled(a, ks) = after[n]
  BY DEF Handled, IsHandled, KeyFor
<1>. HIDE DEF n
<1>2. next \in [(1 .. n) \X App -> App]
  BY KeyKeepsApp
<1>3. \A i \in 1 .. n, b \in App : next[<<i, b>>] = HandleKey(b, KeyFor(ks[i]))
  OBVIOUS
<1>. HIDE DEF next
<1>4. PICK f \in [0 .. n -> App] : IsUpto(f, n, a, next)
  BY <1>0, <1>2, UptoExists
<1>5. ASSUME NEW i \in 0 .. n
      PROVE  f[i] = IF i = 0 THEN a ELSE HandleKey(f[i - 1], KeyFor(ks[i]))
  <2>1. f[i] = IF i = 0 THEN a ELSE next[<<i, f[i - 1]>>]
    BY <1>4 DEF IsUpto
  <2>2. i # 0 => i \in 1 .. n /\ i - 1 \in 0 .. n
    BY <1>0
  <2>3. i # 0 => f[i - 1] \in App
    BY <1>4, <2>2
  <2>. QED  BY <1>3, <2>1, <2>2, <2>3
<1>6. IsHandled(f, a, ks)
  <2>1. f = [i \in 0 .. n |-> f[i]]
    BY <1>4
  <2>. QED  BY <1>5, <2>1 DEF IsHandled, n
<1>7. IsHandled(after, a, ks)
  BY <1>6
<1>. HIDE DEF after
<1>8. \A i \in 0 .. n : after[i] = IF i = 0 THEN a ELSE HandleKey(after[i - 1], KeyFor(ks[i]))
  BY <1>7 DEF IsHandled, n
<1>9. 0 \in good
  BY <1>8
<1>10. ASSUME NEW i \in Nat, i \in good PROVE i + 1 \in good
  <2>. SUFFICES ASSUME i + 1 \in 0 .. n PROVE after[i + 1] \in App
    OBVIOUS
  <2>1. (i + 1) - 1 = i /\ i \in 0 .. n /\ i + 1 # 0
    BY <1>0
  <2>2. after[i] \in App
    BY <1>10, <2>1
  <2>3. after[i + 1] = HandleKey(after[i], KeyFor(ks[i + 1]))
    BY <1>8, <2>1
  <2>. QED  BY <2>2, <2>3, KeyKeepsApp
<1>11. Nat \subseteq good
  <2>. HIDE DEF good
  <2>. QED  BY <1>9, <1>10, NumbersByInduction
<1>12. n \in 0 .. n
  BY <1>0
<1>. QED  BY <1>0, <1>1, <1>11, <1>12

\* So does a turn.
LEMMA TurnKeepsApp ==
  ASSUME Turn, app \in App, channel \in Seq(Keys \cup PickerKeys)
  PROVE  app' \in App
<1>. DEFINE handled == Handled(app, channel)
            wanted == WantedInterval(handled)
            trace == StartTracing(Behind, wanted)
            leave(a) == [a EXCEPT !.exit = IF interrupted THEN "Quit" ELSE @]
            failed == [handled EXCEPT !.pending = NoRate,
                                      !.interval = IF trace.ok THEN wanted ELSE @,
                                      !.status = IF trace.ok THEN @ ELSE "Failed"]
<1>1. UNCHANGED app \/ app' = leave(handled) \/ app' = leave(failed)
  BY DEF Turn
<1>2. handled \in App
  BY HandledIsApp
<1>. HIDE DEF handled, trace
<1>3. wanted \in Nat
  BY <1>2 DEF WantedInterval, App
<1>. HIDE DEF wanted
<1>4. failed \in App
  BY <1>2, <1>3 DEF App, Statuses, NoRate
<1>. HIDE DEF failed
<1>5. leave(handled) \in App /\ leave(failed) \in App
  BY <1>2, <1>4 DEF App, Exits
<1>. QED  BY <1>1, <1>5

\* The rate carried from one dashboard to the next is the one it last showed.
LEMMA RateStep ==
  ASSUME RateInv, KeyInv, [Next]_vars
  PROVE  RateInv'
<1>. USE DEF RateInv
<1>1. NewApp \in App /\ InitRate \in Nat /\ \A a \in App : WantedInterval(a) \in Nat
  BY AppAssumption DEF NewApp, App, Statuses, Exits, Views, Phases, WantedInterval, NoRate, NoResult
<1>a. ASSUME UNCHANGED <<app, rate, acknowledged>>,
             at' \in {at, "killed"}
             \/ (at \notin {"dashboard", "leaving", "killed"} /\ at' \notin {"dashboard", "leaving"})
      PROVE  RateInv'
  BY <1>a
<1>2. CASE Arrive \/ End \/ Type \/ HangUp
  BY <1>a, <1>2 DEF Arrive, End, Type, HangUp, dashboard
<1>3. ASSUME NEW s \in Signals, Signal(s) PROVE RateInv'
  BY <1>a, <1>3 DEF Signal, dashboard
<1>4. ASSUME NEW i \in DOMAIN keyboards, KeyboardPolls(i) \/ KeyboardReads(i) PROVE RateInv'
  BY <1>a, <1>4 DEF KeyboardPolls, KeyboardReads, dashboard
<1>5. CASE ListProcesses \/ LookAt \/ ScanEnds \/ Resolve
  BY <1>a, <1>5 DEF ListProcesses, LookAt, ScanEnds, Resolve, dashboard
<1>6. CASE InitTerminal \/ Listen \/ Restore
  BY <1>a, <1>6 DEF InitTerminal, Listen, Restore, dashboard
<1>7. CASE Identify \/ PickerLeaves \/ PickerPolls \/ PickerReads
  BY <1>a, <1>7 DEF Identify, PickerLeaves, PickerPolls, PickerReads, dashboard
<1>8. CASE Attach
  BY <1>a, <1>8 DEF Attach
<1>9. CASE Open
  <2>1. /\ UNCHANGED <<rate, acknowledged>> /\ at = "open"
        /\ \/ at' = "restore" /\ UNCHANGED app
           \/ at' = "dashboard" /\ app' = [NewApp EXCEPT !.interval = rate]
    BY <1>9 DEF Open
  <2>2. ASSUME app' = [NewApp EXCEPT !.interval = rate]
        PROVE  app' \in App /\ WantedInterval(app') = rate
    <3>1. app'.interval = rate /\ app'.wanted = NewApp.wanted
      BY <2>2 DEF NewApp
    <3>. QED  BY <1>1, <2>2 DEF App, NewApp, WantedInterval
  <2>. QED  BY <2>1, <2>2
<1>10. CASE Turn
  <2>1. app' \in App
    BY <1>10, TurnKeepsApp DEF KeyInv
  <2>. QED  BY <1>1, <1>10, <2>1, TurnDoes
<1>11. CASE LeaveDashboard
  <2>1. /\ at = "leaving" /\ at' \in {"choose", "restore"}
        /\ rate' = WantedInterval(app) /\ app' = NewApp /\ UNCHANGED acknowledged
    BY <1>11 DEF LeaveDashboard
  <2>. QED  BY <1>1, <2>1
<1>12. CASE UNCHANGED vars
  BY <1>a, <1>12 DEF vars, dashboard
<1>. HIDE DEF RateInv
<1>. QED  BY <1>2, <1>3, <1>4, <1>5, <1>6, <1>7, <1>8, <1>9, <1>10, <1>11, <1>12 DEF Next, Main

----------------------------------------------------------------------------
(* The keys.                                                               *)

\* The keyboard threads that have ended are some of those that there are.
LEMMA EndedCounted ==
  ASSUME KeyInv
  PROVE  /\ IsFiniteSet(Ended) /\ Cardinality(Ended) \in Nat
         /\ Cardinality(Ended) <= Len(keyboards) /\ Len(keyboards) \in Nat
         /\ DOMAIN keyboards = 1 .. Len(keyboards)
<1>1. Len(keyboards) \in Nat /\ DOMAIN keyboards = 1 .. Len(keyboards)
  BY DEF KeyInv
<1>2. Ended \in SUBSET (1 .. Len(keyboards))
  BY <1>1 DEF Ended
<1>. DEFINE n == Len(keyboards)
<1>. HIDE DEF n
<1>3. n \in Nat /\ Ended \in SUBSET (1 .. n)
  BY <1>1, <1>2 DEF n
<1>4. IsFiniteSet(Ended) /\ Cardinality(Ended) \in Nat /\ Cardinality(Ended) <= n
  BY <1>3, PiecesOfAnInterval
<1>. QED  BY <1>1, <1>4 DEF n

\* The threads that have ended stay ended, so there are as many at least.
LEMMA EndedGrows ==
  ASSUME KeyInv, keyboards' \in Seq(Thread), Ended \subseteq Ended', UNCHANGED stolen
  PROVE  stolen' \in Nat /\ stolen' <= Cardinality(Ended')
<1>. DEFINE n == Len(keyboards')
            after == Ended'
<1>1. n \in Nat /\ after \in SUBSET (1 .. n)
  BY DEF Ended
<1>2. Cardinality(Ended) \in Nat /\ stolen \in Nat /\ stolen <= Cardinality(Ended)
  BY EndedCounted DEF KeyInv
<1>3. Ended \in SUBSET after
  OBVIOUS
<1>. HIDE DEF n, after
<1>4. IsFiniteSet(after) /\ Cardinality(after) \in Nat
  BY <1>1, PiecesOfAnInterval
<1>5. Cardinality(Ended) <= Cardinality(after)
  BY <1>3, <1>4, FS_Subset
<1>6. stolen <= Cardinality(after)
  BY <1>2, <1>4, <1>5
<1>. QED  BY <1>2, <1>6 DEF after

\* Keys are lost to threads that have ended, one each at most.
LEMMA KeyStep ==
  ASSUME KeyInv, [Next]_vars
  PROVE  KeyInv'
<1>. DEFINE K == Keys \cup PickerKeys
<1>1. /\ typed \in Seq(K) /\ channel \in Seq(K) /\ keyboards \in Seq(Thread)
      /\ <<>> \in Seq(K)
  BY DEF KeyInv
<1>2. typed # <<>> => Head(typed) \in K /\ Tail(typed) \in Seq(K)
  <2>. HIDE DEF K
  <2>. QED  BY <1>1
<1>a. ASSUME typed' \in Seq(K), channel' \in Seq(K), UNCHANGED <<keyboards, stolen>>
      PROVE  KeyInv'
  BY <1>a, <1>1 DEF KeyInv, Ended
<1>b. ASSUME typed' \in Seq(K), channel' \in Seq(K), keyboards' \in Seq(Thread),
             Ended \subseteq Ended', UNCHANGED stolen
      PROVE  KeyInv'
  BY <1>b, EndedGrows DEF KeyInv
<1>. HIDE DEF K
<1>e. \A t \in Thread, state \in {"polling", "reading", "gone"} :
        /\ [t EXCEPT !.state = state] \in Thread
        /\ [t EXCEPT !.state = state].state = state
  BY DEF Thread
<1>c. ASSUME NEW i \in DOMAIN keyboards, NEW state \in {"reading", "gone"}, Keyboard(i, state),
             keyboards[i].state # "gone"
      PROVE  /\ keyboards' \in Seq(Thread)
             /\ Ended' = IF state = "gone" THEN Ended \cup {i} ELSE Ended
             /\ i \notin Ended
  <2>0. keyboards[i] \in Thread
    BY <1>1
  <2>1. /\ keyboards' = [keyboards EXCEPT ![i].state = state]
        /\ [keyboards[i] EXCEPT !.state = state] \in Thread
        /\ [keyboards[i] EXCEPT !.state = state].state = state
    BY <1>e, <1>c, <2>0 DEF Keyboard
  <2>2. keyboards' \in Seq(Thread) /\ DOMAIN keyboards' = DOMAIN keyboards
    BY <1>1, <2>1
  <2>3. \A j \in DOMAIN keyboards :
          keyboards'[j].state = IF j = i THEN state ELSE keyboards[j].state
    BY <1>1, <2>1
  <2>. QED  BY <1>c, <2>2, <2>3 DEF Ended
<1>d. ASSUME NEW i \in DOMAIN keyboards, Keyboard(i, "polling"), keyboards[i].state # "gone"
      PROVE  keyboards' \in Seq(Thread) /\ Ended' = Ended
  <2>0. keyboards[i] \in Thread
    BY <1>1
  <2>1. /\ keyboards' = [keyboards EXCEPT ![i].state = "polling"]
        /\ [keyboards[i] EXCEPT !.state = "polling"] \in Thread
        /\ [keyboards[i] EXCEPT !.state = "polling"].state = "polling"
    BY <1>e, <1>d, <2>0 DEF Keyboard
  <2>2. keyboards' \in Seq(Thread) /\ DOMAIN keyboards' = DOMAIN keyboards
    BY <1>1, <2>1
  <2>3. \A j \in DOMAIN keyboards :
          keyboards'[j].state = IF j = i THEN "polling" ELSE keyboards[j].state
    BY <1>1, <2>1
  <2>. QED  BY <1>d, <2>2, <2>3 DEF Ended
<1>3. CASE Arrive \/ End \/ HangUp
  BY <1>a, <1>1, <1>3 DEF Arrive, End, HangUp, keys
<1>4. CASE Type
  <2>1. PICK k \in K : typed' = Append(typed, k)
    BY <1>4 DEF Type, K
  <2>. QED  BY <1>a, <1>1, <1>4, <2>1 DEF Type
<1>5. ASSUME NEW s \in Signals, Signal(s) PROVE KeyInv'
  BY <1>a, <1>1, <1>5 DEF Signal, keys
<1>6. ASSUME NEW i \in DOMAIN keyboards, KeyboardPolls(i) PROVE KeyInv'
  <2>1. /\ keyboards[i].state # "gone" /\ UNCHANGED <<typed, stolen, channel>>
        /\ Keyboard(i, "gone") \/ Keyboard(i, "reading")
    BY <1>6 DEF KeyboardPolls
  <2>2. keyboards' \in Seq(Thread) /\ Ended \subseteq Ended'
    BY <1>c, <2>1
  <2>. QED  BY <1>b, <1>1, <2>1, <2>2
<1>7. ASSUME NEW i \in DOMAIN keyboards, KeyboardReads(i) PROVE KeyInv'
  <2>0. keyboards[i].state # "gone"
    BY <1>7 DEF KeyboardReads
  <2>1. CASE Keyboard(i, "gone") /\ UNCHANGED <<typed, stolen, channel>>
    <3>1. keyboards' \in Seq(Thread) /\ Ended \subseteq Ended'
      BY <1>c, <2>0, <2>1
    <3>. QED  BY <1>b, <1>1, <2>1, <3>1
  <2>2. CASE /\ typed # <<>> /\ typed' = Tail(typed) /\ channel' = Append(channel, Head(typed))
             /\ Keyboard(i, "gone") \/ Keyboard(i, "polling")
             /\ UNCHANGED stolen
    <3>1. keyboards' \in Seq(Thread) /\ Ended \subseteq Ended'
      BY <1>c, <1>d, <2>0, <2>2
    <3>2. typed' \in Seq(K) /\ channel' \in Seq(K)
      BY <1>1, <1>2, <2>2
    <3>. QED  BY <1>b, <2>2, <3>1, <3>2
  <2>3. CASE /\ typed # <<>> /\ typed' = Tail(typed) /\ UNCHANGED channel
             /\ Keyboard(i, "gone") /\ stolen' = stolen + 1
    <3>1. keyboards' \in Seq(Thread) /\ Ended' = Ended \cup {i} /\ i \notin Ended
      BY <1>c, <2>0, <2>3
    <3>2. IsFiniteSet(Ended) /\ Cardinality(Ended) \in Nat
      BY EndedCounted
    <3>3. Cardinality(Ended \cup {i}) = Cardinality(Ended) + 1
      BY <3>1, <3>2, FS_AddElement
    <3>4. stolen' \in Nat /\ stolen' <= Cardinality(Ended')
      <4>1. stolen \in Nat /\ stolen <= Cardinality(Ended)
        BY DEF KeyInv
      <4>. QED  BY <2>3, <3>1, <3>2, <3>3, <4>1
    <3>5. typed' \in Seq(K) /\ channel' \in Seq(K)
      BY <1>1, <1>2, <2>3
    <3>. QED  BY <3>1, <3>4, <3>5 DEF KeyInv, K
  <2>. QED  BY <1>7, <2>1, <2>2, <2>3 DEF KeyboardReads
<1>8. CASE ListProcesses \/ LookAt \/ ScanEnds \/ Resolve
  BY <1>a, <1>1, <1>8 DEF ListProcesses, LookAt, ScanEnds, Resolve, keys
<1>9. CASE InitTerminal \/ Listen \/ Restore
  BY <1>a, <1>1, <1>9 DEF InitTerminal, Listen, Restore, keys
<1>10. CASE Identify \/ PickerLeaves \/ PickerPolls
  BY <1>a, <1>1, <1>10 DEF Identify, PickerLeaves, PickerPolls, keys
<1>11. CASE PickerReads
  <2>1. /\ typed # <<>> /\ typed' = Tail(typed)
        /\ UNCHANGED <<channel, keyboards, stolen>>
    BY <1>11 DEF PickerReads
  <2>. QED  BY <1>a, <1>1, <1>2, <2>1
<1>12. CASE Attach
  <2>1. /\ UNCHANGED <<typed, channel, stolen>>
        /\ UNCHANGED keyboards \/ keyboards' = Append(keyboards, [state |-> "polling", stop |-> FALSE])
    BY <1>12 DEF Attach, SpawnInputReader
  <2>2. CASE UNCHANGED keyboards
    BY <1>a, <1>1, <2>1, <2>2
  <2>3. CASE keyboards' = Append(keyboards, [state |-> "polling", stop |-> FALSE])
    <3>1. [state |-> "polling", stop |-> FALSE] \in Thread
      BY DEF Thread
    <3>2. keyboards' \in Seq(Thread)
      BY <1>1, <2>3, <3>1
    <3>3. Ended \subseteq Ended'
      <4>1. /\ DOMAIN keyboards \subseteq DOMAIN keyboards'
            /\ \A i \in DOMAIN keyboards : keyboards'[i] = keyboards[i]
        BY <1>1, <2>3, <3>1
      <4>. QED  BY <4>1 DEF Ended
    <3>. QED  BY <1>b, <1>1, <2>1, <3>2, <3>3
  <2>. QED  BY <2>1, <2>2, <2>3
<1>13. CASE Open
  BY <1>a, <1>1, <1>13 DEF Open, keys
<1>14. CASE Turn
  BY <1>a, <1>1, <1>14, TurnDoes DEF keys
<1>15. CASE LeaveDashboard
  <2>1. /\ UNCHANGED <<typed, stolen>> /\ channel' = <<>>
        /\ keyboards' = [keyboards EXCEPT ![Len(keyboards)].stop = TRUE]
    BY <1>15 DEF LeaveDashboard
  <2>2. \A t \in Thread : /\ [t EXCEPT !.stop = TRUE] \in Thread
                          /\ [t EXCEPT !.stop = TRUE].state = t.state
    BY DEF Thread
  <2>3. \A i \in DOMAIN keyboards : keyboards[i] \in Thread
    BY <1>1
  <2>4. /\ DOMAIN keyboards' = DOMAIN keyboards
        /\ \A i \in DOMAIN keyboards : /\ keyboards'[i] \in Thread
                                       /\ keyboards'[i].state = keyboards[i].state
    BY <2>1, <2>2, <2>3
  <2>5. keyboards' \in Seq(Thread)
    <3>. DEFINE n == Len(keyboards)
    <3>1. n \in Nat /\ DOMAIN keyboards = 1 .. n
      BY <1>1
    <3>. HIDE DEF n
    <3>2. keyboards' = [i \in 1 .. n |-> keyboards'[i]]
      BY <2>1, <2>4, <3>1
    <3>3. keyboards' \in [1 .. n -> Thread]
      BY <2>4, <3>1, <3>2
    <3>. QED  BY <3>1, <3>3, SeqDef
  <2>6. Ended \subseteq Ended'
    BY <2>4 DEF Ended
  <2>. QED  BY <1>b, <1>1, <2>1, <2>5, <2>6
<1>16. CASE UNCHANGED vars
  BY <1>a, <1>1, <1>16 DEF vars, keys
<1>. QED  BY <1>3, <1>4, <1>5, <1>6, <1>7, <1>8, <1>9, <1>10, <1>11, <1>12, <1>13, <1>14, <1>15,
             <1>16 DEF Next, Main

----------------------------------------------------------------------------
(* The terminal and the signals.                                           *)

\* Where the main thread is says what it holds: the terminal, a picker, a dashboard.
LEMMA PlaceStep ==
  ASSUME PlaceInv, [Next]_vars
  PROVE  PlaceInv'
<1>. USE DEF PlaceInv
<1>1. \A i \in Invocations : i.kind \in {"none", "pid", "name", "ps"}
  BY TerminalAssumption
<1>a. ASSUME UNCHANGED <<at, tty, invocation>> PROVE PlaceInv'
  BY <1>a
<1>2. CASE Arrive \/ End \/ Type
  BY <1>a, <1>2 DEF Arrive, End, Type, world, choice
<1>3. CASE HangUp
  BY <1>3 DEF HangUp, choice
<1>4. ASSUME NEW s \in Signals, Signal(s) PROVE PlaceInv'
  <2>1. UNCHANGED <<tty, invocation>> /\ at' \in {at, "killed"}
    BY <1>4 DEF Signal, choice
  <2>. QED  BY <2>1 DEF Places
<1>5. ASSUME NEW i \in DOMAIN keyboards, KeyboardPolls(i) \/ KeyboardReads(i) PROVE PlaceInv'
  BY <1>a, <1>5 DEF KeyboardPolls, KeyboardReads, world, choice
<1>6. CASE ListProcesses
  BY <1>6 DEF ListProcesses, world, Places
<1>t. CASE LookAt
  BY <1>a, <1>t DEF LookAt, world
<1>7. CASE ScanEnds
  <2>1. /\ at = "scan" /\ UNCHANGED <<tty, invocation>>
        /\ at' = CASE tty # "normal" -> "identify"
                   [] tty = "normal" /\ invocation.kind = "ps" -> "over"
                   [] OTHER -> "resolve"
    BY <1>7 DEF ScanEnds, world
  <2>. QED  BY <1>1, <2>1 DEF Places
<1>8. CASE Resolve
  <2>1. at = "resolve" /\ at' \in {"init", "over"} /\ UNCHANGED <<tty, invocation>>
    BY <1>8 DEF Resolve, world
  <2>. QED  BY <2>1 DEF Places
<1>9. CASE InitTerminal \/ Listen \/ Restore
  BY <1>9 DEF InitTerminal, Listen, Restore, choice, Places
<1>10. CASE Identify \/ PickerLeaves \/ PickerPolls
  BY <1>10 DEF Identify, PickerLeaves, PickerPolls, world, choice, Places
<1>11. CASE PickerReads
  <2>1. at = "reading" /\ at' \in {"restore", "attach", "picker"} /\ UNCHANGED <<tty, invocation>>
    BY <1>11 DEF PickerReads, world
  <2>. QED  BY <2>1 DEF Places
<1>12. CASE Attach \/ Open
  BY <1>12 DEF Attach, Open, world, choice, Places
<1>13. CASE Turn
  BY <1>13, TurnDoes DEF world, choice, Places
<1>14. CASE LeaveDashboard
  BY <1>14 DEF LeaveDashboard, world, Places
<1>15. CASE UNCHANGED vars
  BY <1>a, <1>15 DEF vars, world, choice
<1>. HIDE DEF PlaceInv
<1>. QED  BY <1>2, <1>3, <1>4, <1>5, <1>6, <1>t, <1>7, <1>8, <1>9, <1>10, <1>11, <1>12, <1>13, <1>14,
             <1>15 DEF Next, Main

\* Handlers are in place from the first listen on; a signal that kills is the second
\* of its kind, or came before.
LEMMA SignalStep ==
  ASSUME SignalInv, [Next]_vars
  PROVE  SignalInv'
<1>. USE DEF SignalInv
<1>a. ASSUME UNCHANGED <<disposition, interrupted, sent>>, at' = at \/ at' # "killed"
      PROVE  SignalInv'
  BY <1>a
<1>2. CASE Arrive \/ End \/ Type \/ HangUp
  BY <1>a, <1>2 DEF Arrive, End, Type, HangUp, world
<1>3. ASSUME NEW s \in Signals, Signal(s) PROVE SignalInv'
  <2>1. /\ sent' = [sent EXCEPT ![s] = sent[s] + 1] /\ Running
        /\ \/ /\ disposition[s] = "caught" /\ interrupted' = TRUE /\ UNCHANGED at
              /\ disposition' = [disposition EXCEPT ![s] = "default"]
           \/ disposition[s] # "caught" /\ at' = "killed" /\ UNCHANGED <<disposition, interrupted>>
    BY <1>3 DEF Signal
  <2>2. /\ sent' \in [Signals -> Nat] /\ sent'[s] = sent[s] + 1
        /\ \A t \in Signals : t # s => sent'[t] = sent[t]
    BY <2>1
  <2>3. at # "killed"
    BY <2>1 DEF Running
  <2>4. CASE /\ disposition[s] = "caught" /\ interrupted' = TRUE /\ UNCHANGED at
             /\ disposition' = [disposition EXCEPT ![s] = "default"]
    <3>1. /\ disposition' \in [Signals -> {"default", "caught"}] /\ interrupted' \in BOOLEAN
          /\ \A t \in Signals : t # s => disposition'[t] = disposition[t]
      BY <2>4
    <3>2. \A t \in Signals : disposition[t] = "default" => sent[t] > 0
      BY <2>4
    <3>3. \A t \in Signals : disposition'[t] = "default" => sent'[t] > 0
      BY <2>2, <3>1, <3>2
    <3>. QED  BY <2>2, <2>3, <2>4, <3>1, <3>3
  <2>5. CASE disposition[s] # "caught" /\ at' = "killed" /\ UNCHANGED <<disposition, interrupted>>
    <3>1. disposition[s] = "default"
      BY <2>5
    <3>2. CASE ~interrupted /\ \A t \in Signals : disposition[t] = "default"
      BY <2>2, <2>5, <3>2
    <3>3. CASE \A t \in Signals : disposition[t] = "default" => sent[t] > 0
      <4>1. sent'[s] > 1
        BY <2>2, <3>1, <3>3
      <4>2. \A t \in Signals : disposition'[t] = "default" => sent'[t] > 0
        BY <2>2, <2>5, <3>3
      <4>. QED  BY <2>2, <2>5, <4>1, <4>2
    <3>. QED  BY <3>2, <3>3
  <2>. QED  BY <2>1, <2>4, <2>5
<1>4. ASSUME NEW i \in DOMAIN keyboards, KeyboardPolls(i) \/ KeyboardReads(i) PROVE SignalInv'
  BY <1>a, <1>4 DEF KeyboardPolls, KeyboardReads, world
<1>5. CASE ListProcesses \/ LookAt \/ ScanEnds \/ Resolve
  BY <1>a, <1>5 DEF ListProcesses, LookAt, ScanEnds, Resolve, world
<1>6. CASE InitTerminal \/ Restore
  BY <1>a, <1>6 DEF InitTerminal, Restore
<1>7. CASE Listen
  <2>1. /\ disposition' = [s \in Signals |-> "caught"] /\ UNCHANGED <<interrupted, sent>>
        /\ at' # "killed"
    BY <1>7 DEF Listen
  <2>2. /\ disposition' \in [Signals -> {"default", "caught"}]
        /\ \A s \in Signals : disposition'[s] # "default"
    BY <2>1
  <2>. QED  BY <2>1, <2>2
<1>8. CASE Identify \/ PickerLeaves \/ PickerPolls
  BY <1>a, <1>8 DEF Identify, PickerLeaves, PickerPolls, world
<1>9. CASE PickerReads
  BY <1>a, <1>9 DEF PickerReads, world
<1>10. CASE Attach \/ Open
  BY <1>a, <1>10 DEF Attach, Open, world
<1>11. CASE Turn
  BY <1>a, <1>11, TurnDoes DEF world
<1>12. CASE LeaveDashboard
  BY <1>a, <1>12 DEF LeaveDashboard, world
<1>13. CASE UNCHANGED vars
  BY <1>a, <1>13 DEF vars, world
<1>. HIDE DEF SignalInv
<1>. QED  BY <1>2, <1>3, <1>4, <1>5, <1>6, <1>7, <1>8, <1>9, <1>10, <1>11, <1>12, <1>13
          DEF Next, Main

----------------------------------------------------------------------------
(* What holds of every behaviour.                                          *)

\* All of it holds as countercow starts.
LEMMA InitInv ==
  ASSUME Init
  PROVE  Inv
<1>. USE DEF Init
<1>1. MachineInv
  <2>1. PICK m \in Machines : processes = m.processes /\ sockets = m.sockets
    OBVIOUS
  <2>2. /\ OnePerPid(m.processes) /\ IsFiniteSet(m.sockets) /\ Len(Arrivals) \in Nat
    BY TerminalAssumption
  <2>3. processes \subseteq Come(m) /\ sockets \subseteq Made(m) /\ at # "open"
    BY <2>1 DEF Come, Made
  <2>4. DOMAIN fates = {} /\ IsFiniteSet({})
    BY FS_EmptySet
  <2>. QED  BY <2>1, <2>2, <2>3, <2>4 DEF MachineInv, MachineOf, OnePerPid
<1>t. ScanInv
  BY DEF ScanInv
<1>2. ListInv
  BY NothingListed, EmptyPicks DEF ListInv
<1>3. RateInv
  <2>1. NewApp \in App /\ InitRate \in Nat
    BY AppAssumption DEF NewApp, App, Statuses, Exits, Views, Phases, NoRate, NoResult
  <2>. QED  BY <2>1 DEF RateInv
<1>4. KeyInv
  <2>1. Ended = {}
    BY DEF Ended
  <2>2. Cardinality(Ended) = 0
    BY <2>1, FS_EmptySet
  <2>. QED  BY <2>2 DEF KeyInv
<1>5. PlaceInv
  BY DEF PlaceInv, Places
<1>6. SignalInv
  BY DEF SignalInv
<1>. QED  BY <1>1, <1>t, <1>2, <1>3, <1>4, <1>5, <1>6 DEF Inv

\* Every step of the machine, of its users and of countercow keeps what the other
\* theorems need: where countercow is, what it holds by then and what it has still to do.
THEOREM TerminalInvariant ==
  Spec => []Inv
<1>1. Init => Inv
  BY InitInv
<1>2. Inv /\ [Next]_vars => Inv'
  <2>. SUFFICES ASSUME Inv, [Next]_vars PROVE Inv'
    OBVIOUS
  <2>1. MachineInv /\ ScanInv /\ ListInv /\ RateInv /\ KeyInv /\ PlaceInv /\ SignalInv
    BY DEF Inv
  <2>2. MachineInv' /\ ScanInv'
    BY <2>1, MachineStep, ScanStep
  <2>3. ListInv'
    BY <2>1, ListStep
  <2>4. RateInv'
    BY <2>1, RateStep
  <2>5. KeyInv'
    BY <2>1, KeyStep
  <2>6. PlaceInv'
    BY <2>1, PlaceStep
  <2>7. SignalInv'
    BY <2>1, SignalStep
  <2>. QED  BY <2>2, <2>3, <2>4, <2>5, <2>6, <2>7 DEF Inv
<1>. QED  BY <1>1, <1>2, PTL DEF Spec

\* Every state is well formed: the target is one at most, the selection of the picker
\* is in its list, and no more keys are lost than there have been keyboard threads.
THEOREM TerminalTypeCorrect ==
  Spec => []TypeOK
<1>1. Inv => TypeOK
  <2>. SUFFICES ASSUME Inv PROVE TypeOK
    OBVIOUS
  <2>. USE DEF Inv
  <2>1. processes \subseteq UNION {Processes(m) : m \in Machines}
    BY ComeAre DEF MachineInv, MachineOf
  <2>2. /\ \A i \in DOMAIN keyboards :
             keyboards[i] \in [state : {"polling", "reading", "gone"}, stop : BOOLEAN]
        /\ stolen \in 0 .. Len(keyboards)
    <3>1. keyboards \in Seq(Thread) /\ stolen \in Nat /\ stolen <= Cardinality(Ended)
      BY DEF KeyInv
    <3>2. /\ Cardinality(Ended) \in Nat /\ Cardinality(Ended) <= Len(keyboards)
          /\ Len(keyboards) \in Nat
      BY EndedCounted
    <3>3. \A i \in DOMAIN keyboards : keyboards[i] \in Thread
      BY <3>1
    <3>. QED  BY <3>1, <3>2, <3>3 DEF Thread
  <2>3. Len(target) <= 1
    <3>1. Len(<<>>) = 0 /\ \A endpoint : Len(<<endpoint>>) = 1
      OBVIOUS
    <3>2. target = <<>> \/ \E endpoint : target = <<endpoint>>
      BY DEF ListInv, Chosen
    <3>3. Len(target) = 0 \/ Len(target) = 1
      BY <3>1, <3>2, Zenon
    <3>. DEFINE l == Len(target)
    <3>4. l = 0 \/ l = 1
      BY <3>3
    <3>. HIDE DEF l
    <3>5. l <= 1
      BY <3>4
    <3>. QED  BY <3>5 DEF l
  <2>4. picker.selected \in DOMAIN picker.entries \cup {0}
    BY DEF ListInv, Picking
  <2>. QED  BY <2>1, <2>2, <2>3, <2>4 DEF TypeOK, PlaceInv, SignalInv, RateInv
<1>. QED  BY <1>1, TerminalInvariant, PTL

\* However countercow ends the terminal is restored, but for a signal that comes
\* twice, or before the handlers are in place.
THEOREM TerminalIsRestored ==
  Spec => []TerminalRestored
<1>1. Inv => TerminalRestored
  BY DEF Inv, PlaceInv, SignalInv, TerminalRestored
<1>. QED  BY <1>1, TerminalInvariant, PTL

\* Discovery lists what it should, however processes come and go, and pids are taken
\* over, between its looks at the sockets.
THEOREM DiscoveryFindsRight ==
  Spec => DiscoveryIsRight
<1>1. ASSUME Inv, [Next]_vars, at = "scan", at' \in {"identify", "resolve", "over"}
      PROVE  LET listed == found'.processes
                 ours(p) == invocation.uid \in {Root, p.uid}
                 ended == system \ processes
                 under(p) == {i \in DOMAIN listed : listed[i].pid = p.pid}
                 own(p) == {s \in directory \cap sockets :
                              s.named /\ ~s.long /\ Listening(processes, s) = {p}}
             IN /\ \A p \in processes \cap system : ours(p) /\ own(p) # {} =>
                     \E i \in DOMAIN listed : under(p) = {i} /\ listed[i].socket \in own(p)
                /\ \A i \in DOMAIN listed :
                     IF listed[i].start_key_verified THEN Listening(present, listed[i].socket) # {}
                     ELSE WithPid(ended, listed[i].pid) # {}
                /\ \A q \in present : ~ours(q) /\ under(q) # {} =>
                     \E p \in ended : p.pid = q.pid /\ ours(p)
                /\ \A i, j \in DOMAIN listed : i < j => ~NameBefore(listed[j].name, listed[i].name)
                /\ ended = {} =>
                     Len(listed) + Skipped(found') = Cardinality({s \in DOMAIN fates : s.named})
  <2>1. ScanEnds
    <3>1. ASSUME NEW s \in Signals, Signal(s) PROVE FALSE
      BY <1>1, <3>1 DEF Signal
    <3>2. ASSUME NEW i \in DOMAIN keyboards, KeyboardPolls(i) \/ KeyboardReads(i) PROVE FALSE
      BY <1>1, <3>2 DEF KeyboardPolls, KeyboardReads
    <3>3. ~(Arrive \/ End \/ Type \/ HangUp)
      BY <1>1 DEF Arrive, End, Type, HangUp
    <3>4. ~(ListProcesses \/ LookAt \/ Resolve \/ InitTerminal \/ Listen \/ Restore \/ Identify)
      BY <1>1 DEF ListProcesses, LookAt, Resolve, InitTerminal, Listen, Restore, Identify
    <3>5. ~(PickerLeaves \/ PickerPolls \/ PickerReads \/ Attach \/ Open \/ LeaveDashboard)
      BY <1>1 DEF PickerLeaves, PickerPolls, PickerReads, Attach, Open, LeaveDashboard
    <3>6. ~Turn
      BY <1>1, TurnDoes
    <3>7. ~UNCHANGED vars
      BY <1>1 DEF vars
    <3>. QED  BY <1>1, <3>1, <3>2, <3>3, <3>4, <3>5, <3>6, <3>7 DEF Next, Main
  <2>2. found' = Discovered(fates, sockets, system) /\ Due = {}
    BY <2>1 DEF ScanEnds
  <2>3. Scanned(fates, invocation.uid, system, processes, present)
    BY <1>1, ScanIs DEF Inv
  <2>4. directory \cap sockets \in SUBSET DOMAIN fates
    BY <1>1, <2>2 DEF Inv, ScanInv, Due
  <2>5. /\ OursListed(found', invocation.uid, directory \cap sockets, system, processes)
        /\ ListedAreThere(found', system, processes, present)
        /\ OthersNotListed(found', invocation.uid, system, processes, present)
        /\ ListedInOrder(found')
    BY <2>2, <2>3, <2>4, ListedIsRight
  <2>6. system \subseteq processes =>
          Len(found'.processes) + Skipped(found') = Cardinality({s \in DOMAIN fates : s.named})
    BY <2>2, <2>3, ListedAddsUp
  <2>7. system \ processes = {} => system \subseteq processes
    OBVIOUS
  <2>. QED  BY <2>5, <2>6, <2>7 DEF OursListed, ListedAreThere, OthersNotListed, ListedInOrder
<1>. QED  BY <1>1, TerminalInvariant, PTL DEF Spec, DiscoveryIsRight

\* A dashboard opens on the process that was chosen, at the rate that was shown.
THEOREM DashboardIsAsAsked ==
  Spec => AttachedAsAsked
<1>1. ASSUME Inv, [Next]_vars, at = "open", at' = "dashboard"
      PROVE  \E p \in processes :
               /\ session' = [on |-> {p}, stream |-> Opening(acknowledged)]
               /\ target[1].socket.key = p.start /\ target[1].pid = p.pid
               /\ info.pid = p.pid
               /\ info.assembly_name = IF p.commands = {PROCESS_INFO} THEN <<>> ELSE p.assembly
               /\ app'.interval = acknowledged
  <2>1. Open
    <3>1. ASSUME NEW s \in Signals, Signal(s) PROVE FALSE
      BY <1>1, <3>1 DEF Signal
    <3>2. ASSUME NEW i \in DOMAIN keyboards, KeyboardPolls(i) \/ KeyboardReads(i) PROVE FALSE
      BY <1>1, <3>2 DEF KeyboardPolls, KeyboardReads
    <3>3. ~(Arrive \/ End \/ Type \/ HangUp)
      BY <1>1 DEF Arrive, End, Type, HangUp
    <3>4. ~(ListProcesses \/ LookAt \/ ScanEnds \/ Resolve \/ InitTerminal \/ Listen \/ Restore \/ Identify)
      BY <1>1 DEF ListProcesses, LookAt, ScanEnds, Resolve, InitTerminal, Listen, Restore, Identify
    <3>5. ~(PickerLeaves \/ PickerPolls \/ PickerReads \/ Attach \/ LeaveDashboard)
      BY <1>1 DEF PickerLeaves, PickerPolls, PickerReads, Attach, LeaveDashboard
    <3>6. ~Turn
      BY <1>1, TurnDoes
    <3>7. ~UNCHANGED vars
      BY <1>1 DEF vars
    <3>. QED  BY <1>1, <3>1, <3>2, <3>3, <3>4, <3>5, <3>6, <3>7 DEF Next, Main
  <2>2. PICK m \in Machines : MachineOf(m) /\ arrived \in 0 .. Len(Arrivals)
    BY <1>1 DEF Inv, MachineInv
  <2>3. Distinct(Processes(m)) /\ processes \subseteq Processes(m)
    BY <2>2, ComeAre, TerminalAssumption DEF MachineOf
  <2>4. PICK q \in Processes(m) : info = ProcessInfo({q}) /\ info.ok /\ ChosenIs(q)
    BY <1>1, <2>2 DEF MachineOf
  <2>5. rate = acknowledged /\ rate \in Nat
    BY <1>1 DEF Inv, RateInv
  <2>6. /\ StartTracing(Behind, rate).ok
        /\ session' = [on |-> Behind, stream |-> StartTracing(Behind, rate).stream]
        /\ app' = [NewApp EXCEPT !.interval = rate]
    BY <1>1, <2>1 DEF Open
  <2>7. Behind # {}
    BY <2>6, NobodyIsThere
  <2>8. PICK p \in processes : Behind = {p} /\ ChosenIs(p)
    BY <2>3, <2>7, BehindIsChosen
  <2>9. p = q /\ IsProcess(p)
    BY <2>3, <2>4, <2>8 DEF Distinct, ChosenIs
  <2>10. StartTracing({p}, rate).stream = Opening(rate)
    BY <2>5, <2>6, <2>8, <2>9, SessionIsAsAsked
  <2>11. info.pid = p.pid
         /\ info.assembly_name = IF p.commands = {PROCESS_INFO} THEN <<>> ELSE p.assembly
    <3>1. ProcessInfo({p}).ok /\ info = ProcessInfo({p})
      BY <2>4, <2>9
    <3>. QED  BY <2>9, <3>1, InfoIsTheProcess, Zenon
  <2>12. target[1].pid = p.pid /\ target[1].socket.key = p.start
    <3>1. target[1].pid = target[1].socket.pid
      BY <1>1 DEF Inv, ListInv, Chosen, OwnPid
    <3>. QED  BY <2>8, <3>1 DEF ChosenIs
  <2>13. app'.interval = rate
    BY <2>6 DEF NewApp
  <2>14. session' = [on |-> {p}, stream |-> Opening(acknowledged)]
    BY <2>5, <2>6, <2>8, <2>10, Zenon
  <2>. QED  BY <2>5, <2>8, <2>11, <2>12, <2>13, <2>14
<1>. QED  BY <1>1, TerminalInvariant, PTL DEF Spec, AttachedAsAsked
=====================================================================================
