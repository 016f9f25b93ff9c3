------------------------------- MODULE Discovery -------------------------------
(***************************************************************************)
(* Finding a process to watch: the sockets on disk against the processes   *)
(* there are (ipc/discovery.rs), the list the picker shows (ui/picker.rs)  *)
(* and the one process --pid or --name stands for (main.rs).               *)
(*                                                                         *)
(* A process is [pid, start, uid, name, assembly, commands, health]; pids  *)
(* are reused, with another start.  A socket file is                       *)
(* [pid, key, mtime, place, named, long]: the key is the start of the      *)
(* process that made it, place where it comes in the directory, named is   *)
(* FALSE when its name is not that of a diagnostic socket and long TRUE    *)
(* when its path does not fit SUN_PATH_MAX.  Names are in lower case, the  *)
(* way they are compared.                                                  *)
(***************************************************************************)
EXTENDS Integers, Ipc, Order

Root == 0

WithPid(system, pid) == {p \in system : p.pid = pid}
ProcessOf(system, pid) == CHOOSE p \in system : p.pid = pid

\* process_start_key: the start of whoever has the pid now, if anyone has.
StartKeys(processes, pid) == {p.start : p \in WithPid(processes, pid)}

\* The processes behind a socket: it stops being listened to with the one that made it.
Listening(processes, socket) ==
  {p \in processes : p.pid = socket.pid /\ p.start = socket.key}

----------------------------------------------------------------------------
(* Discovery.                                                              *)

\* Mutant: the key is not compared.
SocketFateByPid(uid, socket, system, processes) ==
  CASE ~socket.named -> "other"
    [] socket.named /\ WithPid(system, socket.pid) = {} -> "stale"
    [] OTHER -> "verified"

\* What becomes of a socket when uid looks at it.  system is the processes as listed;
\* the start of one is read now, when it may have gone or its pid be another's.
SocketFate(uid, socket, system, processes) ==
  LET starts == StartKeys(processes, socket.pid)
  IN CASE ~socket.named -> "other"
       [] socket.named /\ WithPid(system, socket.pid) = {} -> "stale"
       [] OTHER ->
            IF uid # Root /\ ProcessOf(system, socket.pid).uid # uid THEN "foreign"
            ELSE IF socket.long THEN "too_long"
            ELSE IF starts = {} THEN "unverified"
            ELSE IF socket.key \in starts THEN "verified" ELSE "mismatched"

\* A verified socket before one that is not, the latest written first, and those
\* written at once as they were met.
Better(a, b) ==
  \/ a.verified /\ ~b.verified
  \/ a.verified = b.verified /\ a.written > b.written
  \/ a.verified = b.verified /\ a.written = b.written /\ a.socket.place < b.socket.place

\* Neighbours with one pid are reduced to the first of them.
DedupByPid(candidates) ==
  LET firsts == {i \in DOMAIN candidates :
                   i = 1 \/ candidates[i].socket.pid # candidates[i - 1].socket.pid}
      order == Sorted(firsts, {ij \in firsts \X firsts : ij[1] < ij[2]})
  IN [i \in DOMAIN order |-> candidates[order[i]]]

\* By name, then by pid.
InOrder(found) ==
  LET before(i, j) ==
        \/ NameBefore(found[i].name, found[j].name)
        \/ found[i].name = found[j].name
             /\ (found[i].pid < found[j].pid \/ (found[i].pid = found[j].pid /\ i < j))
      listed == DOMAIN found
      order == Sorted(listed, {ij \in listed \X listed : before(ij[1], ij[2])})
  IN [i \in DOMAIN order |-> found[order[i]]]

Endpoints(candidates, system) ==
  [i \in DOMAIN candidates |->
     [pid |-> candidates[i].socket.pid, socket |-> candidates[i].socket,
      name |-> ProcessOf(system, candidates[i].socket.pid).name,
      start_key_verified |-> candidates[i].verified]]

\* mtime: a file that has gone counts as the oldest.
Mtime(files, socket) == IF socket \in files THEN socket.mtime ELSE 0

\* The end of discover, when every socket has its fate; files are those still there.
Discovered(fate, files, system) ==
  LET count(kind) == Cardinality({s \in DOMAIN fate : fate[s] = kind})
      usable == {[socket |-> s, verified |-> fate[s] = "verified", written |-> Mtime(files, s)] :
                   s \in {t \in DOMAIN fate : fate[t] \in {"verified", "unverified"}}}
      candidates == Sorted(usable, {ab \in usable \X usable : Better(ab[1], ab[2])})
  IN [processes |-> InOrder(Endpoints(DedupByPid(candidates), system)),
      stale |-> count("stale"), mismatched |-> count("mismatched"),
      foreign |-> count("foreign"), too_long |-> count("too_long")]

NothingFound ==
  [processes |-> <<>>, stale |-> 0, mismatched |-> 0, foreign |-> 0, too_long |-> 0]

Skipped(found) == found.stale + found.mismatched + found.foreign + found.too_long

----------------------------------------------------------------------------
(* One target, from the command line.                                      *)

Containing(text, needle) ==
  \E i \in 0 .. Len(text) - Len(needle) : SubSeq(text, i + 1, i + Len(needle)) = needle

\* The listed processes that --pid or --name can mean: those with the pid, else
\* those whose name contains the text, else those whose entry assembly does.
Matches(option, found, processes) ==
  LET listed == DOMAIN found.processes
      called(info) == info.ok /\ Containing(info.assembly_name, option.name)
      withPid == {i \in listed : found.processes[i].pid = option.pid}
      named == {i \in listed : Containing(found.processes[i].name, option.name)}
      assembled ==
        {i \in listed : called(ProcessInfo(Listening(processes, found.processes[i].socket)))}
  IN CASE option.kind = "pid" -> IF withPid = {} THEN {} ELSE {Min(withPid)}
       [] option.kind = "name" -> IF named # {} THEN named ELSE assembled

----------------------------------------------------------------------------
(* The picker.                                                             *)

Entry(process, processes) ==
  [process |-> process, info |-> ProcessInfo(Listening(processes, process.socket))]

\* Nothing is selected in an empty list.
NewPicker(entries) ==
  [entries |-> entries, selected |-> IF entries = <<>> THEN 0 ELSE 1]

\* Mutant: the end of the list is not minded.
MoveByFreely(picker, delta) ==
  IF picker.entries = <<>> THEN picker
  ELSE [picker EXCEPT !.selected = IF @ + delta < 1 THEN 1 ELSE @ + delta]

MoveBy(picker, delta) ==
  IF picker.entries = <<>> THEN picker
  ELSE [picker EXCEPT !.selected = Max({1, Min({@ + delta, Len(picker.entries)})})]

SelectFirst(picker) == IF picker.entries = <<>> THEN picker ELSE [picker EXCEPT !.selected = 1]
SelectLast(picker) == [picker EXCEPT !.selected = Len(picker.entries)]

\* What a key does to the picker, but for those that leave it.
PickerKey(picker, key) ==
  CASE key = "Up" -> MoveBy(picker, -1)
    [] key = "Down" -> MoveBy(picker, 1)
    [] key = "PageUp" -> MoveBy(picker, -10)
    [] key = "PageDown" -> MoveBy(picker, 10)
    [] key = "Home" -> SelectFirst(picker)
    [] key = "End" -> SelectLast(picker)
    [] OTHER -> picker
================================================================================
