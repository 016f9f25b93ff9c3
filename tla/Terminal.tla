------------------------------- MODULE Terminal --------------------------------
(***************************************************************************)
(* countercow from its start to its end (main.rs, ui::run): the terminal   *)
(* and the signals, the target of the command line, the picker, a dashboard*)
(* after another, and the thread each dashboard reads the keyboard with.   *)
(*                                                                         *)
(* Two threads may ask the terminal for a key at once.  Asking whether one *)
(* is there (poll) and taking it (read) are two steps, and taking waits for*)
(* the next key if another thread has been quicker.                        *)
(*                                                                         *)
(* The dashboard is AppState's; what its readers and the sessions of its   *)
(* other screens do is EventLoop's subject, and here every request is      *)
(* answered or fails.                                                      *)
(***************************************************************************)
EXTENDS AppState, Discovery

CONSTANTS
  PickerKeys,     \* of the terminal's keys, those with no meaning to the dashboard
  Invocations,    \* how countercow may be started: [uid, kind, pid, name]
  Machines,       \* what it may find: [processes, sockets]
  Arrivals,       \* the processes that may start, in order, each with its socket
  Budgets         \* bounds of the model: [strokes, signals, deaths] of one behaviour

Signals == {"SIGTERM", "SIGHUP"}

\* The processes and the sockets that may come to be where m is what is found.
Processes(m) == m.processes \cup {Arrivals[i].process : i \in DOMAIN Arrivals}
Sockets(m) == m.sockets \cup {Arrivals[i].socket : i \in DOMAIN Arrivals}

\* A process is told from all others by its pid and its start.
Distinct(ps) ==
  /\ \A p \in ps : IsProcess(p) /\ p.start \in Nat /\ p.name \in Seq(Nat)
  /\ \A p, q \in ps : p.pid = q.pid /\ p.start = q.start => p = q
OnePerPid(ps) == \A p, q \in ps : p.pid = q.pid => p = q

\* No two files have one name, nor one place in the directory.
Filed(ss) ==
  /\ \A s \in ss : s.pid \in Nat /\ s.mtime \in Nat /\ s.named \in BOOLEAN /\ s.long \in BOOLEAN
  /\ \A s \in ss : s.place \in Nat
  /\ \A s, t \in ss : s.place = t.place => s = t
  /\ \A s, t \in ss : s.named /\ t.named /\ s.pid = t.pid /\ s.key = t.key => s = t

\* What arrives has not been there before, nor has its socket.
New(arrival, ps, ss) == arrival.process \notin ps /\ arrival.socket \notin ss

ASSUME TerminalAssumption ==
  /\ PickerKeys \cap KeyNames = {}
  /\ \A i \in Invocations : i.kind \in {"none", "pid", "name", "ps"}
  /\ DOMAIN Arrivals = 1 .. Len(Arrivals) /\ Len(Arrivals) \in Nat
  /\ \A m \in Machines :
       /\ Distinct(Processes(m)) /\ OnePerPid(m.processes)
       /\ IsFiniteSet(m.sockets) /\ Filed(Sockets(m))
       /\ \A i \in DOMAIN Arrivals :
            New(Arrivals[i], m.processes \cup {Arrivals[j].process : j \in 1 .. i - 1},
                             m.sockets \cup {Arrivals[j].socket : j \in 1 .. i - 1})
  /\ Budgets \subseteq [strokes : Nat, signals : Nat, deaths : Nat]

VARIABLES
  processes, sockets,   \* the machine's
  arrived,              \* how many processes have started
  budget,               \* what may still happen
  tty,                  \* "normal", "raw" or, the terminal having gone, "gone"
  disposition,          \* of each signal: "default" or "caught"
  interrupted,          \* INTERRUPTED
  sent,                 \* how often each signal has been sent
  typed,                \* the keys that nobody has taken
  keyboards,            \* a thread for each dashboard opened: [state, stop]
  stolen,               \* keys taken for a dashboard that was over
  channel,              \* keys sent to the dashboard
  at,                   \* where the main thread is
  invocation,           \* the command line and whose it is
  system,               \* the processes as discovery listed them
  directory,            \* the sockets there were when it opened the directory
  fates,                \* what became of each socket it has looked at
  present,              \* history: the processes there have been since it listed them
  found, picker, target,
  info,                 \* ProcessInfo of the target
  app, rate,            \* the dashboard, and the rate the next one starts from
  session,              \* the counter session's process and its stream, if open
  acknowledged          \* the rate the corner of the screen last showed

machine == <<processes, sockets, arrived>>
world == <<tty, disposition, interrupted, sent>>
keys == <<typed, keyboards, stolen>>
scan == <<system, directory, fates, present>>
choice == <<invocation, scan, found, picker, target>>
dashboard == <<info, app, rate, session, acknowledged>>
vars == <<budget, machine, world, keys, channel, at, choice, dashboard>>

NoInfo == Error("NotAsked")
NoSessionOpen == [on |-> {}, stream |-> <<>>]
Places == {"start", "scan", "resolve", "init", "listen", "choose", "identify", "picker",
           "reading", "attach", "open", "dashboard", "leaving", "restore", "over", "killed"}
Running == at \notin {"over", "killed"}

----------------------------------------------------------------------------
(* Around countercow (external).                                           *)

Arrive ==
  /\ Running /\ arrived < Len(Arrivals)
  /\ LET p == Arrivals[arrived + 1].process
     IN /\ WithPid(processes, p.pid) = {}
        /\ processes' = processes \cup {p}
        /\ sockets' = sockets \cup {Arrivals[arrived + 1].socket}
        /\ present' = IF at = "scan" THEN present \cup {p} ELSE present
  /\ arrived' = arrived + 1
  /\ UNCHANGED <<budget, world, keys, channel, at, invocation, system, directory, fates, found,
                 picker, target, dashboard>>

\* A process that ends in order takes its socket with it.
End ==
  /\ Running /\ budget.deaths > 0
  /\ \E p \in processes :
       /\ processes' = processes \ {p}
       /\ \/ UNCHANGED sockets
          \/ sockets' = {s \in sockets : p \notin Listening(processes, s)}
  /\ budget' = [budget EXCEPT !.deaths = @ - 1]
  /\ UNCHANGED <<arrived, world, keys, channel, at, choice, dashboard>>

Type ==
  /\ Running /\ tty # "gone" /\ budget.strokes > 0
  /\ \E k \in Keys \cup PickerKeys : typed' = Append(typed, k)
  /\ budget' = [budget EXCEPT !.strokes = @ - 1]
  /\ UNCHANGED <<machine, world, keyboards, stolen, channel, at, choice, dashboard>>

HangUp ==
  /\ Running /\ tty = "raw"
  /\ tty' = "gone" /\ typed' = <<>>
  /\ UNCHANGED <<budget, machine, disposition, interrupted, sent, keyboards, stolen, channel, at,
                 choice, dashboard>>

\* note_signal, or the death that is the default.
Signal(s) ==
  /\ Running /\ budget.signals > 0
  /\ budget' = [budget EXCEPT !.signals = @ - 1]
  /\ sent' = [sent EXCEPT ![s] = @ + 1]
  /\ IF disposition[s] = "caught"
     THEN /\ disposition' = [disposition EXCEPT ![s] = "default"]
          /\ interrupted' = TRUE
          /\ UNCHANGED at
     ELSE at' = "killed" /\ UNCHANGED <<disposition, interrupted>>
  /\ UNCHANGED <<machine, tty, keys, channel, choice, dashboard>>

----------------------------------------------------------------------------
(* The keyboard threads.                                                   *)

SpawnInputReader == Append(keyboards, [state |-> "polling", stop |-> FALSE])

\* The channel of a dashboard is there until run_dashboard returns.
Receiving(i) == i = Len(keyboards) /\ at \in {"open", "dashboard", "leaving"}

Keyboard(i, state) == keyboards' = [keyboards EXCEPT ![i].state = state]

KeyboardPolls(i) ==
  /\ Running /\ keyboards[i].state = "polling"
  /\ \/ tty = "gone" /\ Keyboard(i, "gone")
     \/ typed # <<>> /\ Keyboard(i, "reading")
     \/ typed = <<>> /\ tty # "gone" /\ keyboards[i].stop /\ Keyboard(i, "gone")
  /\ UNCHANGED <<budget, machine, world, typed, stolen, channel, at, choice, dashboard>>

\* What it takes is sent, or lost if there is nobody to send it to.
KeyboardReads(i) ==
  /\ Running /\ keyboards[i].state = "reading"
  /\ \/ /\ tty = "gone"
        /\ Keyboard(i, "gone") /\ UNCHANGED <<typed, stolen, channel>>
     \/ /\ typed # <<>>
        /\ typed' = Tail(typed)
        /\ IF Receiving(i)
           THEN /\ channel' = Append(channel, Head(typed))
                /\ Keyboard(i, IF keyboards[i].stop THEN "gone" ELSE "polling")
                /\ UNCHANGED stolen
           ELSE Keyboard(i, "gone") /\ stolen' = stolen + 1 /\ UNCHANGED channel
  /\ UNCHANGED <<budget, machine, world, at, choice, dashboard>>

----------------------------------------------------------------------------
(* From the command line to the terminal.                                  *)

\* discover: the directory is opened and the processes listed, or it cannot be.
ListProcesses ==
  /\ at = "start" \/ at = "choose"
  /\ \/ /\ at' = "scan"
        /\ system' = processes /\ present' = processes /\ directory' = sockets
     \/ /\ at' = IF at = "start" THEN "over" ELSE "restore"
        /\ UNCHANGED <<system, present, directory>>
  /\ UNCHANGED <<budget, machine, world, keys, channel, invocation, fates, found, picker, target,
                 dashboard>>

\* A socket behind all that were looked at, and those of them that are due.  One
\* removed or made since the directory was opened may be met in it or not.
Ahead(socket) == \A s \in DOMAIN fates : s.place < socket.place
Due == {s \in directory \cap sockets : Ahead(s)}

\* discover, one turn of its loop: the next socket, and the start of whoever has its
\* pid now.
LookAt ==
  /\ at = "scan"
  /\ \E s \in directory \cup sockets :
       /\ Ahead(s) /\ \A t \in Due : s.place <= t.place
       /\ fates' = [t \in DOMAIN fates \cup {s} |->
                      IF t = s THEN SocketFate(invocation.uid, s, system, processes)
                      ELSE fates[t]]
  /\ UNCHANGED <<budget, machine, world, keys, channel, at, invocation, system, directory, present,
                 found, picker, target, dashboard>>

\* discover, after its loop.  Where it was called from is told by the terminal, which
\* is untouched until the target is resolved.
ScanEnds ==
  /\ at = "scan" /\ Due = {}
  /\ found' = Discovered(fates, sockets, system)
  /\ at' = CASE tty # "normal" -> "identify"
             [] tty = "normal" /\ invocation.kind = "ps" -> "over"
             [] OTHER -> "resolve"
  /\ system' = {} /\ directory' = {} /\ fates' = <<>> /\ present' = {}
  /\ UNCHANGED <<budget, machine, world, keys, channel, invocation, picker, target, dashboard>>

\* resolve_target: one process, or an explanation.
Resolve ==
  /\ at = "resolve"
  /\ \E matches \in {Matches(invocation, found, processes)} :
       IF Cardinality(matches) = 1
       THEN /\ target' = <<found.processes[CHOOSE i \in matches : TRUE]>>
            /\ at' = "init"
       ELSE at' = "over" /\ UNCHANGED target
  /\ found' = NothingFound
  /\ UNCHANGED <<budget, machine, world, keys, channel, invocation, scan, picker, dashboard>>

InitTerminal ==
  /\ at = "init"
  /\ tty' = "raw" /\ at' = "listen"
  /\ UNCHANGED <<budget, machine, disposition, interrupted, sent, keys, channel, choice, dashboard>>

Listen ==
  /\ at = "listen"
  /\ disposition' = [s \in Signals |-> "caught"]
  /\ at' = IF target = <<>> THEN "choose" ELSE "attach"
  /\ UNCHANGED <<budget, machine, tty, interrupted, sent, keys, channel, choice, dashboard>>

\* Mutant: a session loop that failed is not tidied up after.
RestoreUnlessFailed ==
  /\ at = "restore"
  /\ tty' = IF tty = "gone" \/ target # <<>> THEN tty ELSE "normal"
  /\ at' = "over"
  /\ UNCHANGED <<budget, machine, disposition, interrupted, sent, keys, channel, choice, dashboard>>

\* Reached from every end of the session loop, an error included.
Restore ==
  /\ at = "restore"
  /\ tty' = IF tty = "gone" THEN tty ELSE "normal"
  /\ at' = "over"
  /\ UNCHANGED <<budget, machine, disposition, interrupted, sent, keys, channel, choice, dashboard>>

----------------------------------------------------------------------------
(* The picker.                                                             *)

\* Every process listed is asked who it is; one that does not say is shown anyway.
Identify ==
  /\ at = "identify"
  /\ picker' = NewPicker([i \in DOMAIN found.processes |-> Entry(found.processes[i], processes)])
  /\ found' = NothingFound
  /\ at' = "picker"
  /\ UNCHANGED <<budget, machine, world, keys, channel, invocation, scan, target, dashboard>>

PickerLeaves ==
  /\ \/ at = "picker" /\ (interrupted \/ tty = "gone")
     \/ at = "reading" /\ tty = "gone"
  /\ at' = "restore"
  /\ UNCHANGED <<budget, machine, world, keys, channel, choice, dashboard>>

\* Mutant: the picker waits for the key.
PickerPollsNothing ==
  /\ at = "picker" /\ ~interrupted /\ tty # "gone"
  /\ at' = "reading"
  /\ UNCHANGED <<budget, machine, world, keys, channel, choice, dashboard>>

PickerPolls ==
  /\ at = "picker" /\ ~interrupted /\ tty # "gone"
  /\ typed # <<>>
  /\ at' = "reading"
  /\ UNCHANGED <<budget, machine, world, keys, channel, choice, dashboard>>

PickerReads ==
  /\ at = "reading" /\ typed # <<>>
  /\ typed' = Tail(typed)
  /\ LET key == Head(typed)
         chosen == key = "Enter" /\ picker.selected # 0
     IN /\ at' = CASE key \in {"q", "Esc", "ctrl_c"} -> "restore"
                   [] chosen -> "attach"
                   [] OTHER -> "picker"
        /\ picker' = IF chosen THEN NewPicker(<<>>) ELSE PickerKey(picker, key)
        /\ target' = IF chosen THEN <<picker.entries[picker.selected].process>> ELSE target
  /\ UNCHANGED <<budget, machine, world, keyboards, stolen, channel, invocation, scan, found,
                 dashboard>>

----------------------------------------------------------------------------
(* The dashboard.                                                          *)

Behind == Listening(processes, target[1].socket)

\* The process chosen is asked who it is, and a keyboard thread started.
Attach ==
  /\ at = "attach"
  /\ \E answer \in {ProcessInfo(Behind)} :
       IF answer.ok
       THEN info' = answer /\ keyboards' = SpawnInputReader /\ at' = "open"
       ELSE at' = "restore" /\ UNCHANGED <<info, keyboards>>
  /\ UNCHANGED <<budget, machine, world, typed, stolen, channel, choice, app, rate, session,
                 acknowledged>>

\* A failure leaves the keyboard thread as it is, and ends countercow.
Open ==
  LET trace == StartTracing(Behind, rate)
  IN /\ at = "open"
     /\ IF trace.ok
        THEN /\ session' = [on |-> Behind, stream |-> trace.stream]
             /\ app' = [NewApp EXCEPT !.interval = rate]
             /\ at' = "dashboard"
        ELSE at' = "restore" /\ UNCHANGED <<session, app>>
     /\ channel' = <<>>
     /\ UNCHANGED <<budget, machine, world, keys, choice, info, rate, acknowledged>>

\* What the keys sent make of the dashboard, one after the other.
Handled(a, ks) ==
  LET after[n \in 0 .. Len(ks)] ==
        IF n = 0 THEN a
        ELSE HandleKey(after[n - 1], IF ks[n] \in Keys THEN ks[n] ELSE "other")
  IN  after[Len(ks)]

\* A turn of the event loop: every key sent, the rate if it has stood still, the
\* signal, the exit.
Turn ==
  LET handled == Handled(app, channel)
      wanted == WantedInterval(handled)
      trace == StartTracing(Behind, wanted)
      leave(a) == [a EXCEPT !.exit = IF interrupted THEN "Quit" ELSE @]
  IN /\ at = "dashboard"
     /\ channel # <<>> \/ interrupted \/ tty = "gone" \/ app.pending # NoRate
     /\ IF tty = "gone" THEN at' = "leaving" /\ UNCHANGED <<app, channel, session, acknowledged>>
        ELSE /\ channel' = <<>>
             /\ \/ app' = leave(handled) /\ UNCHANGED session
                \/ /\ handled.pending # NoRate
                   /\ app' = leave([handled EXCEPT !.pending = NoRate,
                                      !.interval = IF trace.ok THEN wanted ELSE @,
                                      !.status = IF trace.ok THEN @ ELSE "Failed"])
                   /\ session' = IF trace.ok THEN [on |-> Behind, stream |-> trace.stream]
                                 ELSE NoSessionOpen
             /\ acknowledged' = WantedInterval(app')
             /\ at' = IF app'.exit = "None" THEN "dashboard" ELSE "leaving"
     /\ UNCHANGED <<budget, machine, world, keys, choice, info, rate>>

\* Mutant: the rate in force is the one handed on.
LeaveAtLiveRate ==
  /\ at = "leaving"
  /\ session' = NoSessionOpen /\ channel' = <<>>
  /\ keyboards' = [keyboards EXCEPT ![Len(keyboards)].stop = TRUE]
  /\ rate' = app.interval
  /\ target' = <<>> /\ info' = NoInfo /\ app' = NewApp
  /\ at' = IF app.exit = "Detach" THEN "choose" ELSE "restore"
  /\ UNCHANGED <<budget, machine, world, typed, stolen, invocation, scan, found, picker,
                 acknowledged>>

\* The session is stopped, the keyboard thread told to stop, and the rate handed on.
LeaveDashboard ==
  /\ at = "leaving"
  /\ session' = NoSessionOpen /\ channel' = <<>>
  /\ keyboards' = [keyboards EXCEPT ![Len(keyboards)].stop = TRUE]
  /\ rate' = WantedInterval(app)
  /\ target' = <<>> /\ info' = NoInfo /\ app' = NewApp
  /\ at' = IF app.exit = "Detach" THEN "choose" ELSE "restore"
  /\ UNCHANGED <<budget, machine, world, typed, stolen, invocation, scan, found, picker,
                 acknowledged>>

----------------------------------------------------------------------------

Init ==
  /\ \E m \in Machines : processes = m.processes /\ sockets = m.sockets
  /\ arrived = 0 /\ budget \in Budgets
  /\ tty = "normal" /\ interrupted = FALSE
  /\ disposition = [s \in Signals |-> "default"]
  /\ sent = [s \in Signals |-> 0]
  /\ typed = <<>> /\ keyboards = <<>> /\ stolen = 0 /\ channel = <<>>
  /\ invocation \in Invocations
  /\ at = IF invocation.kind = "none" THEN "init" ELSE "start"
  /\ system = {} /\ directory = {} /\ fates = <<>> /\ present = {}
  /\ target = <<>> /\ picker = NewPicker(<<>>)
  /\ found = NothingFound
  /\ info = NoInfo /\ app = NewApp /\ rate = InitRate
  /\ session = NoSessionOpen /\ acknowledged = InitRate

Main ==
  \/ ListProcesses \/ LookAt \/ ScanEnds \/ Resolve
  \/ InitTerminal \/ Listen \/ Restore
  \/ Identify \/ PickerLeaves \/ PickerPolls \/ PickerReads
  \/ Attach \/ Open \/ Turn \/ LeaveDashboard

Next ==
  \/ Arrive \/ End \/ Type \/ HangUp \/ \E s \in Signals : Signal(s)
  \/ \E i \in DOMAIN keyboards : KeyboardPolls(i) \/ KeyboardReads(i)
  \/ Main

\* Where the main thread never stays for good while it can do something: everywhere
\* but in a picker nobody types to, a read with nothing to read, and a dashboard.
Moving ==
  /\ Running
  /\ CASE at = "picker" -> interrupted \/ tty = "gone" \/ typed # <<>>
       [] at = "reading" -> tty = "gone" \/ typed # <<>>
       [] at = "dashboard" -> interrupted \/ tty = "gone"
       [] OTHER -> TRUE
  /\ at' \in Places \ {at}

Spec == Init /\ [][Next]_vars /\ WF_at(Moving)

----------------------------------------------------------------------------
(* Properties.                                                             *)

TypeOK ==
  /\ processes \subseteq UNION {Processes(m) : m \in Machines}
  /\ at \in Places /\ tty \in {"normal", "raw", "gone"}
  /\ disposition \in [Signals -> {"default", "caught"}]
  /\ interrupted \in BOOLEAN
  /\ \A i \in DOMAIN keyboards :
       keyboards[i] \in [state : {"polling", "reading", "gone"}, stop : BOOLEAN]
  /\ stolen \in 0 .. Len(keyboards)
  /\ Len(target) <= 1
  /\ picker.selected \in DOMAIN picker.entries \cup {0}
  /\ app \in App /\ rate \in Nat

\* Processes end and start, their pids reused, between the listing and the looks at
\* the sockets (ipc/discovery.rs:212, discovery.rs:228).  Whatever happens: a process
\* of ours that was there all along is listed once and under the socket that it made;
\* what else is listed is verified by a process that was there meanwhile, or is the
\* entry of one that has ended; nobody else's process is listed but to root, unless
\* it took over, meanwhile, the pid of one of ours; the list is in order, and tells of
\* every socket looked at what came of it unless a process ended meanwhile.
DiscoveryIsRight ==
  [][at = "scan" /\ at' \in {"identify", "resolve", "over"} =>
       LET listed == found'.processes
           ours(p) == invocation.uid \in {Root, p.uid}
           ended == system \ processes
           under(p) == {i \in DOMAIN listed : listed[i].pid = p.pid}
           own(p) == {s \in directory \cap sockets :
                        s.named /\ ~s.long /\ Listening(processes, s) = {p}}
       IN /\ \A p \in processes \cap system : ours(p) /\ own(p) # {} =>
               \E i \in DOMAIN listed : under(p) = {i} /\ listed[i].socket \in own(p)
          /\ \A i \in DOMAIN listed :
               IF listed[i].start_key_verified THEN Listening(present, listed[i].socket) # {}
               ELSE WithPid(ended, listed[i].pid) # {}
          /\ \A q \in present : ~ours(q) /\ under(q) # {} =>
               \E p \in ended : p.pid = q.pid /\ ours(p)
          /\ \A i, j \in DOMAIN listed : i < j => ~NameBefore(listed[j].name, listed[i].name)
          /\ ended = {} =>
               Len(listed) + Skipped(found') = Cardinality({s \in DOMAIN fates : s.named})]_vars

\* A dashboard opens on the process that was listed when it was chosen, never on
\* one that has its pid since; with the name that process gives itself, in
\* whichever form of the answer its version has; and with a session at the rate
\* that the screen showed last, in the dashboard before included, whose stream
\* starts at its first byte (ui/mod.rs:220, ipc/frame.rs:3, commands.rs:111).
AttachedAsAsked ==
  [][at = "open" /\ at' = "dashboard" =>
       \E p \in processes :
         /\ session' = [on |-> {p}, stream |-> Opening(acknowledged)]
         /\ target[1].socket.key = p.start /\ target[1].pid = p.pid
         /\ info.pid = p.pid
         /\ info.assembly_name = IF p.commands = {PROCESS_INFO} THEN <<>> ELSE p.assembly
         /\ app'.interval = acknowledged]_vars

\* However countercow ends the shell gets its terminal back, a failure to attach and
\* the first signal of either kind included; but for a signal that comes a second
\* time, and one that comes before the handlers are in place (ui/mod.rs:71,
\* signals.rs:32).
TerminalRestored ==
  /\ at = "over" => tty # "raw"
  /\ at = "killed" /\ tty = "raw" =>
       \/ \E s \in Signals : sent[s] > 1
       \/ ~interrupted /\ \A s \in Signals : disposition[s] = "default"

\* A signal is noticed wherever it comes, in a dashboard, in the picker or on the
\* way from one to the other, and ends countercow; unless the picker waits for a
\* key that the keyboard thread of an earlier dashboard has taken from it
\* (ui/mod.rs:149, ui/mod.rs:218).
SignalEndsIt ==
  interrupted ~> (~Running \/ (at = "reading" /\ typed = <<>> /\ stolen > 0))
================================================================================
