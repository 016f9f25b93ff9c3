------------------------------ MODULE MCTerminal -------------------------------
(* Two processes, one in the host that all such apps have the name of, among  *)
(* the sockets of processes that are gone, of other users and of other kinds; *)
(* processes that take over a pid, one of them another user's; runtimes of    *)
(* three versions, one that is not ready and one that fails in the middle of  *)
(* its answer.                                                                *)
EXTENDS Terminal

MCProviders == <<<<1>>, <<2, 1>>>>
Host == <<4>>
Me == 1
Other == 2

Proc(pid, start, uid, name, assembly, commands, health) ==
  [pid |-> pid, start |-> start, uid |-> uid, name |-> name, assembly |-> assembly,
   commands |-> commands, health |-> health]

Sock(pid, key, mtime, place) ==
  [pid |-> pid, key |-> key, mtime |-> mtime, place |-> place, named |-> TRUE, long |-> FALSE]

V1 == {PROCESS_INFO}
V2 == V1 \cup {PROCESS_INFO2}
V3 == V2 \cup {PROCESS_INFO3}

Newest == Proc(1, 2, Me, Host, <<3>>, V3, "ready")
Older == Proc(2, 2, Me, <<3, 4>>, <<3, 4>>, V2, "ready")
Oldest == Proc(2, 2, Other, Host, <<3>>, V1, "ready")
Starting == Proc(1, 2, Me, <<3>>, <<3>>, V3, "starting")
Failing == Proc(2, 2, Me, Host, <<3>>, V2, "failing")

\* The sockets of processes 1 and 2, those of dead processes, and a file of another name.
Files == {Sock(1, 1, 5, 1), Sock(1, 2, 3, 3), [Sock(0, 0, 7, 4) EXCEPT !.named = FALSE],
          Sock(2, 2, 5, 5), Sock(3, 1, 6, 6)}

MCMachines ==
  {[processes |-> {Newest, Older}, sockets |-> Files],
   [processes |-> {Newest, Oldest},
    sockets |-> Files \cup {[Sock(4, 2, 8, 8) EXCEPT !.long = TRUE]}],
   [processes |-> {Starting, Failing}, sockets |-> Files]}

\* One of ours takes over pid 1, and one of another user's pid 2.
MCArrivals ==
  <<[process |-> Proc(1, 3, Me, <<3>>, <<3>>, V3, "ready"), socket |-> Sock(1, 3, 9, 7)],
    [process |-> Proc(2, 3, Other, <<3>>, <<3>>, V3, "ready"), socket |-> Sock(2, 3, 9, 2)]>>

MCBudgets ==
  {[strokes |-> 4, signals |-> 0, deaths |-> 0], [strokes |-> 1, signals |-> 0, deaths |-> 2],
   [strokes |-> 3, signals |-> 1, deaths |-> 0], [strokes |-> 2, signals |-> 2, deaths |-> 0]}

Invocation(uid, kind, pid, name) == [uid |-> uid, kind |-> kind, pid |-> pid, name |-> name]

MCInvocations ==
  {Invocation(Me, "none", 0, <<>>), Invocation(Root, "none", 0, <<>>),
   Invocation(Me, "pid", 1, <<>>), Invocation(Root, "name", 0, <<3>>),
   Invocation(Me, "ps", 0, <<>>)}
================================================================================
