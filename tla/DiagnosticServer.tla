-------------------------- MODULE DiagnosticServer --------------------------
(***************************************************************************)
(* The traced .NET process, as countercow sees it through its diagnostic   *)
(* socket: a server that opens EventPipe sessions, writes each session's   *)
(* stream into a socket of its own, and answers a stop request only once   *)
(* everything the session still has to say - buffered events, and the      *)
(* rundown of a profile - has been written and the stream closed.          *)
(*                                                                         *)
(* This code is not in the repository.  It is modelled from how the        *)
(* repository relies on it: src/src/ipc/commands.rs:202-246 (start_tracing *)
(* keeps its connection as the event stream, "the caller must keep         *)
(* draining the stream while the stop is in flight"), and the session      *)
(* modules' trace_config.                                                  *)
(*                                                                         *)
(* Items of a stream are counted, never inspected.                         *)
(***************************************************************************)
EXTENDS Naturals

CONSTANTS
  MaxSessions,     \* bound: sessions one dashboard may open
  SocketCapacity,  \* stream items a socket buffer holds before a write blocks
  MaxBacklog       \* bound: items one session has to write in its lifetime

ASSUME ServerAssumption ==
  /\ MaxSessions \in Nat \ {0}
  /\ SocketCapacity \in Nat \ {0}
  /\ MaxBacklog \in Nat

\* Session ids.  The runtime never hands out an id twice, and 0 is no session.
Sid == 1 .. MaxSessions
NoSession == 0

VARIABLES
  alive,    \* the process is running
  opened,   \* how many sessions it has opened; they are numbered in that order
  server,   \* per session: "unopened", "open", "stopping" or "closed"
  backlog,  \* per session: items the runtime has still to write
  socket    \* per session: items written and not yet read

serverVars == <<alive, opened, server, backlog, socket>>

Opened == 1 .. opened

ServerTypeOK ==
  /\ alive \in BOOLEAN
  /\ opened \in 0 .. MaxSessions
  /\ server \in [Sid -> {"unopened", "open", "stopping", "closed"}]
  /\ backlog \in [Sid -> 0 .. MaxBacklog]
  /\ socket \in [Sid -> 0 .. SocketCapacity]

\* The process is running and has opened one session already: run_dashboard
\* opens the counter session before the event loop starts.  A session has at
\* most `traffic` items to write.
ServerInit(traffic) ==
  /\ alive = TRUE
  /\ opened = 1
  /\ server = [s \in Sid |-> IF s = 1 THEN "open" ELSE "unopened"]
  /\ \E n \in 0 .. traffic : backlog = [s \in Sid |-> IF s = 1 THEN n ELSE 0]
  /\ socket = [s \in Sid |-> 0]

----------------------------------------------------------------------------
(* Requests, made by the event loop as part of its own steps.              *)

\* CollectTracing2: the id of the session about to be opened, and its opening.
FreshSession == opened + 1

Open(traffic) ==
  /\ alive
  /\ opened < MaxSessions
  /\ opened' = FreshSession
  /\ server' = [server EXCEPT ![FreshSession] = "open"]
  /\ \E n \in 0 .. traffic : backlog' = [backlog EXCEPT ![FreshSession] = n]
  /\ UNCHANGED <<alive, socket>>

\* StopTracing reaches the server.  A session that is no longer open, or a
\* process that is gone, leaves nothing to ask.
RequestStop(s) ==
  /\ server' = [server EXCEPT ![s] = IF @ = "open" THEN "stopping" ELSE @]
  /\ UNCHANGED <<alive, opened, backlog, socket>>

StopComplete(s) == alive /\ server[s] = "closed"

----------------------------------------------------------------------------
(* The process's own steps.  hungUp is the set of sessions whose reading   *)
(* end countercow has closed.                                              *)

Writing(s) == server[s] \in {"open", "stopping"}

\* Write one item.  A full socket blocks the write.
Emit(s, hungUp) ==
  /\ Writing(s)
  /\ s \notin hungUp
  /\ backlog[s] > 0
  /\ socket[s] < SocketCapacity
  /\ backlog' = [backlog EXCEPT ![s] = @ - 1]
  /\ socket' = [socket EXCEPT ![s] = @ + 1]
  /\ UNCHANGED <<alive, opened, server>>

\* A stopping session has written all it had: close the stream and reply.
FinishStop(s) ==
  /\ server[s] = "stopping"
  /\ backlog[s] = 0
  /\ server' = [server EXCEPT ![s] = "closed"]
  /\ UNCHANGED <<alive, opened, backlog, socket>>

\* Writing to a socket nobody reads any more fails, and ends the session.
AbandonSession(s, hungUp) ==
  /\ Writing(s)
  /\ s \in hungUp
  /\ server' = [server EXCEPT ![s] = "closed"]
  /\ backlog' = [backlog EXCEPT ![s] = 0]
  /\ UNCHANGED <<alive, opened, socket>>

\* The process exits, taking every session with it.  What it had written can
\* still be read.
ProcessExits ==
  /\ alive
  /\ alive' = FALSE
  /\ server' = [s \in Sid |-> IF Writing(s) THEN "closed" ELSE server[s]]
  /\ backlog' = [s \in Sid |-> 0]
  /\ UNCHANGED <<opened, socket>>
=============================================================================
