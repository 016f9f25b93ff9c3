---------------------------------- MODULE Ipc ----------------------------------
(***************************************************************************)
(* The diagnostics protocol (ipc/frame.rs, encode.rs, decode.rs,           *)
(* commands.rs): one command per connection, a message being a header and  *)
(* a payload whose length the header gives.  After the answer that opens a *)
(* session the same connection carries the session's stream.               *)
(*                                                                         *)
(* Bytes are cells: each number takes one, whatever its width, and so does *)
(* a code unit of a text and the magic.  A result is a record with ok and, *)
(* when it is not, the error.                                              *)
(***************************************************************************)
EXTENDS Naturals, Sequences, SequencesExt

CONSTANTS
  SizeMax,     \* what the size field of a header can say
  Providers    \* PROVIDERS: the counter providers subscribed to, in order

ASSUME IpcAssumption ==
  /\ SizeMax \in Nat
  /\ Providers \in Seq(Seq(Nat)) \ {<<>>}

Magic == 9
HeaderSize == 4   \* magic, size, command set, command id

EventPipe == 2
Process == 4
Server == 255
COLLECT_TRACING2 == 3
PROCESS_INFO == 0
PROCESS_INFO2 == 4
PROCESS_INFO3 == 8
Ok == 0
ServerError == 255
UnknownCommand == 385
NotYetAvailable == 358

Error(kind) == [ok |-> FALSE, error |-> kind]

----------------------------------------------------------------------------
(* Messages.                                                               *)

EncodeMessage(set, id, payload) ==
  IF HeaderSize + Len(payload) > SizeMax THEN Error("PayloadTooLarge")
  ELSE [ok |-> TRUE, bytes |-> <<Magic, HeaderSize + Len(payload), set, id>> \o payload]

\* Takes exactly what the header announces; the rest of the stream is left alone.
ReadMessage(stream) ==
  CASE Len(stream) < HeaderSize -> Error("Io")
    [] Len(stream) >= HeaderSize /\ stream[1] # Magic -> Error("BadMagic")
    [] Len(stream) >= HeaderSize /\ stream[1] = Magic /\ stream[2] < HeaderSize ->
         Error("ShortMessage")
    [] OTHER ->
         IF Len(stream) < stream[2] THEN Error("Io")
         ELSE [ok |-> TRUE, set |-> stream[3], id |-> stream[4],
               payload |-> SubSeq(stream, HeaderSize + 1, stream[2]),
               rest |-> SubSeq(stream, stream[2] + 1, Len(stream))]

\* A message that is a success.
Successful(message) ==
  CASE ~message.ok -> message
    [] message.ok /\ message.set = Server /\ message.id = ServerError ->
         [ok |-> FALSE, error |-> "Server",
          hresult |-> IF message.payload = <<>> THEN 0 ELSE message.payload[1]]
    [] message.ok /\ ~(message.set = Server /\ message.id = ServerError) /\ message.id # Ok ->
         Error("UnexpectedResponse")
    [] OTHER -> message
ReadResponse(stream) == Successful(ReadMessage(stream))

----------------------------------------------------------------------------
(* Payloads.                                                               *)

\* PayloadWriter::string: the count includes the terminator.
String(text) == <<Len(text) + 1>> \o text \o <<0>>

\* How many cells of the buffer PayloadReader takes for a field.
FieldSize(buf, kind) == IF kind = "string" /\ buf # <<>> THEN 1 + buf[1] ELSE 1

\* Where each field of a layout ends in the buffer.
Ends(buf, layout) ==
  LET end[i \in 0 .. Len(layout)] ==
        IF i = 0 THEN 0
        ELSE end[i - 1] + FieldSize(SubSeq(buf, end[i - 1] + 1, Len(buf)), layout[i])
  IN  end

\* The values of the fields of a layout, a text without its terminator, and what
\* is left of the payload.
ReadFields(buf, layout) ==
  LET end == Ends(buf, layout)
      last == end[Len(layout)]
  IN IF last > Len(buf) THEN Error("TruncatedPayload")
     ELSE [ok |-> TRUE, rest |-> SubSeq(buf, last + 1, Len(buf)),
           values |-> [i \in DOMAIN layout |->
             IF layout[i] = "string" THEN SubSeq(buf, end[i - 1] + 2, end[i] - 1)
             ELSE SubSeq(buf, end[i - 1] + 1, end[i])]]

----------------------------------------------------------------------------
(* What is asked for.                                                      *)

\* Version, pid, cookie, command line, os, architecture, entry assembly, CLR
\* version and runtime identifier, as far as the command has them.
InfoLayout(id) ==
  (IF id = PROCESS_INFO3 THEN <<"u32">> ELSE <<>>)
  \o <<"u64", "guid", "string", "string", "string">>
  \o (IF id = PROCESS_INFO THEN <<>> ELSE <<"string", "string">>)
  \o (IF id = PROCESS_INFO3 THEN <<"string">> ELSE <<>>)

\* ProcessInfo, a text the command does not have being empty.
InfoOf(id, read) ==
  LET values == IF id = PROCESS_INFO3 THEN Tail(read.values) ELSE read.values
      text(i) == IF i \in DOMAIN values THEN values[i] ELSE <<>>
  IN IF ~read.ok THEN read
     ELSE [ok |-> TRUE, pid |-> values[1][1], command_line |-> text(3),
           assembly_name |-> text(6), clr_version |-> text(7)]

\* The fields of a provider subscribed to: no keywords, level 4, its name and its
\* filter, the rate.
Subscription(provider, interval) == <<<<0>>, <<4>>, String(provider), String(<<interval>>)>>

\* The payload of the counters' trace_config: 10 MB, nettrace, no rundown.
ConfigFields(interval) ==
  <<<<10>>, <<1>>, <<0>>, <<Len(Providers)>>>>
  \o FlattenSeq([i \in DOMAIN Providers |-> Subscription(Providers[i], interval)])
CounterConfig(interval) == FlattenSeq(ConfigFields(interval))

----------------------------------------------------------------------------
(* The runtime's side of it (external).  A process is                      *)
(* [pid, assembly, commands, health], commands being those of ProcessInfo  *)
(* its version has; one that is failing closes the connection in the       *)
(* middle of its answer.                                                   *)

Reply(set, id, payload) == EncodeMessage(set, id, payload).bytes

Description(process, id) ==
  (IF id = PROCESS_INFO3 THEN <<<<1>>>> ELSE <<>>)
  \o <<<<process.pid>>, <<77>>, String(process.assembly), String(<<5>>), <<0>>>>
  \o (IF id = PROCESS_INFO THEN <<>> ELSE <<String(process.assembly), String(<<9, 0>>)>>)
  \o (IF id = PROCESS_INFO3 THEN <<String(<<5, 6>>)>> ELSE <<>>)
Described(process, id) == FlattenSeq(Description(process, id))

\* A process, whose description of itself fits a message.
Commands == {PROCESS_INFO, PROCESS_INFO2, PROCESS_INFO3}
IsProcess(p) ==
  /\ p.pid \in Nat /\ p.assembly \in Seq(Nat)
  /\ p.commands \subseteq Commands /\ p.health \in {"ready", "starting", "failing"}
  /\ \A id \in Commands : HeaderSize + Len(Described(p, id)) <= SizeMax

\* The rate a request for counters asks of every provider, if it is one.
RateIn(n, read) ==
  LET rates == {read.values[4 + 4 * i] : i \in 1 .. n}
  IN IF read.ok /\ read.rest = <<>> /\ Cardinality(rates) = 1
        /\ [i \in 1 .. n |-> read.values[3 + 4 * i]] = Providers
     THEN (CHOOSE rate \in rates : TRUE)[1] ELSE 0
AskedRate(payload) ==
  LET n == IF Len(payload) >= 4 THEN payload[4] ELSE 0
      provider == <<"u64", "u32", "string", "string">>
  IN RateIn(n, ReadFields(payload, <<"u32", "u32", "bool", "u32">>
                                     \o FlattenSeq([i \in 1 .. n |-> provider])))

\* What a session's stream begins with: nettrace, and here the rate it reports at.
Opening(rate) == <<78, rate>>

Traces(message) == message.set = EventPipe /\ message.id = COLLECT_TRACING2

Replied(process, message) ==
  CASE process.health = "starting" -> Reply(Server, ServerError, <<NotYetAvailable>>)
    [] process.health # "starting" /\ message.set = Process
         /\ message.id \notin process.commands -> Reply(Server, ServerError, <<UnknownCommand>>)
    [] OTHER -> Reply(Server, Ok, IF Traces(message) THEN <<process.pid>>
                                  ELSE Described(process, message.id))

Sent(process, message, reply) ==
  CASE process.health = "failing" -> SubSeq(reply, 1, Len(reply) - 1)
    [] process.health = "ready" /\ Traces(message) ->
         reply \o Opening(AskedRate(message.payload))
    [] OTHER -> reply

Heard(process, message) == Sent(process, message, Replied(process, message))
Answer(process, request) == Heard(process, ReadMessage(request))

----------------------------------------------------------------------------
(* Commands, each on a connection of its own.  listening is the processes  *)
(* behind a socket: one, or none when it is stale.                         *)

Ask(listening, set, id, payload) ==
  LET request == EncodeMessage(set, id, payload)
  IN CASE listening = {} -> Error("Connect")
       [] listening # {} /\ ~request.ok -> request
       [] OTHER -> ReadResponse(Answer(CHOOSE p \in listening : TRUE, request.bytes))

\* The fields of a payload, or the failure there was instead.
Fields(response, layout) ==
  IF response.ok THEN ReadFields(response.payload, layout) ELSE response

RequestProcessInfo(listening, id) ==
  InfoOf(id, Fields(Ask(listening, Process, id, <<>>), InfoLayout(id)))

IsUnknown(result) == ~result.ok /\ result.error = "Server" /\ result.hresult = UnknownCommand

Unless(result, older) == IF IsUnknown(result) THEN older ELSE result

\* The newest command the runtime knows; any other failure is final.
ProcessInfo(listening) ==
  Unless(RequestProcessInfo(listening, PROCESS_INFO3),
    Unless(RequestProcessInfo(listening, PROCESS_INFO2),
      RequestProcessInfo(listening, PROCESS_INFO)))

Session(response, read) ==
  IF ~read.ok THEN read
  ELSE [ok |-> TRUE, session_id |-> read.values[1][1], stream |-> response.rest]
Started(response) == Session(response, Fields(response, <<"u64">>))

\* The session's stream is what follows the answer.
StartTracing(listening, interval) ==
  Started(Ask(listening, EventPipe, COLLECT_TRACING2, CounterConfig(interval)))
================================================================================
