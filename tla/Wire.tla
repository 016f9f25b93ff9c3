--------------------------------- MODULE Wire ---------------------------------
(***************************************************************************)
(* The nettrace format as countercow reads it: the readers                 *)
(* (nettrace/reader.rs), the envelope of an object (nettrace/fastserial.rs)*)
(* the rows of an event or metadata block (nettrace/event.rs and           *)
(* parse_event_rows), and next_events for one object (nettrace/blocks.rs). *)
(* The other direction, what a runtime writes, is external.                *)
(*                                                                         *)
(* Scale.  A stream is a sequence of cells, which are naturals.  A scalar  *)
(* of fixed width, a text and a 16-byte id take one cell each; a varuint   *)
(* takes one cell per digit, of 4 bits where the code has 7, and the words *)
(* it is cut to have 7 and 11 bits where the code has 32 and 64.  So a     *)
(* varuint32 has up to two digits and a varuint64 up to three, and both    *)
(* can hold more than their word, as the five and ten bytes of the code    *)
(* can.  Lengths and offsets count cells.                                  *)
(***************************************************************************)
EXTENDS Integers, Sequences, SequencesExt, FiniteSetsExt

CONSTANT Words   \* the texts that appear in a stream, in any order

ASSUME WordsAssumption == Words \in Seq(STRING) /\ IsInjective(Words)

----------------------------------------------------------------------------
(* Cells.                                                                  *)

FirstWord == 5000
Cell(word) == FirstWord + CHOOSE i \in DOMAIN Words : Words[i] = word

\* A text as it is read: what is not one decodes to nothing sensible.
Text(cell) == IF cell - FirstWord \in DOMAIN Words THEN Words[cell - FirstWord] ELSE "?"

Digit == 16
Word32 == 2 ^ 7
Word64 == 2 ^ 11
Digits32 == 2
Digits64 == 3

\* Bit k of a flags byte.
Bit(flags, k) == (flags \div (2 ^ k)) % 2 = 1

\* A read that failed, and one that yielded a value and left the cursor at at.
NotRead == [ok |-> FALSE, value |-> 0, at |-> 0]
ReadAs(v, at) == [ok |-> TRUE, value |-> v, at |-> at]

\* One cell after the cursor.
Fixed(c, at) == IF at < Len(c) THEN ReadAs(c[at + 1], at + 1) ELSE NotRead

\* Mutant: the last digit is never read.
VarUintShort(c, at, digits, word) ==
  LET last == {k \in 1 .. digits - 1 : at + k <= Len(c) /\ c[at + k] < Digit}
      n == Min(last)
      low == [j \in 1 .. n |-> (c[at + j] % Digit) * (Digit ^ (j - 1))]
  IN IF last = {} THEN NotRead ELSE ReadAs(FoldLeft(+, 0, low) % word, at + n)

\* The cells up to the first without a continuation, if that is within digits.
VarUint(c, at, digits, word) ==
  LET last == {k \in 1 .. digits : at + k <= Len(c) /\ c[at + k] < Digit}
      n == Min(last)
      low == [j \in 1 .. n |-> (c[at + j] % Digit) * (Digit ^ (j - 1))]
  IN IF last = {} THEN NotRead ELSE ReadAs(FoldLeft(+, 0, low) % word, at + n)

Written(n) ==
  IF n < Digit THEN <<n>>
  ELSE IF n < Digit ^ 2 THEN <<Digit + (n % Digit), n \div Digit>>
  ELSE <<Digit + (n % Digit), Digit + ((n \div Digit) % Digit), n \div (Digit ^ 2)>>

----------------------------------------------------------------------------
(* Headers.                                                                *)

ZeroHeader ==
  [metadata_id |-> 0, sequence_number |-> 0, capture_thread_id |-> 0, processor_number |-> 0,
   thread_id |-> 0, stack_id |-> 0, timestamp |-> 0, activity_id |-> 0,
   related_activity_id |-> 0, is_sorted |-> FALSE, payload_size |-> 0]

Always == 8      \* not a flag: the field is in every header
SortedFlag == 6

\* The fields of a compressed header in the order they are read, each with the
\* flag that says it is there.
HeaderFields ==
  <<<<"metadata_id", 0>>, <<"sequence_number", 1>>, <<"capture_thread_id", 1>>,
    <<"processor_number", 1>>, <<"thread_id", 2>>, <<"stack_id", 3>>, <<"timestamp", Always>>,
    <<"activity_id", 4>>, <<"related_activity_id", 5>>, <<"payload_size", 7>>>>

ReadField(c, at, field) ==
  IF field \in {"activity_id", "related_activity_id"} THEN Fixed(c, at)
  ELSE IF field \in {"capture_thread_id", "thread_id", "timestamp"}
  THEN VarUint(c, at, Digits64, Word64)
  ELSE VarUint(c, at, Digits32, Word32)

\* What a value read makes of the previous row's.
Carried(field, before, value) ==
  CASE field = "sequence_number" -> (before + value + 1) % Word32
    [] field = "timestamp" -> (before + value) % Word64
    [] OTHER -> value

Present(flags, f) == f[2] = Always \/ Bit(flags, f[2])

\* r is [ok, at, header]; a field is read into the header it carries forward.
Into(r, field, read) ==
  IF ~r.ok \/ ~read.ok THEN [r EXCEPT !.ok = FALSE]
  ELSE [ok |-> TRUE, at |-> read.at,
        header |-> [r.header EXCEPT ![field] = Carried(field, @, read.value)]]
TakeField(c, r, field) == Into(r, field, ReadField(c, r.at, field))

\* The fields that are there, from the cell after the flags on.
TakeFields(c, at, header) ==
  FoldLeft(LAMBDA r, f : IF Present(c[at + 1], f) THEN TakeField(c, r, f[1]) ELSE r,
           [ok |-> TRUE, at |-> at + 1, header |-> header], HeaderFields)

\* Mutant: nothing is carried over from the row before.
ReadCompressedAfresh(c, at, header) ==
  [TakeFields(c, at, ZeroHeader) EXCEPT !.header.is_sorted = Bit(c[at + 1], SortedFlag)]

\* What the flags say besides which fields there are.
Implied(flags, r) ==
  LET next == ~Bit(flags, 1) /\ r.header.metadata_id # 0
      header == [r.header EXCEPT !.is_sorted = Bit(flags, SortedFlag)]
  IN [r EXCEPT !.header = IF next THEN [header EXCEPT !.sequence_number = (@ + 1) % Word32]
                          ELSE header]

ReadCompressed(c, at, header) == Implied(c[at + 1], TakeFields(c, at, header))

HighBit == Word32 \div 2

\* Eleven cells; the high bit of the id is set when the event is NOT sorted.
ReadUncompressed(c, at) ==
  IF Len(c) - at < 11 THEN [ok |-> FALSE, at |-> at, header |-> ZeroHeader]
  ELSE [ok |-> TRUE, at |-> at + 11,
        header |-> [metadata_id |-> c[at + 2] % HighBit, is_sorted |-> c[at + 2] < HighBit,
                    sequence_number |-> c[at + 3], thread_id |-> c[at + 4],
                    capture_thread_id |-> c[at + 5], processor_number |-> c[at + 6],
                    stack_id |-> c[at + 7], timestamp |-> c[at + 8], activity_id |-> c[at + 9],
                    related_activity_id |-> c[at + 10], payload_size |-> c[at + 11]]]

----------------------------------------------------------------------------
(* The rows of a block.                                                    *)

MinBlockHeader == 4   \* size, flags, and two timestamps

RawEvent(header, payload) ==
  [metadata_id |-> header.metadata_id, timestamp |-> header.timestamp,
   stack_id |-> header.stack_id, payload |-> payload]

\* p, [ok, at, header, rows], and the row whose header r is, if all of it is there.
WithRow(c, p, r) ==
  LET end == r.at + r.header.payload_size
  IN IF ~r.ok \/ end > Len(c) THEN [p EXCEPT !.ok = FALSE]
     ELSE [ok |-> TRUE, at |-> end, header |-> r.header,
           rows |-> Append(p.rows, RawEvent(r.header, SubSeq(c, r.at + 1, end)))]

\* The next row of the block, unless it is used up.
UsedUp(c, p) == ~p.ok \/ p.at = Len(c)
NextRow(c, compressed, p) ==
  IF UsedUp(c, p) THEN p
  ELSE WithRow(c, p, IF compressed THEN ReadCompressed(c, p.at, p.header)
                     ELSE ReadUncompressed(c, p.at))

\* Rows until the block is used up: each takes a cell at least.
ParseRows(c, compressed, p) ==
  LET rows[n \in 0 .. Len(c)] == IF n = 0 THEN p ELSE NextRow(c, compressed, rows[n - 1])
  IN rows[CHOOSE n \in 0 .. Len(c) : UsedUp(c, rows[n]) \/ n = Len(c)]

ParseEventRows(c) ==
  IF Len(c) < MinBlockHeader \/ c[1] < MinBlockHeader \/ Len(c) < c[1]
  THEN [ok |-> FALSE, rows |-> <<>>]
  ELSE ParseRows(c, Bit(c[2], 0),
                 [ok |-> TRUE, at |-> c[1], header |-> ZeroHeader, rows |-> <<>>])

----------------------------------------------------------------------------
(* Objects.                                                                *)

NullReference == 1
BeginPrivateObject == 5
EndObject == 6
MaxNameLength == 1024
MaxBlockSize == 2 ^ 28
TraceBody == 7
HeaderLength == 8
Align == 4

Preamble == <<Cell("Nettrace"), 20, Cell("!FastSerialization.1")>>

\* Cells of padding, given how far into the stream the size field ends.
Padding(position) == (Align - (position % Align)) % Align

\* Mutant: the end of the data is the end of the stream.
ReadObjectHeaderAtEnd(w) ==
  IF w = <<>> \/ w[1] = NullReference THEN "End"
  ELSE IF Len(w) >= HeaderLength /\ w[8] = EndObject THEN Text(w[7]) ELSE "Malformed"

\* What read_object_header does with the unread cells w: tag by tag.
ReadObjectHeader(w) ==
  IF w # <<>> /\ w[1] = NullReference THEN "End"
  ELSE IF /\ Len(w) >= HeaderLength
          /\ SubSeq(w, 1, 3) = <<BeginPrivateObject, BeginPrivateObject, NullReference>>
          /\ w[6] \in 0 .. MaxNameLength
          /\ w[8] = EndObject
  THEN Text(w[7]) ELSE "Malformed"

\* The n cells after the first at of the stream's unread ones, if they come.
ReadExact(w, at, n) ==
  IF Len(w) < at + n THEN NotRead ELSE ReadAs(SubSeq(w, at + 1, at + n), at + n)

\* read_block_content: the size, the padding, and as many cells as the size.
BlockContent(w, position) ==
  LET start == HeaderLength + 1 + Padding(position + HeaderLength + 1)
  IN IF Len(w) <= HeaderLength \/ w[HeaderLength + 1] \notin 0 .. MaxBlockSize
     THEN NotRead ELSE ReadExact(w, start, w[HeaderLength + 1])

Parsed(type, rows, at) == [type |-> type, rows |-> rows, at |-> at]
Failed == Parsed("Malformed", <<>>, 0)

Body(w, position, type) ==
  IF type \in {"Trace", "Microsoft.DotNet.Runtime.EventPipeFile"}
  THEN ReadExact(w, HeaderLength, TraceBody) ELSE BlockContent(w, position)

ParsedRows(type, rows, at) == IF rows.ok THEN Parsed(type, rows.rows, at) ELSE Failed

\* An object of a type, whose body has been read and must be followed by its end.
ParsedObject(w, type, body) ==
  IF ~body.ok \/ body.at >= Len(w) \/ w[body.at + 1] # EndObject THEN Failed
  ELSE IF type \in {"EventBlock", "MetadataBlock"}
  THEN ParsedRows(type, ParseEventRows(body.value), body.at + 1)
  ELSE Parsed("Skipped", <<>>, body.at + 1)

\* One round of next_events' loop over w, whose first cell is at position in
\* the stream: what the object was, the rows it held, and the cells it took.
NextObject(w, position) ==
  LET type == ReadObjectHeader(w)
  IN CASE type = "Malformed" -> Failed
       [] type = "End" -> Parsed("End", <<>>, 1)
       [] OTHER -> ParsedObject(w, type, Body(w, position, type))

----------------------------------------------------------------------------
(* What a runtime writes.                                                  *)

\* The fields a writer stores for a row after the row before, by flag, and how.
Differs(before, row, k) ==
  CASE k = 0 -> row.metadata_id # before.metadata_id
    [] k = 1 -> \/ row.capture_thread_id # before.capture_thread_id
                \/ row.processor_number # before.processor_number
                \/ row.sequence_number
                     # (before.sequence_number + (IF row.metadata_id # 0 THEN 1 ELSE 0)) % Word32
    [] k = 2 -> row.thread_id # before.thread_id
    [] k = 3 -> row.stack_id # before.stack_id
    [] k = 4 -> row.activity_id # before.activity_id
    [] k = 5 -> row.related_activity_id # before.related_activity_id
    [] k = 6 -> row.is_sorted
    [] k = 7 -> row.payload_size # before.payload_size

WrittenHeader(before, row) ==
  LET bit(k) == IF Differs(before, row, k) THEN 1 ELSE 0
      when(k, cells) == IF Differs(before, row, k) THEN cells ELSE <<>>
  IN <<bit(0) + 2 * bit(1) + 4 * bit(2) + 8 * bit(3)
         + 16 * bit(4) + 32 * bit(5) + 64 * bit(6) + 128 * bit(7)>>
       \o when(0, Written(row.metadata_id))
       \o when(1, Written((row.sequence_number - before.sequence_number - 1) % Word32)
                    \o Written(row.capture_thread_id) \o Written(row.processor_number))
       \o when(2, Written(row.thread_id))
       \o when(3, Written(row.stack_id))
       \o Written((row.timestamp - before.timestamp) % Word64)
       \o when(4, <<row.activity_id>>)
       \o when(5, <<row.related_activity_id>>)
       \o when(7, Written(row.payload_size))

\* A row is [header, payload].
WrittenRows(rows) ==
  LET before(i) == IF i = 1 THEN ZeroHeader ELSE rows[i - 1].header
  IN FlattenSeq([i \in DOMAIN rows |->
       WrittenHeader(before(i), rows[i].header) \o rows[i].payload])

UncompressedRows(rows) ==
  FlattenSeq([i \in DOMAIN rows |->
    LET h == rows[i].header
    IN <<10 + h.payload_size, h.metadata_id + (IF h.is_sorted THEN 0 ELSE HighBit),
         h.sequence_number, h.thread_id, h.capture_thread_id, h.processor_number, h.stack_id,
         h.timestamp, h.activity_id, h.related_activity_id, h.payload_size>> \o rows[i].payload])

MaxRows == 1000000   \* bound of the model: fewer than fill a block

\* The header size, the flags, and two timestamps nobody reads.
WrittenBlock(rows, compressed) ==
  <<MinBlockHeader, IF compressed THEN 1 ELSE 0, 0, 0>>
    \o (IF compressed THEN WrittenRows(rows) ELSE UncompressedRows(rows))

\* An object written at position: the trace object has no size.
ObjectHeader(type) ==
  <<BeginPrivateObject, BeginPrivateObject, NullReference, 2, 2, 10, Cell(type), EndObject>>

WrittenTrace == ObjectHeader("Trace") \o [i \in 1 .. TraceBody |-> 0] \o <<EndObject>>
WrittenObject(type, content, position) ==
  ObjectHeader(type) \o <<Len(content)>>
    \o [i \in 1 .. Padding(position + HeaderLength + 1) |-> 0] \o content \o <<EndObject>>
=============================================================================
