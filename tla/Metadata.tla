------------------------------- MODULE Metadata -------------------------------
(***************************************************************************)
(* Metadata records and the payloads they describe (nettrace/metadata.rs   *)
(* and nettrace/payload.rs): which fields an event has, in the two forms a *)
(* runtime writes them in, and the flat map of leaf fields made of a       *)
(* payload.  Cells are those of Wire.  A read is [ok, value, at], the      *)
(* cursor at after it.                                                     *)
(***************************************************************************)
EXTENDS Wire

----------------------------------------------------------------------------
(* Types.                                                                  *)

TypeCode ==
  [Object |-> 1, Boolean |-> 3, Char |-> 4, SByte |-> 5, Byte |-> 6, Int16 |-> 7, UInt16 |-> 8,
   Int32 |-> 9, UInt32 |-> 10, Int64 |-> 11, UInt64 |-> 12, Single |-> 13, Double |-> 14,
   Decimal |-> 15, DateTime |-> 16, Guid |-> 17, String |-> 18, Array |-> 19]

Numeric == {TypeCode[n] : n \in {"Boolean", "SByte", "Byte", "Int16", "UInt16", "Int32",
                                 "UInt32", "Int64", "UInt64", "Single", "Double"}}

\* A type is [kind, code, of]: the fields of an object, the element of an array.
Scalar(code) == [kind |-> "Scalar", code |-> code, of |-> <<>>]
ObjectOf(fields) == [kind |-> "Object", code |-> TypeCode.Object, of |-> fields]
ArrayOf(element) == [kind |-> "Array", code |-> TypeCode.Array, of |-> <<element>>]
Unmodelled(code) == [kind |-> "Unknown", code |-> code, of |-> <<>>]

ScalarOrUnknown(code) == IF code \in Range(TypeCode) THEN Scalar(code) ELSE Unmodelled(code)

Field(name, type) == [name |-> name, type |-> type]
FieldNamed(name, read) ==
  IF read.ok THEN ReadAs(Field(name, read.value), read.at) ELSE read

MaxTypeDepth == 16

\* The types of at most n levels of nesting, one in another.
Types[n \in Nat] ==
  LET inner == IF n = 0 THEN {} ELSE Types[n - 1]
  IN [kind : {"Scalar", "Object", "Array", "Unknown"}, code : Nat,
      of : Seq(inner \cup [name : STRING, type : inner])]

\* Bound of the model: arrays nest too, and the code does not count them.
FieldLists == Seq([name : STRING, type : Types[2 * MaxTypeDepth]])

----------------------------------------------------------------------------
(* Field lists.                                                            *)

\* count fields, each read by Read from where the one before it ended.
Repeated(count, at, Read(_)) ==
  FoldLeft(LAMBDA r, i :
             LET next == Read(r.at)
             IN IF ~r.ok \/ ~next.ok THEN NotRead ELSE ReadAs(Append(r.value, next.value), next.at),
           ReadAs(<<>>, at), [i \in 1 .. count |-> i])

\* fields are those that are read at a place and a depth.
ReadTypeV1(c, at, depth, fields) ==
  LET raw == Fixed(c, at)
      inner == fields[raw.at, depth + 1]
  IN IF ~raw.ok THEN raw
     ELSE IF raw.value # TypeCode.Object THEN ReadAs(ScalarOrUnknown(raw.value), raw.at)
     ELSE IF inner.ok THEN ReadAs(ObjectOf(inner.value), inner.at) ELSE inner

\* The type, and then the name.
ReadFieldV1(c, at, depth, fields) ==
  LET type == ReadTypeV1(c, at, depth, fields)
      name == Fixed(c, type.at)
  IN IF ~type.ok \/ ~name.ok THEN NotRead
     ELSE ReadAs(Field(Text(name.value), type.value), name.at)

ReadFieldsV1(c, start) ==
  LET fields[at \in Nat, depth \in Nat] ==
        LET count == Fixed(c, at)
        IN IF depth > MaxTypeDepth \/ ~count.ok THEN NotRead
           ELSE Repeated(count.value, count.at, LAMBDA p : ReadFieldV1(c, p, depth, fields))
  IN fields[start, 0]

\* A size that counts itself, the name, the type, and whatever is left of the size.
\* types are those that are read at a place of some cells and a depth.
ReadFieldV2(c, at, depth, types) ==
  LET size == Fixed(c, at)
      body == SubSeq(c, size.at + 1, at + size.value)
      name == Fixed(body, 0)
      field == FieldNamed(Text(name.value), types[body, name.at, depth])
  IN IF ~size.ok \/ size.value < 1 \/ at + size.value > Len(c) \/ ~name.ok \/ ~field.ok
     THEN NotRead ELSE ReadAs(field.value, at + size.value)

ReadFieldsV2(c, at, depth, types) ==
  LET count == Fixed(c, at)
  IN IF depth > MaxTypeDepth \/ ~count.ok THEN NotRead
     ELSE Repeated(count.value, count.at, LAMBDA p : ReadFieldV2(c, p, depth, types))

ReadTypeV2[c \in Seq(Nat), at \in Nat, depth \in Nat] ==
  LET raw == Fixed(c, at)
      element == ReadTypeV2[c, raw.at, depth + 1]
      inner == ReadFieldsV2(c, raw.at, depth + 1, ReadTypeV2)
  IN IF ~raw.ok THEN raw
     ELSE IF raw.value = TypeCode.Array
     THEN IF element.ok THEN ReadAs(ArrayOf(element.value), element.at) ELSE element
     ELSE IF raw.value = TypeCode.Object
     THEN IF inner.ok THEN ReadAs(ObjectOf(inner.value), inner.at) ELSE inner
     ELSE ReadAs(ScalarOrUnknown(raw.value), raw.at)

----------------------------------------------------------------------------
(* Records.                                                                *)

TagOpcode == 1
TagParameterPayloadV2 == 2
FixedFields == 7      \* cells ahead of the field list

\* What was read, with the cursor at end.
UpTo(end, read) == IF read.ok THEN ReadAs(read.value, end) ELSE NotRead

\* A tag, while there are two cells: a length, a kind, and a body, which only one
\* kind has a use for.
ReadTag(c, r) ==
  LET end == r.at + 2 + c[r.at + 1]
  IN IF ~r.ok \/ Len(c) - r.at < 2 THEN r
     ELSE IF end > Len(c) THEN NotRead
     ELSE UpTo(end, IF c[r.at + 2] # TagParameterPayloadV2 THEN r
                    ELSE ReadFieldsV2(SubSeq(c, r.at + 3, end), 0, 0, ReadTypeV2))

\* Tags until there is none: each takes two cells at least.
ReadTags(c, r) ==
  LET read[n \in 0 .. Len(c)] == IF n = 0 THEN r ELSE ReadTag(c, read[n - 1])
  IN read[CHOOSE n \in 0 .. Len(c) : ~read[n].ok \/ Len(c) - read[n].at < 2 \/ n = Len(c)]

NoRecord == [ok |-> FALSE]

RecordOf(c, fields) ==
  IF ~fields.ok THEN NoRecord
  ELSE [ok |-> TRUE, metadata_id |-> c[1], provider_name |-> Text(c[2]), event_id |-> c[3],
        event_name |-> Text(c[4]), fields |-> fields.value]

\* parse: a record from the payload of a row of a metadata block.
ParseMetadata(c) ==
  IF Len(c) < FixedFields THEN NoRecord
  ELSE RecordOf(c, ReadTags(c, IF Len(c) = FixedFields THEN ReadAs(<<>>, FixedFields)
                               ELSE ReadFieldsV1(c, FixedFields)))

\* MetadataStore: records by id, the last one parsed for each.
NewStore == <<>>
Put(f, key, value) == [k \in DOMAIN f \cup {key} |-> IF k = key THEN value ELSE f[k]]
Insert(store, record) == Put(store, record.metadata_id, record)

----------------------------------------------------------------------------
(* Payloads.                                                               *)

ValueKind(code) ==
  IF code \in Numeric THEN "Number" ELSE IF code = TypeCode.String THEN "String" ELSE "Other"

DecodeScalar(code, c, at) ==
  LET cell == Fixed(c, at)
  IN IF code \in {TypeCode.Object, TypeCode.Array} \/ ~cell.ok THEN NotRead
     ELSE ReadAs([kind |-> ValueKind(code), cell |-> cell.value], cell.at)

Opaque == [kind |-> "Other", cell |-> 0]
Elements(type, n) == [i \in 1 .. n |-> Field("", type)]

\* What a field adds to the leaves read so far, r.  leaves are those of a list of
\* fields from a place: an object takes no cells of its own, and those of its fields
\* go into the same map; an array is a count and its elements, whose leaves are not
\* kept.
DecodeField(field, c, r, leaves) ==
  LET type == field.type
      count == Fixed(c, r.at)
      scalar == DecodeScalar(type.code, c, r.at)
      nested == leaves[type.of, r.at]
      elements == leaves[Elements(type.of[1], count.value), count.at]
      add(read, new) == IF read.ok THEN ReadAs(new @@ r.value, read.at) ELSE NotRead
  IN IF ~r.ok THEN r
     ELSE CASE type.kind = "Object" -> add(nested, nested.value)
            [] type.kind = "Array" ->
                 IF count.ok THEN add(elements, field.name :> Opaque) ELSE NotRead
            [] type.kind = "Scalar" -> add(scalar, field.name :> scalar.value)
            [] type.kind = "Unknown" -> NotRead

DecodeFlat(fields, payload) ==
  LET leaves[list \in FieldLists, at \in Nat] ==
        FoldLeft(LAMBDA r, f : DecodeField(f, payload, r, leaves), ReadAs(<<>>, at), list)
  IN leaves[fields, 0]

----------------------------------------------------------------------------
(* What a runtime writes.                                                  *)

\* cells are those that a list of fields is written in.
WrittenTypeV1(type, cells) ==
  <<type.code>> \o (IF type.kind = "Object" THEN cells[type.of] ELSE <<>>)
WrittenFieldsV1(fields) ==
  LET cells[list \in FieldLists] ==
        <<Len(list)>> \o FlattenSeq([i \in DOMAIN list |->
          WrittenTypeV1(list[i].type, cells) \o <<Cell(list[i].name)>>])
  IN cells[fields]

\* One cell of padding ends each field.
WrittenTypeV2(type, cells) ==
  <<type.code>> \o (CASE type.kind = "Object" -> cells[type.of]
                      [] type.kind = "Array" -> <<type.of[1].code>>
                      [] OTHER -> <<>>)
WrittenFieldV2(field, cells) ==
  LET body == <<Cell(field.name)>> \o WrittenTypeV2(field.type, cells) \o <<0>>
  IN <<Len(body) + 1>> \o body
WrittenFieldsV2(fields) ==
  LET cells[list \in FieldLists] ==
        <<Len(list)>> \o FlattenSeq([i \in DOMAIN list |-> WrittenFieldV2(list[i], cells)])
  IN cells[fields]

\* Older runtimes write the first list; newer ones leave it empty, say the rest
\* in tags, and pad the record.
WrittenRecord(m, tagged) ==
  LET v2 == WrittenFieldsV2(m.fields)
      opcode == <<1, TagOpcode, 0>>
  IN <<m.metadata_id, Cell(m.provider_name), m.event_id, Cell(m.event_name), 0, 1, 4>>
       \o (IF tagged
           THEN <<0>> \o opcode \o <<Len(v2), TagParameterPayloadV2>> \o v2 \o <<0>>
           ELSE WrittenFieldsV1(m.fields))
=============================================================================
