------------------------------- MODULE Findings --------------------------------
(***************************************************************************)
(* What an investigation learns besides collections: what allocates, what  *)
(* throws and what blocks.  The provider sends no field names, so each     *)
(* event is read by a layout that is known in advance (runtime/events.rs), *)
(* and added up by type (runtime/state.rs).                                *)
(*                                                                         *)
(* A payload is a sequence of cells of two bytes: a character is one, a    *)
(* u32 two and a u64 four, the lowest first.  Nothing is read across a     *)
(* cell, but for the contention event: its first cell is its flags and the *)
(* instance id, its second the duration.                                   *)
(***************************************************************************)
EXTENDS Naturals, Sequences, FiniteSetsExt, SequencesExt, Order

CONSTANT PointerSize   \* of the traced process, in cells: trace_info().pointer_size

ASSUME PointerAssumption == PointerSize \in {2, 4}

----------------------------------------------------------------------------
(* External: the payloads in which a runtime tells of an occurrence o.     *)

KindCode(kind) ==
  CASE kind = "Small" -> 0 [] kind = "Large" -> 1 [] kind = "Pinned" -> 2 [] kind = "Unknown" -> 3

\* Amount, kind, instance, amount in 64 bits, type id, type name, and the heap index
\* with what versions add to it.  Either the amount in 64 bits is given or the one in 32
\* is all there is.  Bound of the model: numbers of 64 bits fit two cells as well.
AllocationTick(o) ==
  LET low == IF o.wide THEN o.estimate ELSE o.amount
      full == IF o.wide THEN o.amount ELSE 0
  IN  <<low % 65536, low \div 65536, KindCode(o.kind), 0, 1, full % 65536, full \div 65536, 0, 0>>
        \o o.id \o o.name \o <<0>> \o o.rest

ExceptionThrown(o) == o.name \o <<0>> \o o.message \o <<0>> \o o.rest

ContentionStop(o) == <<0, o.amount>>

Letters == Nat \ {0}

\* What a runtime can have to tell.
IsAllocation(o) ==
  /\ o.type = "Allocation" /\ o.name \in Seq(Letters)
  /\ o.amount \in Nat /\ o.estimate \in Nat /\ o.wide \in BOOLEAN /\ (o.wide => o.amount > 0)
  /\ o.kind \in {"Small", "Large", "Pinned", "Unknown"}
  /\ o.id \in Seq(Nat) /\ Len(o.id) = PointerSize /\ o.rest \in Seq(Nat) /\ Len(o.rest) >= 2
IsException(o) ==
  /\ o.type = "Exception" /\ {o.name, o.message} \subseteq Seq(Letters) /\ o.rest \in Seq(Nat)
IsContention(o) == o.type = "Contention" /\ o.name = <<>> /\ o.amount \in Nat

----------------------------------------------------------------------------
(* Decoding.                                                               *)

NotDecoded == [ok |-> FALSE]

U32(p, at) == p[at] + 65536 * p[at + 1]
U64(p, at) == U32(p, at)

\* The cell that ends the text that starts at a position, or 0.
NulFrom(p, at) ==
  LET nuls == {i \in at .. Len(p) : p[i] = 0} IN IF nuls = {} THEN 0 ELSE Min(nuls)

TextFrom(p, at) == SubSeq(p, at, NulFrom(p, at) - 1)

AllocationKind(value) ==
  CASE value = 0 -> "Small" [] value = 1 -> "Large" [] value = 2 -> "Pinned" [] OTHER -> "Unknown"

\* Mutant: pointers are taken to have eight bytes.
DecodeAllocationTickWide(p) ==
  LET nul == NulFrom(p, 14)
  IN IF nul = 0 \/ Len(p) < nul + 2 THEN NotDecoded
     ELSE [ok |-> TRUE, amount |-> IF U64(p, 6) > 0 THEN U64(p, 6) ELSE U32(p, 1),
           kind |-> AllocationKind(U32(p, 3)), type_name |-> TextFrom(p, 14)]

\* What comes after the heap index nobody reads.
DecodeAllocationTick(p) ==
  LET name == 10 + PointerSize
      nul == NulFrom(p, name)
  IN IF nul = 0 \/ Len(p) < nul + 2 THEN NotDecoded
     ELSE [ok |-> TRUE, amount |-> IF U64(p, 6) > 0 THEN U64(p, 6) ELSE U32(p, 1),
           kind |-> AllocationKind(U32(p, 3)), type_name |-> TextFrom(p, name)]

DecodeExceptionThrown(p) ==
  LET message == NulFrom(p, 1) + 1
  IN IF message = 1 \/ NulFrom(p, message) = 0 THEN NotDecoded
     ELSE [ok |-> TRUE, type_name |-> TextFrom(p, 1), message |-> TextFrom(p, message)]

DecodeContentionStop(p) ==
  IF Len(p) < 2 THEN NotDecoded ELSE [ok |-> TRUE, duration |-> p[2]]

----------------------------------------------------------------------------
(* The tallies of RuntimeState: a site for each type.                      *)

NewFindings ==
  [allocations |-> <<>>, exceptions |-> <<>>,
   contention |-> [events |-> 0, total |-> 0, max |-> 0],
   total_allocated |-> 0, allocation_ticks |-> 0, total_exceptions |-> 0]

\* The entry of a type, or what a new one starts as.
EntryOr(sites, name, new) == IF name \in DOMAIN sites THEN sites[name] ELSE new

With(sites, name, site) ==
  [n \in DOMAIN sites \cup {name} |-> IF n = name THEN site ELSE sites[n]]

\* The large heap is the more interesting fact about a type.
KindNow(site, kind) == IF kind = "Large" THEN kind ELSE site.kind

RecordAllocation(f, tick) ==
  LET site == EntryOr(f.allocations, tick.type_name, [bytes |-> 0, ticks |-> 0, kind |-> tick.kind])
  IN [f EXCEPT !.total_allocated = @ + tick.amount, !.allocation_ticks = @ + 1,
        !.allocations = With(@, tick.type_name,
           [bytes |-> site.bytes + tick.amount, ticks |-> site.ticks + 1,
            kind |-> KindNow(site, tick.kind)])]

RecordException(f, thrown) ==
  LET site == EntryOr(f.exceptions, thrown.type_name, [message |-> thrown.message, count |-> 0])
  IN [f EXCEPT !.total_exceptions = @ + 1,
        !.exceptions = With(@, thrown.type_name, [site EXCEPT !.count = @ + 1])]

RecordContention(f, stop) ==
  [f EXCEPT !.contention = [events |-> @.events + 1, total |-> @.total + stop.duration,
                            max |-> Max({@.max, stop.duration})]]

\* The first `limit` types, those of the greatest weight first, then by name.
Top(weights, limit) ==
  LET names == DOMAIN weights
      before(a, b) ==
        weights[a] > weights[b] \/ (weights[a] = weights[b] /\ NameBefore(a, b))
      order == Sorted(names, {ab \in names \X names : before(ab[1], ab[2])})
  IN SubSeq(order, 1, Min({limit, Len(order)}))

TopAllocations(f, limit) ==
  Top([name \in DOMAIN f.allocations |-> f.allocations[name].bytes], limit)
TopExceptions(f, limit) ==
  Top([name \in DOMAIN f.exceptions |-> f.exceptions[name].count], limit)

\* In per cent, rounded down.
AllocationShare(f, name) ==
  IF f.total_allocated = 0 THEN 0 ELSE (f.allocations[name].bytes * 100) \div f.total_allocated
================================================================================
