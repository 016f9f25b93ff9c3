---------------------------- MODULE ProfileState ----------------------------
(***************************************************************************)
(* What a CPU profile is made of: the table of call stacks the parser      *)
(* keeps (StackTable, nettrace/blocks.rs), the counts a sample goes into   *)
(* (profile/state.rs), the table of methods (profile/methods.rs), and the  *)
(* hot methods they make.  Operators from one state to the next.           *)
(*                                                                         *)
(* A stack is a sequence of addresses, innermost first.  The order of the  *)
(* rows and the cut to a screenful are left out.                           *)
(***************************************************************************)
EXTENDS Naturals, Sequences, FiniteSets, Functions

CONSTANTS
  Addresses,   \* instruction pointers a thread can be found at
  Stacks,      \* call stacks a thread can be found with
  Methods,     \* methods the runtime reports
  WaitFrames,  \* WAIT_FRAMES: names of methods that only wait
  MaxStacks    \* bound: different stacks between two sequence points

Method == [start : Nat, size : Nat, name : STRING]

ASSUME ProfileAssumption ==
  /\ Addresses \subseteq Nat /\ IsFiniteSet(Addresses)
  /\ Stacks \subseteq Seq(Addresses)
  /\ Methods \subseteq Method /\ IsFiniteSet(Methods)
  /\ MaxStacks \in Nat

----------------------------------------------------------------------------
(* Stacks by id, in two generations.  Each definition is kept with the     *)
(* number of the generation the runtime defined it in; generations count   *)
(* from 1.                                                                 *)

StackIds == 1 .. MaxStacks
Definition == [gen : Nat, frames : Stacks]
NoStack == [gen |-> 0, frames |-> <<>>]

Table == [StackIds -> Definition \cup {NoStack}]
StackTable == [current : Table, previous : Table]

Undefined == [id \in StackIds |-> NoStack]
NewStackTable == [current |-> Undefined, previous |-> Undefined]

\* Mutants: only one generation is kept; the older one is preferred.
GetCurrent(table, id) == table.current[id]
GetOldest(table, id) ==
  IF table.previous[id] = NoStack THEN table.current[id] ELSE table.previous[id]

Get(table, id) ==
  IF table.current[id] = NoStack THEN table.previous[id] ELSE table.current[id]

Rotate(table) == [current |-> Undefined, previous |-> table.current]

\* A StackBlock: definitions for consecutive ids.
Define(table, first, definitions) ==
  [table EXCEPT !.current =
     [id \in StackIds |-> IF id \in first .. first + Len(definitions) - 1
                          THEN definitions[id - first + 1] ELSE @[id]]]

----------------------------------------------------------------------------
(* Counts.                                                                 *)

Counts == [Addresses -> Nat]
Tally == [self : Counts, total : Counts, samples : Nat, unresolved : Nat, empty : Nat]

NewTally ==
  [self |-> [a \in Addresses |-> 0], total |-> [a \in Addresses |-> 0],
   samples |-> 0, unresolved |-> 0, empty |-> 0]

\* Mutant: the innermost frame is not part of the total.
RecordStackCallersOnly(st, frames) ==
  IF frames = <<>> THEN [st EXCEPT !.samples = @ + 1, !.empty = @ + 1]
  ELSE [st EXCEPT !.samples = @ + 1,
                  !.self[Head(frames)] = @ + 1,
                  !.total = [a \in Addresses |-> IF a \in Range(Tail(frames)) THEN @[a] + 1 ELSE @[a]]]

\* An address counts once per stack.
RecordStack(st, frames) ==
  IF frames = <<>> THEN [st EXCEPT !.samples = @ + 1, !.empty = @ + 1]
  ELSE [st EXCEPT !.samples = @ + 1,
                  !.self[Head(frames)] = @ + 1,
                  !.total = [a \in Addresses |-> IF a \in Range(frames) THEN @[a] + 1 ELSE @[a]]]

\* Mutant: the sample itself is not counted.
RecordMissingStackOnly(st) == [st EXCEPT !.unresolved = @ + 1]

RecordMissingStack(st) == [st EXCEPT !.samples = @ + 1, !.unresolved = @ + 1]

UsableSamples(st) == st.samples - (st.unresolved + st.empty)

----------------------------------------------------------------------------
(* Methods.                                                                *)

NativeLabel == "(native / runtime code)"

\* Mutant: a method without code is kept.
InsertAny(methods, m) == methods \cup {m}

\* A method event of another shape decodes to no name or no address.
Insert(methods, m) ==
  IF m.name = "" \/ m.start = 0 \/ m.size = 0 THEN methods ELSE methods \cup {m}

Covers(m, address) == m.start <= address /\ address < m.start + m.size

\* The last method that starts at or below the address is the only candidate.
Resolve(methods, address) ==
  {m \in methods : /\ Covers(m, address)
                   /\ \A n \in methods : n.start <= address => n.start <= m.start}

LabelFor(methods, address) ==
  LET found == Resolve(methods, address)
  IN  IF found = {} THEN NativeLabel ELSE (CHOOSE m \in found : TRUE).name

\* The rows by method, and how the samples were split.
HotMethods(st, methods, includeWaiting) ==
  LET label == [a \in Addresses |-> LabelFor(methods, a)]
      shown == {a \in Addresses : includeWaiting \/ label[a] \notin WaitFrames}
      under(count, n) == SumFunctionOnSet(count, {a \in shown : label[a] = n})
      names == {label[a] : a \in {b \in shown : st.self[b] + st.total[b] > 0}}
  IN  [rows |-> {[name |-> n, self |-> under(st.self, n), total |-> under(st.total, n)] : n \in names},
       working |-> SumFunctionOnSet(st.self, shown),
       waiting |-> SumFunctionOnSet(st.self, Addresses \ shown)]
=============================================================================
