---------------------------- MODULE MCInvestigation ----------------------------
(* Allocations of two types by three versions of the event, one of them with  *)
(* its amount in 32 bits only, exceptions of one type with two messages, and  *)
(* a wait for a lock.  Type ids and addresses are of a 32-bit process and     *)
(* begin with a character that would do in a name.                            *)
EXTENDS Investigation

Allocation(name, amount, kind, wide, id, rest) ==
  [type |-> "Allocation", name |-> name, amount |-> amount, kind |-> kind, wide |-> wide,
   estimate |-> 9, id |-> id, rest |-> rest]

Thrown(name, message) ==
  [type |-> "Exception", name |-> name, message |-> message, rest |-> <<90, 1, 5, 0, 0>>]

MCOccurrences ==
  <<Allocation(<<65, 66>>, 5, "Small", TRUE, <<90, 90>>, <<0, 0, 91, 91, 8, 0, 0, 0>>),
    Allocation(<<65, 66>>, 3, "Large", FALSE, <<90, 91>>, <<0, 0>>),
    Allocation(<<65>>, 7, "Pinned", TRUE, <<92, 90>>, <<1, 0, 91, 91>>),
    Thrown(<<67>>, <<70>>), Thrown(<<67>>, <<>>),
    [type |-> "Contention", name |-> <<>>, amount |-> 4]>>
================================================================================
