------------------------------ MODULE MCProfile ------------------------------
(***************************************************************************)
(* Constants of the model-checked instances of Profile.                    *)
(***************************************************************************)
EXTENDS Profile

\* 11 and 12 are in Work, 21 is in Sleep, 31 is in no method.
MCAddresses == {11, 12, 21, 31}
MCMethods == {[start |-> 11, size |-> 2, name |-> "Work"],
              [start |-> 21, size |-> 5, name |-> "Sleep"],
              [start |-> 31, size |-> 0, name |-> "Stub"]}
MCJitted == {m \in MCMethods : m.name # "Sleep"}
MCStacks == {<<11, 31>>, <<21, 12, 12, 11>>}
MCWaitFrames == {"Sleep"}
=============================================================================
