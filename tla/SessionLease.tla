---------------------------- MODULE SessionLease ----------------------------
(***************************************************************************)
(* What the dashboard promises the process it watches, whatever threads,   *)
(* channels and screens are involved: every session it opens is held for   *)
(* one purpose, no purpose ever holds two, a session that is let go of is  *)
(* asked to stop, and once the dashboard is being left nothing new is      *)
(* opened and everything held is let go of.                                *)
(***************************************************************************)
EXTENDS Naturals

CONSTANTS Purposes, FirstPurpose

VARIABLES
  given,    \* sessions opened so far; they are numbered from 1
  held,     \* per purpose, the session held for it, or 0
  asked,    \* sessions asked to stop
  leaving   \* the dashboard is being left

leaseVars == <<given, held, asked, leaving>>

LeaseInit ==
  /\ given = 1
  /\ held = [p \in Purposes |-> IF p = FirstPurpose THEN 1 ELSE 0]
  /\ asked = {}
  /\ leaving = FALSE

Acquire(p) ==
  /\ ~leaving
  /\ held[p] = 0
  /\ given' = given + 1
  /\ held' = [held EXCEPT ![p] = given']
  /\ UNCHANGED <<asked, leaving>>

Release(p) ==
  /\ held[p] # 0
  /\ asked' = asked \cup {held[p]}
  /\ held' = [held EXCEPT ![p] = 0]
  /\ UNCHANGED <<given, leaving>>

StartLeaving ==
  /\ ~leaving
  /\ leaving' = TRUE
  /\ UNCHANGED <<given, held, asked>>

LeaseNext == StartLeaving \/ \E p \in Purposes : Acquire(p) \/ Release(p)

LeaseSafety == LeaseInit /\ [][LeaseNext]_leaseVars

\* Once leaving, everything still held is let go of in the end.
LeaseSpec ==
  LeaseSafety /\ \A p \in Purposes : WF_leaseVars(leaving /\ Release(p))
=============================================================================
