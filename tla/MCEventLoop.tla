---------------------------- MODULE MCEventLoop ----------------------------
(***************************************************************************)
(* Constants of the model-checked instances of EventLoop.                  *)
(***************************************************************************)
EXTENDS EventLoop

RateKeys == {"minus", "plus", "i", "c", "q"}
ScreenKeys == {"i", "c"}
StopKeys == {"c", "i"}
StaleKeys == {"c"}

Flow(c, i, p) == [counters |-> c, investigation |-> i, profiling |-> p]
StopTraffic == Flow(0, 4, 3)
NoTraffic == Flow(0, 0, 0)
RateTraffic == Flow(0, 1, 1)
ScreenTraffic == Flow(1, 0, 1)
=============================================================================
