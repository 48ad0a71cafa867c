---------------------------- MODULE MCBuildCallers ----------------------------
(* BuildCallers on a small instance: two builds whose calls overlap in any     *)
(* way, and a build with another one or a download whose callers are patient.  *)
EXTENDS BuildCallers, MCBuildLifecycle

\* Bound: the operations that are never asked for.
NeverAsked ==
  IF patient THEN \E b \in Builds \ {b1} : start[b] = "idle"
             ELSE \A d \in Downloads : start[d] = "idle"

MCCallersSpec == CallersInit /\ [][CallersNext /\ NeverAsked']_callersVars

MCCallersFairSpec == MCCallersSpec /\ Fairness
===============================================================================
