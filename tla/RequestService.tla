---------------------------- MODULE RequestService ----------------------------
(***************************************************************************)
(* What the managers of one worker kind promise their callers: a request   *)
(* is handled once, one at a time per manager and in the order the manager *)
(* accepted it, at most Residents of them are being served at any moment   *)
(* over all the managers, and whoever waits is answered or told the worker *)
(* is gone.                                                                *)
(***************************************************************************)
EXTENDS Naturals, Sequences, FiniteSets

CONSTANTS Managers, Requests, None, Residents

VARIABLES
  queue,    \* the requests each manager has accepted and not yet begun
  ahead,    \* those its manager accepted before a request and has not yet begun
  running,  \* the request each manager is handling
  serving,  \* the managers whose running request a worker is serving
  told      \* what each caller has been told

vars == <<queue, ahead, running, serving, told>>

Answered == {"done", "gone", "error"}

Init ==
  /\ queue = [m \in Managers |-> {}]
  /\ ahead = [r \in Requests |-> {}]
  /\ running = [m \in Managers |-> None]
  /\ serving = {}
  /\ told = [r \in Requests |-> "unsent"]

Accept(m, r) ==
  /\ told[r] = "unsent"
  /\ told' = [told EXCEPT ![r] = "waiting"]
  /\ queue' = [queue EXCEPT ![m] = @ \cup {r}]
  /\ ahead' = [ahead EXCEPT ![r] = queue[m]]
  /\ UNCHANGED <<running, serving>>

\* The manager cannot take the request: the caller is told at once.
Decline(r) ==
  /\ told[r] = "unsent"
  /\ told' = [told EXCEPT ![r] = "gone"]
  /\ UNCHANGED <<queue, ahead, running, serving>>

\* It is r's turn, and r leaves the queue.
Leave(m, r) ==
  /\ r \in queue[m] /\ ahead[r] = {}
  /\ queue' = [queue EXCEPT ![m] = @ \ {r}]
  /\ ahead' = [q \in Requests |-> ahead[q] \ {r}]

Begin(m, r) ==
  /\ running[m] = None
  /\ Leave(m, r)
  /\ running' = [running EXCEPT ![m] = r]
  /\ UNCHANGED <<serving, told>>

Refuse(m, r) ==
  /\ running[m] = None
  /\ Leave(m, r)
  /\ \E a \in {"gone", "error"} : told' = [told EXCEPT ![r] = a]
  /\ UNCHANGED <<running, serving>>

Serve(m) ==
  /\ running[m] # None
  /\ m \notin serving
  /\ Cardinality(serving) < Residents
  /\ serving' = serving \cup {m}
  /\ UNCHANGED <<queue, ahead, running, told>>

\* The running request ends. Only one that is being served can be done.
Finish(m) ==
  /\ running[m] # None
  /\ \E a \in {"gone", "error"} \cup (IF m \in serving THEN {"done"} ELSE {}) :
       told' = [told EXCEPT ![running[m]] = a]
  /\ running' = [running EXCEPT ![m] = None]
  /\ serving' = serving \ {m}
  /\ UNCHANGED <<queue, ahead>>

\* The manager's loop fails: everyone it held is told so.
Fail(m) ==
  /\ told' = [r \in Requests |-> IF r = running[m] \/ r \in queue[m] THEN "gone" ELSE told[r]]
  /\ ahead' = [r \in Requests |-> IF r \in queue[m] THEN {} ELSE ahead[r]]
  /\ queue' = [queue EXCEPT ![m] = {}]
  /\ running' = [running EXCEPT ![m] = None]
  /\ serving' = serving \ {m}

Next ==
  \/ \E r \in Requests : Decline(r)
  \/ \E m \in Managers : Serve(m) \/ Finish(m) \/ Fail(m)
  \/ \E m \in Managers, r \in Requests : Accept(m, r) \/ Begin(m, r) \/ Refuse(m, r)

Spec == Init /\ [][Next]_vars
=============================================================================
