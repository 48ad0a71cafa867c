------------------------- MODULE WorkerManager_proofs -------------------------
(* Proofs about WorkerManager, for every number of managers and processes. *)
EXTENDS WorkerManager, FiniteSetTheorems, SequenceTheorems, TLAPS

-----------------------------------------------------------------------------
(* Type correctness.                                                       *)

\* A manager and its handle start out well typed (WorkerManager::new).
LEMMA InitTyped == Init => TypeOK
  BY ConstantsAssumption DEF Init, TypeOK, Commands, Killers

\* What a queue of a family of queues gains and loses.
LEMMA QueueTyped ==
  ASSUME NEW S, NEW f \in [Managers -> Seq(S)], NEW m \in Managers
  PROVE  /\ \A e \in S : [f EXCEPT ![m] = Append(@, e)] \in [Managers -> Seq(S)]
         /\ f[m] # <<>> => /\ Head(f[m]) \in S
                           /\ [f EXCEPT ![m] = Tail(@)] \in [Managers -> Seq(S)]
  <1>1. f[m] \in Seq(S)
    OBVIOUS
  <1>2. \A e \in S : Append(f[m], e) \in Seq(S)
    BY <1>1
  <1>3. f[m] # <<>> => Head(f[m]) \in S /\ Tail(f[m]) \in Seq(S)
    BY <1>1
  <1> QED BY <1>2, <1>3, Zenon

\* The steps that several actions share keep the types.
LEMMA PopTyped ==
  ASSUME TypeOK, NEW m \in Managers, HasCommand(m), PopCommand(m)
  PROVE  /\ chan' \in [Managers -> Seq(Commands)]
         /\ deferred' \in [Managers -> Seq(Commands)]
         /\ Command(m) \in Commands
  <1>1. chan \in [Managers -> Seq(Commands)] /\ deferred \in [Managers -> Seq(Commands)]
    BY DEF TypeOK
  <1>2. CASE deferred[m] # <<>>
    <2>1. /\ Head(deferred[m]) \in Commands
          /\ [deferred EXCEPT ![m] = Tail(@)] \in [Managers -> Seq(Commands)]
      BY <1>1, <1>2, QueueTyped
    <2> QED BY <1>1, <1>2, <2>1 DEF PopCommand, Command
  <1>3. CASE deferred[m] = <<>>
    <2>1. chan[m] # <<>>
      BY <1>3 DEF HasCommand
    <2>2. /\ Head(chan[m]) \in Commands
          /\ [chan EXCEPT ![m] = Tail(@)] \in [Managers -> Seq(Commands)]
      BY <1>1, <2>1, QueueTyped
    <2> QED BY <1>1, <1>3, <2>2 DEF PopCommand, Command
  <1> QED BY <1>2, <1>3

\* Clearing a worker keeps the types of what it changes.
LEMMA ClearTyped ==
  ASSUME TypeOK, NEW m \in Managers, NEW c \in {"next", "permit"}, ClearWorker(m, c)
  PROVE  /\ local' \in [Managers -> Procs \cup {None}]
         /\ slot' \in [Managers -> Procs \cup {None}]
         /\ closing' \in [Managers -> Procs \cup {None}]
         /\ pc' \in [Managers -> {"next", "clear", "permit", "spawn", "write", "serve", "panicked"}]
         /\ permits' \in SUBSET Managers
  BY DEF TypeOK, ClearWorker

\* So does a stop, from whatever thread it comes.
LEMMA StopTyped ==
  ASSUME TypeOK, NEW m \in Managers, NEW s \in Stops, Stop(m, s)
  PROVE  /\ stops' \in Nat
         /\ slot' \in [Managers -> Procs \cup {None}]
         /\ killers' \in SUBSET Killers
         /\ chan' \in [Managers -> Seq(Commands)]
  <1>1. stops' \in Nat /\ slot' \in [Managers -> Procs \cup {None}]
    BY DEF TypeOK, Stop
  <1>2. killers' \in SUBSET Killers
    BY DEF TypeOK, Stop, Killers
  <1>3. chan' \in [Managers -> Seq(Commands)]
    BY DEF TypeOK, Stop, Commands
  <1> QED BY <1>1, <1>2, <1>3

\* Every step of the handle, the loop, the shutdowns and the processes does.
LEMMA NextTyped ==
  ASSUME TypeOK, [Next]_vars
  PROVE  TypeOK'
  <1> USE ConstantsAssumption
  <1>1. ASSUME NEW m \in Managers, NEW r \in Requests, Submit(m, r)
        PROVE  TypeOK'
    <2>1. r \in Commands
      BY DEF Commands
    <2>2. chan \in [Managers -> Seq(Commands)]
      BY DEF TypeOK
    <2>3. [chan EXCEPT ![m] = Append(@, r)] \in [Managers -> Seq(Commands)]
      BY <2>1, <2>2, QueueTyped
    <2>4. chan' \in [Managers -> Seq(Commands)]
      BY <1>1, <2>2, <2>3 DEF Submit
    <2> QED BY <1>1, <2>4 DEF TypeOK, Submit, loopVars, Answered
  <1>2. ASSUME NEW m \in Managers, Seal(m)
        PROVE  TypeOK'
    BY <1>2, StopTyped DEF TypeOK, Seal, loopVars, Stops
  <1>3. ASSUME NEW m \in Managers, Unseal(m)
        PROVE  TypeOK'
    BY <1>3 DEF TypeOK, Unseal, loopVars
  <1>4. ASSUME NEW m \in Managers, RequestShutdown(m)
        PROVE  TypeOK'
    BY <1>4, StopTyped DEF TypeOK, RequestShutdown, loopVars, Stops
  <1>5. ASSUME NEW k \in killers, KillerStrikes(k)
        PROVE  TypeOK'
    BY <1>5 DEF TypeOK, KillerStrikes, handleVars, loopVars
  <1>6. ASSUME NEW k \in killers, KillerReaps(k)
        PROVE  TypeOK'
    BY <1>6 DEF TypeOK, KillerReaps, loopVars
  <1>7. ASSUME NEW p \in Procs, ExitsAfterKnock(p) \/ WorkerDies(p)
        PROVE  TypeOK'
    <2>1. proc' = [proc EXCEPT ![p] = "gone"]
      BY <1>7 DEF ExitsAfterKnock, WorkerDies
    <2>2. UNCHANGED <<handleVars, loopVars, permits, sidecar, killers, answer, stops, panics, bornSealed>>
      BY <1>7 DEF ExitsAfterKnock, WorkerDies
    <2> QED BY <2>1, <2>2 DEF TypeOK, handleVars, loopVars
  <1>8. ASSUME NEW m \in Managers, ClearCloses(m)
        PROVE  TypeOK'
    BY <1>8 DEF TypeOK, ClearCloses, handleVars, loopVars
  <1>9. ASSUME NEW m \in Managers, ClearReturns(m)
        PROVE  TypeOK'
    BY <1>9 DEF TypeOK, ClearReturns
  <1>10. ASSUME NEW m \in Managers, TakeShutdown(m)
         PROVE  TypeOK'
    BY <1>10, PopTyped, ClearTyped DEF TypeOK, TakeShutdown
  <1>11. ASSUME NEW m \in Managers, RefuseSubmit(m)
         PROVE  TypeOK'
    BY <1>11, PopTyped DEF TypeOK, RefuseSubmit, Answered
  <1>12. ASSUME NEW m \in Managers, TakeSubmit(m)
         PROVE  TypeOK'
    <2>1. /\ chan' \in [Managers -> Seq(Commands)]
          /\ deferred' \in [Managers -> Seq(Commands)]
      BY <1>12, PopTyped DEF TakeSubmit
    <2>2. CASE NeedsRestart(m, Command(m)) /\ local[m] # None
      BY <1>12, <2>1, <2>2, ClearTyped DEF TypeOK, TakeSubmit
    <2>3. CASE ~(NeedsRestart(m, Command(m)) /\ local[m] # None)
      BY <1>12, <2>1, <2>3 DEF TypeOK, TakeSubmit
    <2> QED BY <2>2, <2>3
  <1>13. ASSUME NEW m \in Managers, NEW p \in Procs, SpawnSucceeds(m, p)
         PROVE  TypeOK'
    BY <1>13 DEF TypeOK, SpawnSucceeds
  <1>14. ASSUME NEW m \in Managers, SpawnFails(m)
         PROVE  TypeOK'
    BY <1>14 DEF TypeOK, SpawnFails, handleVars, Answered
  <1>15. ASSUME NEW m \in Managers, StartRequest(m)
         PROVE  TypeOK'
    BY <1>15 DEF TypeOK, StartRequest, handleVars, sharedVars
  <1>16. ASSUME NEW m \in Managers, WorkerAnswers(m)
         PROVE  TypeOK'
    <2>1. answer' \in [Requests -> {"unsent", "waiting"} \cup Answered]
      BY <1>16 DEF TypeOK, WorkerAnswers, Answered
    <2> QED BY <1>16, <2>1 DEF TypeOK, WorkerAnswers, handleVars
  <1>17. ASSUME NEW m \in Managers, WorkerGone(m)
         PROVE  TypeOK'
    BY <1>17, ClearTyped DEF TypeOK, WorkerGone, Answered
  <1>18. ASSUME NEW m \in Managers, IdleTimeout(m)
         PROVE  TypeOK'
    BY <1>18, ClearTyped DEF TypeOK, IdleTimeout
  <1>19. ASSUME NEW m \in Managers, Restart(m)
         PROVE  TypeOK'
    BY <1>19 DEF TypeOK, Restart, sharedVars
  <1>20. ASSUME NEW m \in Managers, Acquire(m)
         PROVE  TypeOK'
    BY <1>20 DEF TypeOK, Acquire, handleVars
  <1>21. ASSUME NEW m \in Managers, Defer(m)
         PROVE  TypeOK'
    BY <1>21 DEF TypeOK, Defer, sharedVars
  <1>22. ASSUME NEW m \in Managers, Panic(m)
         PROVE  TypeOK'
    BY <1>22 DEF TypeOK, Panic, Answered
  <1>23. CASE UNCHANGED vars
    BY <1>23 DEF TypeOK, vars
  <1> QED
    BY <1>1, <1>2, <1>3, <1>4, <1>5, <1>6, <1>7, <1>8, <1>9, <1>10, <1>11, <1>12, <1>13,
       <1>14, <1>15, <1>16, <1>17, <1>18, <1>19, <1>20, <1>21, <1>22, <1>23
       DEF Next, LoopStep

\* Every variable keeps its type, whatever is stopped, killed or panics.
THEOREM TypeCorrect == Spec => []TypeOK
  <1>1. Init => TypeOK
    BY InitTyped
  <1>2. TypeOK /\ [Next]_vars => TypeOK'
    BY NextTyped
  <1> QED BY <1>1, <1>2, PTL DEF Spec

-----------------------------------------------------------------------------
(* The permit.                                                             *)

\* What the loop holds at each point of its control.
LoopShape ==
  \A m \in Managers :
    /\ pc[m] \in {"clear", "permit", "spawn", "panicked"} => local[m] = None
    /\ pc[m] \in {"write", "serve"} => local[m] # None
    /\ pc[m] \in {"next", "panicked"} => cur[m] = None
    /\ pc[m] = "clear" <=> closing[m] # None

LoopInv == LoopShape /\ PermitFollowsWorker

\* Clearing a worker, from a loop that has one and that will be back in its
\* shape wherever it continues.
LEMMA ClearKeepsLoop ==
  ASSUME TypeOK, LoopInv, NEW m \in Managers, NEW c \in {"next", "permit"},
         ClearWorker(m, c), local[m] # None, closing[m] = None,
         cur' \in [Managers -> Requests \cup {None}],
         \A n \in Managers \ {m} : cur'[n] = cur[n],
         c = "next" => cur'[m] = None
  PROVE  LoopInv'
  <1>1. /\ local' = [local EXCEPT ![m] = None]
        /\ \A n \in Managers \ {m} : /\ closing'[n] = closing[n] /\ pc'[n] = pc[n]
                                     /\ n \in permits' <=> n \in permits
    BY DEF ClearWorker, TypeOK
  <1>2. CASE slot[m] # None
    <2>1. /\ closing'[m] # None /\ pc'[m] = "clear" /\ permits' = permits
      BY <1>2 DEF ClearWorker, TypeOK
    <2> QED BY <1>1, <2>1 DEF LoopInv, LoopShape, PermitFollowsWorker, TypeOK
  <1>3. CASE slot[m] = None
    <2>1. /\ closing'[m] = None /\ pc'[m] = c /\ m \notin permits'
      BY <1>3 DEF ClearWorker, TypeOK
    <2> QED BY <1>1, <2>1 DEF LoopInv, LoopShape, PermitFollowsWorker, TypeOK
  <1> QED BY <1>2, <1>3

\* Every step leaves each loop in the shape its place in the code has.
LEMMA NextKeepsLoop ==
  ASSUME TypeOK, LoopInv, [Next]_vars
  PROVE  LoopInv'
  <1> USE DEF LoopInv, LoopShape, PermitFollowsWorker
  <1>1. ASSUME UNCHANGED <<pc, cur, local, closing, permits>>
        PROVE  LoopInv'
    BY <1>1
  <1>2. ASSUME NEW m \in Managers, ClearReturns(m)
        PROVE  LoopInv'
    BY <1>2 DEF TypeOK, ClearReturns
  <1>3. ASSUME NEW m \in Managers, TakeShutdown(m)
        PROVE  LoopInv'
    <2>1. CASE local[m] = None
      BY <1>1, <1>3, <2>1 DEF TakeShutdown
    <2>2. CASE local[m] # None
      BY <1>3, <2>2, ClearKeepsLoop DEF TypeOK, TakeShutdown
    <2> QED BY <2>1, <2>2
  <1>4. ASSUME NEW m \in Managers, TakeSubmit(m)
        PROVE  LoopInv'
    <2>1. /\ pc[m] = "next" /\ closing[m] = None
          /\ cur' \in [Managers -> Requests \cup {None}]
          /\ \A n \in Managers \ {m} : cur'[n] = cur[n]
      BY <1>4 DEF TypeOK, TakeSubmit
    <2>2. CASE NeedsRestart(m, Command(m)) /\ local[m] # None
      <3>1. ClearWorker(m, "permit")
        BY <1>4, <2>2 DEF TakeSubmit
      <3> QED BY <2>1, <2>2, <3>1, ClearKeepsLoop
    <2>3. CASE NeedsRestart(m, Command(m)) /\ local[m] = None
      <3>1. pc' = [pc EXCEPT ![m] = "permit"] /\ UNCHANGED <<local, closing, permits>>
        BY <1>4, <2>3 DEF TakeSubmit
      <3> QED BY <2>1, <2>3, <3>1 DEF TypeOK
    <2>4. CASE ~NeedsRestart(m, Command(m))
      <3>1. local[m] # None
        BY <2>4 DEF NeedsRestart
      <3>2. pc' = [pc EXCEPT ![m] = "write"] /\ UNCHANGED <<local, closing, permits>>
        BY <1>4, <2>4 DEF TakeSubmit
      <3> QED BY <2>1, <3>1, <3>2 DEF TypeOK
    <2> QED BY <2>2, <2>3, <2>4
  <1>5. ASSUME NEW m \in Managers, NEW p \in Procs, SpawnSucceeds(m, p)
        PROVE  LoopInv'
    BY <1>5, ConstantsAssumption DEF TypeOK, SpawnSucceeds
  <1>6. ASSUME NEW m \in Managers, SpawnFails(m)
        PROVE  LoopInv'
    BY <1>6 DEF TypeOK, SpawnFails
  <1>7. ASSUME NEW m \in Managers, StartRequest(m)
        PROVE  LoopInv'
    BY <1>7 DEF TypeOK, StartRequest, sharedVars
  <1>8. ASSUME NEW m \in Managers, WorkerAnswers(m)
        PROVE  LoopInv'
    BY <1>8 DEF TypeOK, WorkerAnswers
  <1>9. ASSUME NEW m \in Managers, WorkerGone(m)
        PROVE  LoopInv'
    <2>1. /\ local[m] # None /\ closing[m] = None
          /\ cur' = [cur EXCEPT ![m] = None]
      BY <1>9 DEF WorkerGone
    <2> QED BY <1>9, <2>1, ClearKeepsLoop DEF TypeOK, WorkerGone
  <1>10. ASSUME NEW m \in Managers, IdleTimeout(m)
         PROVE  LoopInv'
    BY <1>10, ClearKeepsLoop DEF TypeOK, IdleTimeout
  <1>11. ASSUME NEW m \in Managers, Restart(m)
         PROVE  LoopInv'
    BY <1>11 DEF TypeOK, Restart, sharedVars
  <1>12. ASSUME NEW m \in Managers, Acquire(m)
         PROVE  LoopInv'
    BY <1>12 DEF TypeOK, Acquire
  <1>13. ASSUME NEW m \in Managers, Panic(m)
         PROVE  LoopInv'
    BY <1>13 DEF TypeOK, Panic
  <1>14. ASSUME NEW m \in Managers, NEW r \in Requests, Submit(m, r)
         PROVE  LoopInv'
    BY <1>1, <1>14 DEF Submit, loopVars
  <1>15. ASSUME NEW m \in Managers, Seal(m) \/ Unseal(m) \/ RequestShutdown(m)
         PROVE  LoopInv'
    BY <1>1, <1>15 DEF Seal, Unseal, RequestShutdown, loopVars
  <1>16. ASSUME NEW k \in killers, KillerStrikes(k) \/ KillerReaps(k)
         PROVE  LoopInv'
    BY <1>1, <1>16 DEF KillerStrikes, KillerReaps, loopVars
  <1>17. ASSUME NEW p \in Procs, ExitsAfterKnock(p) \/ WorkerDies(p)
         PROVE  LoopInv'
    BY <1>1, <1>17 DEF ExitsAfterKnock, WorkerDies, loopVars
  <1>18. ASSUME NEW m \in Managers, ClearCloses(m) \/ RefuseSubmit(m) \/ Defer(m)
         PROVE  LoopInv'
    BY <1>1, <1>18 DEF ClearCloses, RefuseSubmit, Defer, loopVars, sharedVars
  <1>19. CASE UNCHANGED vars
    BY <1>1, <1>19 DEF vars
  <1> QED
    BY <1>2, <1>3, <1>4, <1>5, <1>6, <1>7, <1>8, <1>9, <1>10, <1>11, <1>12, <1>13, <1>14,
       <1>15, <1>16, <1>17, <1>18, <1>19
       DEF Next, LoopStep

\* A loop holds a permit exactly while it starts, serves or stops a worker: no
\* path, of an error, a kill or a panic, keeps a permit without a worker or a
\* worker of the loop without a permit.
THEOREM PermitsFollow == Spec => []PermitFollowsWorker
  <1>1. Init => LoopInv
    BY DEF Init, LoopInv, LoopShape, PermitFollowsWorker
  <1>2. TypeOK /\ LoopInv /\ [Next]_vars => LoopInv'
    BY NextKeepsLoop
  <1>3. LoopInv => PermitFollowsWorker
    BY DEF LoopInv
  <1> QED BY <1>1, <1>2, <1>3, TypeCorrect, PTL DEF Spec

\* The permits change by one release or by one admission below the bound.
LEMMA PermitsChange ==
  ASSUME TypeOK, [Next]_vars
  PROVE  \/ \E m \in Managers : permits' = permits \ {m}
         \/ permits' = permits
         \/ \E m \in Managers : permits' = permits \cup {m} /\ Cardinality(permits) < Residents
  <1>1. CASE \E m \in Managers : Acquire(m)
    BY <1>1 DEF Acquire
  <1>2. CASE \E m \in Managers :
               \/ ClearReturns(m) \/ SpawnFails(m) \/ Panic(m)
               \/ TakeShutdown(m) \/ TakeSubmit(m) \/ WorkerGone(m) \/ IdleTimeout(m)
    BY <1>2 DEF ClearReturns, SpawnFails, Panic, TakeShutdown, TakeSubmit, WorkerGone,
                IdleTimeout, ClearWorker
  <1>3. CASE \E m \in Managers :
               \/ ClearCloses(m) \/ RefuseSubmit(m) \/ Defer(m) \/ StartRequest(m)
               \/ WorkerAnswers(m) \/ Restart(m)
               \/ Seal(m) \/ Unseal(m) \/ RequestShutdown(m)
               \/ (\E p \in Procs : SpawnSucceeds(m, p))
               \/ (\E r \in Requests : Submit(m, r))
    BY <1>3 DEF ClearCloses, RefuseSubmit, Defer, StartRequest, WorkerAnswers, Restart, Seal,
                Unseal, RequestShutdown, SpawnSucceeds, Submit, sharedVars
  <1>4. CASE \/ \E k \in killers : KillerStrikes(k) \/ KillerReaps(k)
             \/ \E p \in Procs : ExitsAfterKnock(p) \/ WorkerDies(p)
             \/ UNCHANGED vars
    BY <1>4 DEF KillerStrikes, KillerReaps, ExitsAfterKnock, WorkerDies, vars
  <1> QED BY <1>1, <1>2, <1>3, <1>4 DEF Next, LoopStep

ResidencyBound == IsFiniteSet(permits) /\ Cardinality(permits) <= Residents

\* The semaphore admits at most Residents loops, over all the managers.
THEOREM ResidencyBounded == Spec => []ResidencyBound
  <1>1. Init => ResidencyBound
    BY FS_EmptySet, ConstantsAssumption DEF Init, ResidencyBound
  <1>2. TypeOK /\ ResidencyBound /\ [Next]_vars => ResidencyBound'
    <2> SUFFICES ASSUME TypeOK, ResidencyBound, [Next]_vars
                 PROVE  ResidencyBound'
      OBVIOUS
    <2> USE ConstantsAssumption
    <2>1. CASE permits' = permits
      BY <2>1 DEF ResidencyBound
    <2>2. ASSUME NEW m \in Managers, permits' = permits \ {m}
          PROVE  ResidencyBound'
      <3>1. /\ IsFiniteSet(permits \ {m}) /\ Cardinality(permits) \in Nat
            /\ Cardinality(permits \ {m}) = IF m \in permits THEN Cardinality(permits) - 1
                                                             ELSE Cardinality(permits)
        BY FS_RemoveElement, FS_CardinalityType DEF ResidencyBound
      <3> QED BY <2>2, <3>1 DEF ResidencyBound
    <2>3. ASSUME NEW m \in Managers, permits' = permits \cup {m},
                 Cardinality(permits) < Residents
          PROVE  ResidencyBound'
      <3>1. /\ IsFiniteSet(permits \cup {m}) /\ Cardinality(permits) \in Nat
            /\ Cardinality(permits \cup {m}) = IF m \in permits THEN Cardinality(permits)
                                                               ELSE Cardinality(permits) + 1
        BY FS_AddElement, FS_CardinalityType DEF ResidencyBound
      <3> QED BY <2>3, <3>1 DEF ResidencyBound
    <2> QED BY <2>1, <2>2, <2>3, PermitsChange
  <1> QED BY <1>1, <1>2, TypeCorrect, PTL DEF Spec

-----------------------------------------------------------------------------
(* The processes.                                                          *)

\* The slot names the loop's worker, or nothing once a stop has taken it, or
\* the orphan of a loop that panicked.
SlotShape ==
  \A m \in Managers :
    /\ local[m] # None => slot[m] \in {None, local[m]}
    /\ closing[m] # None => slot[m] = None /\ local[m] = None
    /\ local[m] # None /\ slot[m] = None => ~Alive(local[m]) \/ local[m] \in BeingKilled

\* A process that is held or being shut down has been born.
HeldAreBorn ==
  /\ \A m \in Managers : \A p \in HeldBy(m) : proc[p] # "unborn"
  /\ \A k \in killers : proc[k.proc] # "unborn"

ProcInv == SlotShape /\ HeldAreBorn /\ OneShutdownEach /\ NoLeakedWorker

\* A step that hands no process over, and after which no more of them live.
LEMMA QuietKeepsProcs ==
  ASSUME ProcInv, UNCHANGED <<local, closing, slot, killers>>,
         \A p \in Procs \cup {None} : /\ Alive(p)' => Alive(p)
                                      /\ proc'[p] = "unborn" => proc[p] = "unborn",
         TypeOK
  PROVE  ProcInv'
  <1>1. \A m \in Managers : HeldBy(m)' = HeldBy(m) /\ HeldBy(m) \subseteq Procs
    BY DEF HeldBy, TypeOK
  <1>2. BeingKilled' = BeingKilled /\ \A k \in killers : k.proc \in Procs
    BY DEF BeingKilled, TypeOK, Killers
  <1>3. SlotShape'
    BY <1>2 DEF ProcInv, SlotShape, TypeOK, Alive
  <1>4. HeldAreBorn'
    BY <1>1, <1>2 DEF ProcInv, HeldAreBorn
  <1>5. OneShutdownEach'
    BY <1>1 DEF ProcInv, OneShutdownEach
  <1>6. NoLeakedWorker'
    BY <1>1, <1>2 DEF ProcInv, NoLeakedWorker, Alive
  <1> QED BY <1>3, <1>4, <1>5, <1>6 DEF ProcInv

\* A stop moves the slot's process to a shutdown of its own.
LEMMA StopKeepsProcs ==
  ASSUME TypeOK, ProcInv, NEW m \in Managers, NEW s \in Stops, Stop(m, s),
         UNCHANGED <<local, closing, proc>>
  PROVE  ProcInv'
  <1>1. slot' = [slot EXCEPT ![m] = None]
    BY DEF Stop
  <1>2. CASE slot[m] = None
    <2>1. slot' = slot /\ killers' = killers
      BY <1>1, <1>2 DEF Stop, TypeOK
    <2> QED BY <2>1, QuietKeepsProcs DEF Alive
  <1>3. CASE slot[m] # None
    <2> DEFINE k == [proc |-> slot[m], by |-> m, stop |-> s]
    <2>1. killers' = killers \cup {k} /\ slot[m] \in Procs
      BY <1>3 DEF Stop, TypeOK
    <2>2. BeingKilled' = BeingKilled \cup {slot[m]}
      <3>1. k.proc = slot[m]
        OBVIOUS
      <3>2. {j.proc : j \in killers \cup {k}} = {j.proc : j \in killers} \cup {k.proc}
        OBVIOUS
      <3> QED BY <2>1, <3>1, <3>2 DEF BeingKilled
    <2>3. /\ HeldBy(m)' = {local[m], closing[m]} \ {None}
          /\ \A n \in Managers \ {m} : HeldBy(n)' = HeldBy(n)
          /\ slot[m] \in HeldBy(m)
      BY <1>1, <1>3 DEF HeldBy, TypeOK
    <2>4. SlotShape'
      BY <1>1, <2>2, <2>3 DEF ProcInv, SlotShape, TypeOK, Alive
    <2>5. HeldAreBorn'
      BY <1>1, <2>1, <2>3 DEF ProcInv, HeldAreBorn, HeldBy
    <2>6. closing[m] # slot[m] /\ \A n \in Managers \ {m} : slot[m] \notin HeldBy(n)
      BY <1>3, <2>3 DEF ProcInv, SlotShape, OneShutdownEach, HeldBy, TypeOK
    <2>7. OneShutdownEach'
      <3>1. slot[m] \notin BeingKilled
        BY <1>3 DEF ProcInv, OneShutdownEach, BeingKilled
      <3>2. \A j \in killers : j.proc # slot[m]
        BY <3>1 DEF BeingKilled
      <3>3. \A i, j \in killers' : i.proc = j.proc => i = j
        BY <2>1, <3>2 DEF ProcInv, OneShutdownEach
      <3>4. \A n \in Managers : slot[m] \notin {slot'[n], closing[n]}
        BY <1>1, <2>1, <2>6, ConstantsAssumption DEF HeldBy, TypeOK
      <3>5. \A j \in killers : \A n \in Managers : j.proc \notin {slot'[n], closing[n]}
        <4>1. \A j \in killers : j.proc \in Procs
          BY DEF TypeOK, Killers
        <4>2. \A n \in Managers : slot'[n] \in {slot[n], None}
          BY <1>1 DEF TypeOK
        <4> QED BY <4>1, <4>2, ConstantsAssumption DEF ProcInv, OneShutdownEach
      <3>6. \A i, n \in Managers : i # n => HeldBy(i)' \cap HeldBy(n)' = {}
        <4>1. \A n \in Managers : HeldBy(n)' \subseteq HeldBy(n)
          BY <2>3 DEF HeldBy
        <4> QED BY <4>1 DEF ProcInv, OneShutdownEach
      <3> QED BY <2>1, <3>3, <3>4, <3>5, <3>6 DEF OneShutdownEach
    <2>8. NoLeakedWorker'
      BY <2>2, <2>3 DEF ProcInv, NoLeakedWorker, HeldBy, Alive
    <2> QED BY <2>4, <2>5, <2>7, <2>8 DEF ProcInv
  <1> QED BY <1>2, <1>3

\* A shutdown that has returned is over: its process is gone.
LEMMA ReapKeepsProcs ==
  ASSUME TypeOK, ProcInv, NEW k \in killers, KillerReaps(k)
  PROVE  ProcInv'
  <1>1. UNCHANGED <<slot, local, closing, proc>> /\ killers' = killers \ {k} /\ ~Alive(k.proc)
    BY DEF KillerReaps, loopVars, Alive
  <1>2. \A p : p \in BeingKilled => p = k.proc \/ p \in BeingKilled'
    BY <1>1 DEF BeingKilled
  <1>3. \A m \in Managers : HeldBy(m)' = HeldBy(m)
    BY <1>1 DEF HeldBy
  <1>4. SlotShape'
    BY <1>1, <1>2 DEF ProcInv, SlotShape, Alive
  <1>5. HeldAreBorn'
    BY <1>1, <1>3 DEF ProcInv, HeldAreBorn
  <1>6. OneShutdownEach'
    BY <1>1, <1>3 DEF ProcInv, OneShutdownEach
  <1>7. NoLeakedWorker'
    BY <1>1, <1>2, <1>3 DEF ProcInv, NoLeakedWorker, Alive
  <1> QED BY <1>4, <1>5, <1>6, <1>7 DEF ProcInv

\* The loop clears its worker: it closes the session it finds in the slot, and
\* leaves one that a stop has taken to that stop.
LEMMA ClearKeepsProcs ==
  ASSUME TypeOK, ProcInv, NEW m \in Managers, NEW c \in {"next", "permit"},
         ClearWorker(m, c), local[m] # None, closing[m] = None,
         UNCHANGED <<proc, killers>>
  PROVE  ProcInv'
  <1>1. /\ local' = [local EXCEPT ![m] = None]
        /\ slot' = [slot EXCEPT ![m] = None]
        /\ \A n \in Managers \ {m} : closing'[n] = closing[n]
        /\ slot[m] # None => closing'[m] = local[m] /\ slot[m] = local[m]
        /\ slot[m] = None => closing'[m] = None
    BY DEF ClearWorker, TypeOK, ProcInv, SlotShape
  <1>2. BeingKilled' = BeingKilled
    BY DEF BeingKilled
  <1>3. /\ \A n \in Managers \ {m} : HeldBy(n)' = HeldBy(n)
        /\ HeldBy(m)' \subseteq HeldBy(m)
        /\ local[m] \in HeldBy(m)
        /\ HeldBy(m) = {local[m]}
        /\ slot[m] # None => HeldBy(m)' = {local[m]}
    BY <1>1 DEF HeldBy, TypeOK
  <1>4. SlotShape'
    BY <1>1, <1>2 DEF ProcInv, SlotShape, TypeOK, Alive
  <1>5. HeldAreBorn'
    BY <1>3 DEF ProcInv, HeldAreBorn
  <1>6. OneShutdownEach'
    <2>1. \A n \in Managers : {slot'[n], closing'[n]} \subseteq {slot[n], closing[n], None}
      BY <1>1 DEF TypeOK
    <2>2. \A k \in killers : k.proc # None
      BY ConstantsAssumption DEF TypeOK, Killers
    <2>3. \A k \in killers : \A n \in Managers : k.proc \notin {slot'[n], closing'[n]}
      BY <2>1, <2>2 DEF ProcInv, OneShutdownEach
    <2>4. \A i, n \in Managers : i # n => HeldBy(i)' \cap HeldBy(n)' = {}
      BY <1>3 DEF ProcInv, OneShutdownEach
    <2> QED BY <2>3, <2>4 DEF ProcInv, OneShutdownEach
  <1>7. NoLeakedWorker'
    <2>1. slot[m] = None => ~Alive(local[m]) \/ local[m] \in BeingKilled
      BY DEF ProcInv, SlotShape
    <2> QED BY <1>2, <1>3, <2>1 DEF ProcInv, NoLeakedWorker, Alive
  <1> QED BY <1>4, <1>5, <1>6, <1>7 DEF ProcInv

\* The RoofKnock the loop awaited has returned.
LEMMA ClearReturnsKeepsProcs ==
  ASSUME TypeOK, ProcInv, NEW m \in Managers, ClearReturns(m)
  PROVE  ProcInv'
  <1>1. /\ closing' = [closing EXCEPT ![m] = None]
        /\ UNCHANGED <<slot, local, proc, killers>> /\ ~Alive(closing[m])
    BY DEF ClearReturns, Alive
  <1>2. BeingKilled' = BeingKilled
    BY <1>1 DEF BeingKilled
  <1>3. /\ \A n \in Managers \ {m} : HeldBy(n)' = HeldBy(n)
        /\ HeldBy(m)' \subseteq HeldBy(m)
        /\ \A p \in HeldBy(m) : p = closing[m] \/ p \in HeldBy(m)'
    BY <1>1 DEF HeldBy, TypeOK
  <1>4. SlotShape'
    BY <1>1, <1>2 DEF ProcInv, SlotShape, TypeOK, Alive
  <1>5. HeldAreBorn'
    BY <1>1, <1>3 DEF ProcInv, HeldAreBorn
  <1>6. OneShutdownEach'
    <2>1. \A k \in killers : k.proc # None
      BY ConstantsAssumption DEF TypeOK, Killers
    <2>2. \A n \in Managers : closing'[n] \in {closing[n], None}
      BY <1>1 DEF TypeOK
    <2> QED BY <1>1, <1>3, <2>1, <2>2 DEF ProcInv, OneShutdownEach
  <1>7. NoLeakedWorker'
    BY <1>1, <1>2, <1>3 DEF ProcInv, NoLeakedWorker, Alive
  <1> QED BY <1>4, <1>5, <1>6, <1>7 DEF ProcInv

\* A worker is born, and takes the place of an orphan in the slot.
LEMMA SpawnKeepsProcs ==
  ASSUME TypeOK, ProcInv, NEW m \in Managers, NEW p \in Procs, SpawnSucceeds(m, p),
         local[m] = None, closing[m] = None
  PROVE  ProcInv'
  <1> USE ConstantsAssumption
  <1>1. /\ proc[p] = "unborn"
        /\ proc' = [q \in Procs |-> IF q = p THEN "up" ELSE IF q = slot[m] THEN "gone" ELSE proc[q]]
        /\ local' = [local EXCEPT ![m] = p]
        /\ slot' = [slot EXCEPT ![m] = p]
        /\ UNCHANGED <<closing, killers>>
    BY DEF SpawnSucceeds
  <1>2. BeingKilled' = BeingKilled /\ p \notin BeingKilled
    BY <1>1 DEF ProcInv, HeldAreBorn, BeingKilled
  <1>3. /\ \A n \in Managers \ {m} : HeldBy(n)' = HeldBy(n)
        /\ HeldBy(m)' = {p}
        /\ HeldBy(m) = {slot[m]} \ {None}
        /\ \A n \in Managers : p \notin HeldBy(n)
    <2>1. \A n \in Managers : p \notin HeldBy(n)
      BY <1>1 DEF ProcInv, HeldAreBorn
    <2> QED BY <1>1, <2>1 DEF HeldBy, TypeOK
  <1>4. \A q \in Procs : /\ q # p /\ Alive(q)' => Alive(q) /\ q # slot[m]
                         /\ q # p /\ proc'[q] = "unborn" => proc[q] = "unborn"
    BY <1>1 DEF Alive
  <1>5. SlotShape'
    <2>1. \A n \in Managers \ {m} : local[n] # None => local[n] \in Procs \ {p}
      BY <1>3 DEF HeldBy, TypeOK
    <2>2. \A n \in Managers \ {m} : /\ local'[n] = local[n] /\ slot'[n] = slot[n]
                                    /\ closing'[n] = closing[n]
      BY <1>1 DEF TypeOK
    <2>3. local'[m] = p /\ slot'[m] = p /\ p # None /\ closing'[m] = None
      BY <1>1 DEF TypeOK
    <2>4. \A n \in Managers \ {m} : local[n] # None /\ slot[n] = None =>
            ~Alive(local[n])' \/ local[n] \in BeingKilled
      BY <1>4, <2>1, <2>2 DEF ProcInv, SlotShape, Alive
    <2> QED BY <1>2, <2>2, <2>3, <2>4 DEF ProcInv, SlotShape, Alive
  <1>6. HeldAreBorn'
    <2>1. \A n \in Managers \ {m} : \A q \in HeldBy(n) : q \in Procs /\ q # p
      BY <1>3 DEF HeldBy, TypeOK
    <2>2. \A k \in killers : k.proc \in Procs /\ k.proc # p
      BY <1>2 DEF BeingKilled, TypeOK, Killers
    <2> QED BY <1>1, <1>3, <1>4, <2>1, <2>2 DEF ProcInv, HeldAreBorn
  <1>7. OneShutdownEach'
    <2>1. \A k \in killers : k.proc # p
      BY <1>2 DEF BeingKilled
    <2>2. \A n \in Managers : slot'[n] \in {slot[n], p}
      BY <1>1 DEF TypeOK
    <2>3. \A k \in killers : \A n \in Managers : k.proc \notin {slot'[n], closing[n]}
      BY <2>1, <2>2 DEF ProcInv, OneShutdownEach
    <2>4. \A i, n \in Managers : i # n => HeldBy(i)' \cap HeldBy(n)' = {}
      BY <1>3 DEF ProcInv, OneShutdownEach
    <2> QED BY <1>1, <2>3, <2>4 DEF ProcInv, OneShutdownEach
  <1>8. NoLeakedWorker'
    BY <1>2, <1>3, <1>4 DEF ProcInv, NoLeakedWorker
  <1> QED BY <1>5, <1>6, <1>7, <1>8 DEF ProcInv

\* A panic: what the loop was closing dies with it, what the slot names stays.
LEMMA PanicKeepsProcs ==
  ASSUME TypeOK, ProcInv, NEW m \in Managers, Panic(m)
  PROVE  ProcInv'
  <1>1. /\ proc' = [p \in Procs |-> IF p = closing[m] THEN "gone" ELSE proc[p]]
        /\ local' = [local EXCEPT ![m] = None]
        /\ closing' = [closing EXCEPT ![m] = None]
        /\ UNCHANGED <<slot, killers>>
    BY DEF Panic
  <1>2. BeingKilled' = BeingKilled /\ \A k \in killers : k.proc \in Procs
    BY <1>1 DEF BeingKilled, TypeOK, Killers
  <1>3. /\ \A n \in Managers \ {m} : HeldBy(n)' = HeldBy(n)
        /\ \A n \in Managers : HeldBy(n) \subseteq Procs
        /\ HeldBy(m)' = {slot[m]} \ {None}
        /\ HeldBy(m)' \subseteq HeldBy(m)
    BY <1>1 DEF HeldBy, TypeOK
  <1>4. \A q \in Procs : /\ Alive(q)' => Alive(q) /\ q # closing[m]
                         /\ proc'[q] = "unborn" => proc[q] = "unborn"
    BY <1>1 DEF Alive
  <1>5. SlotShape'
    <2>1. /\ \A n \in Managers : /\ local[n] # None => local[n] \in Procs
                                 /\ n # m => local'[n] = local[n] /\ closing'[n] = closing[n]
          /\ local'[m] = None /\ closing'[m] = None
      BY <1>1 DEF TypeOK
    <2>2. \A n \in Managers : local'[n] # None /\ slot[n] = None =>
            ~Alive(local[n])' \/ local'[n] \in BeingKilled
      BY <1>4, <2>1 DEF ProcInv, SlotShape, Alive
    <2> QED BY <1>1, <1>2, <2>1, <2>2 DEF ProcInv, SlotShape, Alive
  <1>6. HeldAreBorn'
    BY <1>1, <1>2, <1>3, <1>4 DEF ProcInv, HeldAreBorn
  <1>7. OneShutdownEach'
    <2>1. \A n \in Managers : closing'[n] \in {closing[n], None}
      BY <1>1 DEF TypeOK
    <2>2. \A k \in killers : \A n \in Managers : k.proc \notin {slot[n], closing'[n]}
      BY <1>2, <2>1, ConstantsAssumption DEF ProcInv, OneShutdownEach
    <2>3. \A i, n \in Managers : i # n => HeldBy(i)' \cap HeldBy(n)' = {}
      BY <1>3 DEF ProcInv, OneShutdownEach
    <2> QED BY <1>1, <2>2, <2>3 DEF ProcInv, OneShutdownEach
  <1>8. NoLeakedWorker'
    <2>1. \A q \in HeldBy(m) : \/ q = closing[m] \/ q \in HeldBy(m)'
                               \/ q = local[m] /\ slot[m] = None
      BY <1>3 DEF HeldBy, ProcInv, SlotShape
    <2>2. local[m] # None /\ slot[m] = None => ~Alive(local[m]) \/ local[m] \in BeingKilled
      BY DEF ProcInv, SlotShape
    <2>3. None \notin HeldBy(m)
      BY DEF HeldBy
    <2> QED BY <1>2, <1>3, <1>4, <2>1, <2>2, <2>3 DEF ProcInv, NoLeakedWorker
  <1> QED BY <1>5, <1>6, <1>7, <1>8 DEF ProcInv

\* Every step accounts for every living process, and for each of them once.
LEMMA NextKeepsProcs ==
  ASSUME TypeOK, LoopInv, ProcInv, [Next]_vars
  PROVE  ProcInv'
  <1> DEFINE Hands == <<local, closing, slot, killers>>
  <1>1. ASSUME UNCHANGED Hands, UNCHANGED proc
        PROVE  ProcInv'
    BY <1>1, QuietKeepsProcs DEF Alive
  <1>2. ASSUME UNCHANGED Hands, NEW q \in Procs, proc[q] # "unborn",
               NEW s \in {"eof", "gone"}, proc' = [proc EXCEPT ![q] = s],
               Alive(q)' => Alive(q)
        PROVE  ProcInv'
    <2>1. \A p \in Procs \cup {None} : /\ Alive(p)' => Alive(p)
                                       /\ proc'[p] = "unborn" => proc[p] = "unborn"
      BY <1>2 DEF Alive, TypeOK
    <2> QED BY <1>2, <2>1, QuietKeepsProcs
  <1>3. ASSUME NEW m \in Managers, Seal(m)
        PROVE  ProcInv'
    BY <1>3, StopKeepsProcs DEF Seal, Stops, loopVars
  <1>4. ASSUME NEW m \in Managers, RequestShutdown(m)
        PROVE  ProcInv'
    BY <1>4, StopKeepsProcs DEF RequestShutdown, Stops, loopVars
  <1>5. ASSUME NEW k \in killers, KillerStrikes(k)
        PROVE  ProcInv'
    <2>1. k.proc \in Procs /\ UNCHANGED Hands
      BY <1>5 DEF TypeOK, Killers, KillerStrikes, handleVars, loopVars
    <2>2. \/ Alive(k.proc) /\ proc' = [proc EXCEPT ![k.proc] = "gone"]
          \/ proc[k.proc] = "up" /\ proc' = [proc EXCEPT ![k.proc] = "eof"]
      BY <1>5 DEF KillerStrikes
    <2>3. CASE proc' = [proc EXCEPT ![k.proc] = "gone"] /\ Alive(k.proc)
      <3>1. proc[k.proc] # "unborn"
        BY <2>3 DEF Alive
      <3> QED BY <1>2, <2>1, <2>3, <3>1
    <2>4. CASE proc' = [proc EXCEPT ![k.proc] = "eof"] /\ proc[k.proc] = "up"
      <3>1. proc[k.proc] # "unborn" /\ Alive(k.proc)
        BY <2>4 DEF Alive
      <3> QED BY <1>2, <2>1, <2>4, <3>1
    <2> QED BY <2>2, <2>3, <2>4
  <1>6. ASSUME NEW k \in killers, KillerReaps(k)
        PROVE  ProcInv'
    BY <1>6, ReapKeepsProcs
  <1>7. ASSUME NEW p \in Procs, ExitsAfterKnock(p) \/ WorkerDies(p)
        PROVE  ProcInv'
    <2>1. /\ Alive(p) /\ proc[p] # "unborn" /\ proc' = [proc EXCEPT ![p] = "gone"]
          /\ UNCHANGED Hands
      BY <1>7 DEF ExitsAfterKnock, WorkerDies, handleVars, loopVars, Alive
    <2> QED BY <1>2, <2>1
  <1>8. ASSUME NEW m \in Managers, ClearCloses(m)
        PROVE  ProcInv'
    <2>1. /\ closing[m] \in Procs
          /\ Alive(closing[m]) /\ proc[closing[m]] # "unborn"
          /\ proc' = [proc EXCEPT ![closing[m]] = "eof"]
          /\ UNCHANGED Hands
      BY <1>8 DEF ClearCloses, handleVars, loopVars, Alive, TypeOK, LoopInv, LoopShape
    <2> QED BY <1>2, <2>1
  <1>9. ASSUME NEW m \in Managers, ClearReturns(m)
        PROVE  ProcInv'
    BY <1>9, ClearReturnsKeepsProcs
  <1>10. ASSUME NEW m \in Managers, NEW c \in {"next", "permit"}, ClearWorker(m, c),
                local[m] # None, pc[m] # "clear", UNCHANGED <<proc, killers>>
         PROVE  ProcInv'
    <2>1. closing[m] = None
      BY <1>10 DEF LoopInv, LoopShape
    <2> QED BY <1>10, <2>1, ClearKeepsProcs
  <1>11. ASSUME NEW m \in Managers, TakeShutdown(m)
         PROVE  ProcInv'
    <2>1. CASE local[m] = None
      BY <1>1, <1>11, <2>1 DEF TakeShutdown
    <2>2. CASE local[m] # None
      BY <1>10, <1>11, <2>2 DEF TakeShutdown
    <2> QED BY <2>1, <2>2
  <1>12. ASSUME NEW m \in Managers, TakeSubmit(m)
         PROVE  ProcInv'
    <2>1. CASE NeedsRestart(m, Command(m)) /\ local[m] # None
      <3>1. ClearWorker(m, "permit") /\ pc[m] = "next" /\ UNCHANGED <<proc, killers>>
        BY <1>12, <2>1 DEF TakeSubmit
      <3> QED BY <1>10, <2>1, <3>1
    <2>2. CASE ~(NeedsRestart(m, Command(m)) /\ local[m] # None)
      <3>1. UNCHANGED Hands /\ UNCHANGED proc
        BY <1>12, <2>2 DEF TakeSubmit
      <3> QED BY <1>1, <3>1
    <2> QED BY <2>1, <2>2
  <1>13. ASSUME NEW m \in Managers, WorkerGone(m)
         PROVE  ProcInv'
    <2>1. /\ local[m] # None /\ pc[m] # "clear" /\ ClearWorker(m, "next")
          /\ UNCHANGED <<proc, killers>>
      BY <1>13 DEF WorkerGone, LoopInv, LoopShape
    <2> QED BY <1>10, <2>1
  <1>14. ASSUME NEW m \in Managers, IdleTimeout(m)
         PROVE  ProcInv'
    BY <1>10, <1>14 DEF IdleTimeout
  <1>15. ASSUME NEW m \in Managers, NEW p \in Procs, SpawnSucceeds(m, p)
         PROVE  ProcInv'
    <2>1. local[m] = None /\ closing[m] = None
      BY <1>15 DEF SpawnSucceeds, LoopInv, LoopShape
    <2> QED BY <1>15, <2>1, SpawnKeepsProcs
  <1>16. ASSUME NEW m \in Managers, Panic(m)
         PROVE  ProcInv'
    BY <1>16, PanicKeepsProcs
  <1>17. ASSUME NEW m \in Managers,
                \/ Unseal(m) \/ RefuseSubmit(m) \/ SpawnFails(m) \/ StartRequest(m)
                \/ WorkerAnswers(m) \/ Restart(m) \/ Acquire(m) \/ Defer(m)
                \/ \E r \in Requests : Submit(m, r)
         PROVE  ProcInv'
    BY <1>1, <1>17 DEF Unseal, RefuseSubmit, SpawnFails, StartRequest, WorkerAnswers, Restart,
                       Acquire, Defer, Submit, handleVars, loopVars, sharedVars
  <1>18. CASE UNCHANGED vars
    BY <1>1, <1>18 DEF vars
  <1> QED
    BY <1>3, <1>4, <1>5, <1>6, <1>7, <1>8, <1>9, <1>11, <1>12, <1>13, <1>14, <1>15, <1>16,
       <1>17, <1>18
       DEF Next, LoopStep

\* The processes are accounted for in every reachable state.
LEMMA ProcsInvariant == Spec => []ProcInv
  <1>1. Init => ProcInv
    BY DEF Init, ProcInv, SlotShape, HeldAreBorn, OneShutdownEach, NoLeakedWorker, HeldBy,
           BeingKilled, Alive
  <1>2. Init => LoopInv
    BY DEF Init, LoopInv, LoopShape, PermitFollowsWorker
  <1>3. TypeOK /\ LoopInv /\ [Next]_vars => LoopInv'
    BY NextKeepsLoop
  <1>4. TypeOK /\ LoopInv /\ ProcInv /\ [Next]_vars => ProcInv'
    BY NextKeepsProcs
  <1> QED BY <1>1, <1>2, <1>3, <1>4, TypeCorrect, PTL DEF Spec

\* No worker leaks: one that lives is used, being stopped or stoppable by its
\* manager, or about to be ended by the shutdown a stop detached, even across
\* a panic of the loop.
THEOREM NoWorkerLeaks == Spec => []NoLeakedWorker
  <1>1. ProcInv => NoLeakedWorker
    BY DEF ProcInv
  <1> QED BY <1>1, ProcsInvariant, PTL

\* A process is shut down by one shutdown only, and belongs to one manager.
THEOREM ShutDownOnce == Spec => []OneShutdownEach
  <1>1. ProcInv => OneShutdownEach
    BY DEF ProcInv
  <1> QED BY <1>1, ProcsInvariant, PTL

\* Without a panic a slot is empty when its loop has no worker.
LEMMA OrphansOfPanics == Spec => [](panics = 0 => Orphans \subseteq {None})
<1> DEFINE NoOrphan == panics = 0 => \A m \in Managers : local[m] = None => slot[m] = None
<1>1. Init => NoOrphan
  BY DEF Init
<1>2. TypeOK /\ NoOrphan /\ [Next]_vars => NoOrphan'
  <2> SUFFICES ASSUME TypeOK, NoOrphan, [Next]_vars PROVE NoOrphan'
    OBVIOUS
  <2> USE DEF TypeOK
  <2>1. CASE UNCHANGED <<local, slot, panics>>
    BY <2>1
  <2>2. ASSUME NEW m \in Managers, panics' = panics,
               \/ slot' = [slot EXCEPT ![m] = None] /\ local' \in {local, [local EXCEPT ![m] = None]}
               \/ \E p \in Procs : slot' = [slot EXCEPT ![m] = p] /\ local' = [local EXCEPT ![m] = p]
        PROVE  NoOrphan'
    <3>1. None \notin Procs
      BY ConstantsAssumption
    <3>2. slot'[m] = None \/ local'[m] # None
      BY <2>2, <3>1
    <3>3. \A n \in Managers \ {m} : slot'[n] = slot[n] /\ local'[n] = local[n]
      BY <2>2
    <3> QED BY <2>2, <3>2, <3>3
  <2>3. ASSUME NEW m \in Managers, Seal(m) \/ RequestShutdown(m) PROVE NoOrphan'
    BY <2>2, <2>3 DEF Seal, RequestShutdown, Stop, loopVars
  <2>4. ASSUME NEW m \in Managers, NEW c, ClearWorker(m, c), panics' = panics PROVE NoOrphan'
    BY <2>2, <2>4 DEF ClearWorker
  <2>5. ASSUME NEW m \in Managers, TakeShutdown(m) \/ TakeSubmit(m) \/ WorkerGone(m) \/ IdleTimeout(m)
        PROVE  NoOrphan'
    BY <2>1, <2>4, <2>5 DEF TakeShutdown, TakeSubmit, WorkerGone, IdleTimeout
  <2>6. ASSUME NEW m \in Managers, NEW p \in Procs, SpawnSucceeds(m, p) PROVE NoOrphan'
    BY <2>2, <2>6 DEF SpawnSucceeds
  <2>7. ASSUME NEW m \in Managers, Panic(m) PROVE NoOrphan'
    <3>1. panics' # 0
      BY <2>7 DEF Panic
    <3> QED BY <3>1
  <2>8. ASSUME NEW m \in Managers,
               \/ Unseal(m) \/ ClearCloses(m) \/ ClearReturns(m) \/ RefuseSubmit(m) \/ SpawnFails(m)
               \/ StartRequest(m) \/ WorkerAnswers(m) \/ Restart(m) \/ Acquire(m) \/ Defer(m)
               \/ \E r \in Requests : Submit(m, r)
        PROVE  NoOrphan'
    BY <2>1, <2>8 DEF Unseal, ClearCloses, ClearReturns, RefuseSubmit, SpawnFails, StartRequest,
                      WorkerAnswers, Restart, Acquire, Defer, Submit, handleVars, loopVars, sharedVars
  <2>9. ASSUME \/ \E k \in killers : KillerStrikes(k) \/ KillerReaps(k)
               \/ \E p \in Procs : ExitsAfterKnock(p) \/ WorkerDies(p)
               \/ UNCHANGED vars
        PROVE  NoOrphan'
    BY <2>1, <2>9 DEF KillerStrikes, KillerReaps, ExitsAfterKnock, WorkerDies, handleVars, loopVars, vars
  <2> HIDE DEF NoOrphan, TypeOK
  <2> QED BY <2>3, <2>5, <2>6, <2>7, <2>8, <2>9 DEF Next, LoopStep
<1>3. NoOrphan => (panics = 0 => Orphans \subseteq {None})
  BY DEF Orphans
<1> HIDE DEF NoOrphan
<1> QED BY <1>1, <1>2, <1>3, TypeCorrect, PTL DEF Spec

\* At most Residents workers live at once over all the managers, besides those a
\* detached shutdown is ending and the orphan of a loop that panicked; this is
\* what holds of "a permit is held from the spawn of a worker to its death".
THEOREM WorkersBounded == Spec => []ResidentWorkers
<1>1. ASSUME TypeOK, LoopInv, ProcInv, ResidencyBound
      PROVE  Cardinality({p \in Procs : Alive(p)} \ (BeingKilled \cup Orphans)) <= Residents
  <2> DEFINE S == {p \in Procs : Alive(p)} \ (BeingKilled \cup Orphans)
             h == [m \in permits |-> IF local[m] # None THEN local[m] ELSE closing[m]]
             H == {h[m] : m \in permits}
  <2>1. S \subseteq H
    <3> SUFFICES ASSUME NEW p \in S PROVE p \in H
      OBVIOUS
    <3>1. PICK m \in Managers : p \in HeldBy(m)
      BY <1>1 DEF ProcInv, NoLeakedWorker
    <3>2. p # None /\ p \in {local[m], closing[m], slot[m]}
      BY <3>1 DEF HeldBy
    <3>3. CASE local[m] # None
      <4>1. m \in permits /\ closing[m] = None /\ slot[m] \in {None, local[m]}
        BY <1>1, <3>3 DEF LoopInv, PermitFollowsWorker, ProcInv, SlotShape
      <4> QED BY <3>2, <3>3, <4>1
    <3>4. CASE local[m] = None
      <4>1. slot[m] \in Orphans
        BY <3>4 DEF Orphans
      <4>2. p = closing[m]
        BY <3>2, <3>4, <4>1
      <4>3. pc[m] = "clear" /\ m \in permits
        BY <1>1, <3>2, <4>2 DEF LoopInv, LoopShape, PermitFollowsWorker
      <4> QED BY <3>4, <4>2, <4>3
    <3> QED BY <3>3, <3>4
  <2>2. IsFiniteSet(permits) /\ Cardinality(permits) <= Residents
    BY <1>1 DEF ResidencyBound
  <2>3. IsFiniteSet(H) /\ Cardinality(H) <= Cardinality(permits)
    <3>1. h \in Surjection(permits, H)
      BY DEF Surjection
    <3> HIDE DEF h, H
    <3> QED BY <2>2, <3>1, FS_Surjection
  <2> HIDE DEF S, H
  <2>4. IsFiniteSet(S) /\ Cardinality(S) <= Cardinality(H)
    BY <2>1, <2>3, FS_Subset
  <2>5. Cardinality(S) \in Nat /\ Cardinality(H) \in Nat /\ Cardinality(permits) \in Nat
    BY <2>2, <2>3, <2>4, FS_CardinalityType
  <2>6. Cardinality(S) <= Residents
    BY <2>2, <2>3, <2>4, <2>5, ConstantsAssumption
  <2> QED BY <2>6 DEF S
<1>2. TypeOK /\ LoopInv /\ ProcInv /\ ResidencyBound /\ (panics = 0 => Orphans \subseteq {None}) => ResidentWorkers
  BY <1>1 DEF ResidentWorkers
<1>3. Init => LoopInv
  BY DEF Init, LoopInv, LoopShape, PermitFollowsWorker
<1>4. TypeOK /\ LoopInv /\ [Next]_vars => LoopInv'
  BY NextKeepsLoop
<1> QED
  BY <1>2, <1>3, <1>4, TypeCorrect, ProcsInvariant, ResidencyBounded, OrphansOfPanics, PTL DEF Spec

-----------------------------------------------------------------------------
(* The seal.                                                               *)

\* The loop of m is past the seal's check with a worker still to be born.
PastSeal(m) == pc[m] \in {"permit", "spawn"} \/ (pc[m] = "clear" /\ cur[m] # None)

SealInv ==
  \A m \in Managers :
    \/ bornSealed[m] = 0
    \/ bornSealed[m] = 1 /\ sealed[m] /\ ~PastSeal(m)

\* A start under a seal is one that was past handle_submit's check.
LEMMA NextKeepsSeal ==
  ASSUME TypeOK, LoopInv, SealInv, [Next]_vars
  PROVE  SealInv'
  <1> USE DEF SealInv, PastSeal
  <1>1. ASSUME UNCHANGED bornSealed,
               \A m \in Managers : sealed[m] => sealed'[m],
               \A m \in Managers : sealed[m] /\ PastSeal(m)' => PastSeal(m)
        PROVE  SealInv'
    BY <1>1
  <1>2. ASSUME NEW m \in Managers, Seal(m)
        PROVE  SealInv'
    BY <1>1, <1>2 DEF Seal, TypeOK, loopVars
  <1>3. ASSUME NEW m \in Managers, Unseal(m)
        PROVE  SealInv'
    BY <1>3 DEF Unseal, TypeOK, loopVars
  <1>4. ASSUME NEW m \in Managers, NEW p \in Procs, SpawnSucceeds(m, p)
        PROVE  SealInv'
    BY <1>4 DEF SpawnSucceeds, TypeOK
  <1>5. ASSUME NEW m \in Managers, TakeSubmit(m)
        PROVE  SealInv'
    <2>1. /\ ~sealed[m] /\ UNCHANGED <<sealed, bornSealed>>
          /\ \A n \in Managers \ {m} : pc'[n] = pc[n] /\ cur'[n] = cur[n]
      BY <1>5 DEF TakeSubmit, ClearWorker, TypeOK
    <2> QED BY <1>1, <2>1
  <1>6. ASSUME NEW m \in Managers, TakeShutdown(m) \/ IdleTimeout(m) \/ WorkerGone(m)
        PROVE  SealInv'
    <2>1. /\ UNCHANGED <<sealed, bornSealed>>
          /\ \A n \in Managers \ {m} : pc'[n] = pc[n] /\ cur'[n] = cur[n]
          /\ cur'[m] = None /\ pc'[m] \notin {"permit", "spawn"}
      BY <1>6 DEF TakeShutdown, IdleTimeout, WorkerGone, ClearWorker, TypeOK, LoopInv, LoopShape
    <2> QED BY <1>1, <2>1
  <1>7. ASSUME NEW m \in Managers,
               \/ ClearReturns(m) \/ SpawnFails(m) \/ StartRequest(m) \/ WorkerAnswers(m)
               \/ Restart(m) \/ Acquire(m) \/ Panic(m)
        PROVE  SealInv'
    <2>1. /\ UNCHANGED <<sealed, bornSealed>>
          /\ \A n \in Managers \ {m} : pc'[n] = pc[n] /\ cur'[n] = cur[n]
          /\ PastSeal(m)' => PastSeal(m)
      BY <1>7 DEF ClearReturns, SpawnFails, StartRequest, WorkerAnswers, Restart, Acquire, Panic,
                  handleVars, sharedVars, TypeOK
    <2> QED BY <1>1, <2>1
  <1>8. ASSUME NEW m \in Managers,
               \/ ClearCloses(m) \/ RefuseSubmit(m) \/ Defer(m) \/ RequestShutdown(m)
               \/ \E r \in Requests : Submit(m, r)
        PROVE  SealInv'
    BY <1>1, <1>8 DEF ClearCloses, RefuseSubmit, Defer, RequestShutdown, Submit, handleVars,
                      loopVars, sharedVars
  <1>9. ASSUME \/ \E k \in killers : KillerStrikes(k) \/ KillerReaps(k)
               \/ \E p \in Procs : ExitsAfterKnock(p) \/ WorkerDies(p)
               \/ UNCHANGED vars
        PROVE  SealInv'
    BY <1>1, <1>9 DEF KillerStrikes, KillerReaps, ExitsAfterKnock, WorkerDies, handleVars,
                      loopVars, vars
  <1> QED
    BY <1>2, <1>3, <1>4, <1>5, <1>6, <1>7, <1>8, <1>9 DEF Next, LoopStep

\* A seal lets through no start but the one that was past its check.
THEOREM SealAdmitsOne == Spec => []SealAdmitsAtMostOne
  <1>1. Init => LoopInv /\ SealInv
    BY DEF Init, LoopInv, LoopShape, PermitFollowsWorker, SealInv
  <1>2. TypeOK /\ LoopInv /\ [Next]_vars => LoopInv'
    BY NextKeepsLoop
  <1>3. TypeOK /\ LoopInv /\ SealInv /\ [Next]_vars => SealInv'
    BY NextKeepsSeal
  <1>4. SealInv => SealAdmitsAtMostOne
    BY DEF SealInv, SealAdmitsAtMostOne
  <1> QED BY <1>1, <1>2, <1>3, <1>4, TypeCorrect, PTL DEF Spec


-----------------------------------------------------------------------------
(* Two queues, one line.                                                   *)

\* The head of a concatenation, and what is left behind it.
LEMMA ConcatHead ==
  ASSUME NEW S, NEW s \in Seq(S), NEW t \in Seq(S), s # <<>>
  PROVE  /\ s \o t # <<>>
         /\ Head(s \o t) = Head(s)
         /\ Tail(s \o t) = Tail(s) \o t
<1>1. Len(s) \in Nat \ {0} /\ Len(t) \in Nat
  BY EmptySeq, LenProperties
<1>2. s \o t \in Seq(S) /\ Len(s \o t) = Len(s) + Len(t) /\ (s \o t)[1] = s[1] /\ s \o t # <<>>
  BY <1>1, ConcatProperties
<1>3. /\ Tail(s \o t) \in Seq(S) /\ Len(Tail(s \o t)) = Len(s) + Len(t) - 1
      /\ \A i \in 1..Len(Tail(s \o t)) : Tail(s \o t)[i] = (s \o t)[i + 1]
  BY <1>2, HeadTailProperties
<1>4. /\ Tail(s) \in Seq(S) /\ Len(Tail(s)) = Len(s) - 1
      /\ \A i \in 1..Len(Tail(s)) : Tail(s)[i] = s[i + 1]
  BY HeadTailProperties
<1>5. /\ Tail(s) \o t \in Seq(S) /\ Len(Tail(s) \o t) = Len(s) - 1 + Len(t)
      /\ \A i \in 1..(Len(s) - 1 + Len(t)) :
           (Tail(s) \o t)[i] = IF i <= Len(s) - 1 THEN Tail(s)[i] ELSE t[i - (Len(s) - 1)]
  BY <1>4, ConcatProperties
<1>6. ASSUME NEW i \in 1..(Len(s) + Len(t) - 1)
      PROVE  Tail(s \o t)[i] = (Tail(s) \o t)[i]
  <2>1. Tail(s \o t)[i] = (s \o t)[i + 1]
    BY <1>1, <1>3
  <2>2. (s \o t)[i + 1] = IF i + 1 <= Len(s) THEN s[i + 1] ELSE t[i + 1 - Len(s)]
    BY <1>1, ConcatProperties
  <2> QED BY <1>1, <1>4, <1>5, <2>1, <2>2
<1>7. Tail(s \o t) = Tail(s) \o t
  BY <1>1, <1>3, <1>5, <1>6, SeqEqual
<1> QED BY <1>2, <1>7

\* What is appended to the second queue is appended to the line.
LEMMA ConcatAppend ==
  ASSUME NEW S, NEW s \in Seq(S), NEW t \in Seq(S), NEW e \in S
  PROVE  s \o Append(t, e) = Append(s \o t, e)
<1>1. Append(t, e) = t \o <<e>> /\ <<e>> \in Seq(S) /\ s \o t \in Seq(S)
  BY AppendIsConcat, ConcatProperties
<1>2. (s \o t) \o <<e>> = s \o (t \o <<e>>)
  BY <1>1, ConcatAssociative
<1>3. Append(s \o t, e) = (s \o t) \o <<e>>
  BY <1>1, AppendIsConcat
<1> QED BY <1>1, <1>2, <1>3

\* A head that moves to the end of the first queue keeps its place in the line.
LEMMA ConcatMove ==
  ASSUME NEW S, NEW s \in Seq(S), NEW t \in Seq(S), t # <<>>
  PROVE  Append(s, Head(t)) \o Tail(t) = s \o t
<1>1. Head(t) \in S /\ Tail(t) \in Seq(S) /\ <<Head(t)>> \in Seq(S)
  BY HeadTailProperties
<1>2. t = <<Head(t)>> \o Tail(t)
  <2>1. /\ <<Head(t)>> \o Tail(t) \in Seq(S) /\ Len(<<Head(t)>> \o Tail(t)) = Len(t)
        /\ \A i \in 1..Len(t) : (<<Head(t)>> \o Tail(t))[i] = IF i <= 1 THEN Head(t) ELSE Tail(t)[i - 1]
    BY <1>1, ConcatProperties, HeadTailProperties, EmptySeq
  <2>2. \A i \in 1..Len(t) : (<<Head(t)>> \o Tail(t))[i] = t[i]
    BY <1>1, <2>1, HeadTailProperties, LenProperties
  <2> QED BY <2>1, <2>2, SeqEqual
<1>3. Append(s, Head(t)) = s \o <<Head(t)>>
  BY <1>1, AppendIsConcat
<1>4. (s \o <<Head(t)>>) \o Tail(t) = s \o (<<Head(t)>> \o Tail(t))
  BY <1>1, ConcatAssociative
<1> QED BY <1>2, <1>3, <1>4

\* A line is a sequence of commands, and ends where both of its queues do.
LEMMA LineTyped ==
  ASSUME TypeOK, NEW m \in Managers
  PROVE  /\ Line(m) \in Seq(Commands)
         /\ deferred[m] \in Seq(Commands) /\ chan[m] \in Seq(Commands)
         /\ HasCommand(m) <=> Line(m) # <<>>
<1>1. deferred[m] \in Seq(Commands) /\ chan[m] \in Seq(Commands)
  BY DEF TypeOK
<1> QED BY <1>1, ConcatProperties, ConcatEqualIffEmpty DEF Line, HasCommand

\* next_command takes the head of the line.
LEMMA PopTakesHead ==
  ASSUME TypeOK, NEW m \in Managers, HasCommand(m), PopCommand(m)
  PROVE  /\ Line(m) # <<>> /\ Command(m) = Head(Line(m))
         /\ Line(m)' = Tail(Line(m))
         /\ \A n \in Managers \ {m} : Line(n)' = Line(n)
<1>1. deferred[m] \in Seq(Commands) /\ chan[m] \in Seq(Commands) /\ Line(m) # <<>>
  BY LineTyped
<1>2. chan \in [Managers -> Seq(Commands)] /\ deferred \in [Managers -> Seq(Commands)]
  BY DEF TypeOK
<1>3. CASE deferred[m] # <<>>
  <2>1. deferred'[m] = Tail(deferred[m]) /\ chan' = chan /\ \A n \in Managers \ {m} : deferred'[n] = deferred[n]
    BY <1>2, <1>3 DEF PopCommand
  <2> QED BY <1>1, <1>3, <2>1, ConcatHead DEF Line, Command
<1>4. CASE deferred[m] = <<>>
  <2>1. chan'[m] = Tail(chan[m]) /\ deferred' = deferred /\ \A n \in Managers \ {m} : chan'[n] = chan[n]
    BY <1>2, <1>4 DEF PopCommand
  <2>2. chan[m] # <<>> /\ Tail(chan[m]) \in Seq(Commands)
    BY <1>1, <1>4, HeadTailProperties DEF HasCommand
  <2>3. Line(m) = chan[m] /\ Line(m)' = Tail(chan[m])
    BY <1>1, <1>4, <2>1, <2>2, ConcatEmptySeq DEF Line
  <2> QED BY <1>1, <1>4, <2>1, <2>3 DEF Line, Command
<1> QED BY <1>3, <1>4

-----------------------------------------------------------------------------
(* What a step does to the lines and to those who wait.                    *)

LinesStay == \A n \in Managers : Line(n)' = Line(n)

\* The other managers' lines.
Aside(m) == \A n \in Managers \ {m} : Line(n)' = Line(n)

HeadLeaves(m) == Line(m) # <<>> /\ Line(m)' = Tail(Line(m)) /\ Aside(m)

Accepts(m, r) ==
  /\ answer[r] = "unsent" /\ answer' = [answer EXCEPT ![r] = "waiting"]
  /\ Line(m)' = Append(Line(m), r) /\ Aside(m)
  /\ cur' = cur
Declines(r) ==
  /\ answer[r] = "unsent" /\ answer' = [answer EXCEPT ![r] = "gone"]
  /\ LinesStay
  /\ cur' = cur
Posts(m)   == Line(m)' = Append(Line(m), Shutdown) /\ Aside(m) /\ UNCHANGED <<cur, answer>>
Skips(m)   == HeadLeaves(m) /\ Head(Line(m)) = Shutdown /\ UNCHANGED <<cur, answer>>
Begins(m, r) ==
  /\ cur[m] = None
  /\ HeadLeaves(m) /\ Head(Line(m)) = r
  /\ cur' = [cur EXCEPT ![m] = r]
  /\ answer' = answer
Refuses(m, r) ==
  /\ cur[m] = None
  /\ HeadLeaves(m) /\ Head(Line(m)) = r
  /\ \E a \in {"gone", "error"} : answer' = [answer EXCEPT ![r] = a]
  /\ cur' = cur
Ends(m) ==
  /\ cur[m] # None
  /\ \E a \in {"gone", "error"} \cup (IF pc[m] = "serve" THEN {"done"} ELSE {}) :
       answer' = [answer EXCEPT ![cur[m]] = a]
  /\ cur' = [cur EXCEPT ![m] = None]
  /\ LinesStay
Fails(m) ==
  /\ answer' = [r \in Requests |-> IF r = cur[m] \/ r \in Range(Line(m)) THEN "gone" ELSE answer[r]]
  /\ Line(m)' = <<>> /\ Aside(m)
  /\ cur' = [cur EXCEPT ![m] = None]

LineStep ==
  \/ (LinesStay /\ UNCHANGED <<cur, answer>>)
  \/ \E r \in Requests : Declines(r)
  \/ \E m \in Managers : Posts(m) \/ Skips(m) \/ Ends(m) \/ Fails(m)
  \/ \E m \in Managers, r \in Requests : Accepts(m, r) \/ Begins(m, r) \/ Refuses(m, r)

\* The lines are where the queues are.
LEMMA QueuesStay ==
  ASSUME UNCHANGED <<chan, deferred>>
  PROVE  LinesStay
  BY DEF LinesStay, Line

\* A command sent to a manager joins its line at the end.
LEMMA SendAppends ==
  ASSUME TypeOK, NEW m \in Managers, NEW c \in Commands,
         chan' = [chan EXCEPT ![m] = Append(@, c)], deferred' = deferred
  PROVE  Line(m)' = Append(Line(m), c) /\ Aside(m)
<1>1. deferred[m] \in Seq(Commands) /\ chan[m] \in Seq(Commands)
  BY LineTyped
<1>2. chan'[m] = Append(chan[m], c) /\ \A n \in Managers \ {m} : chan'[n] = chan[n]
  BY DEF TypeOK
<1>3. deferred[m] \o Append(chan[m], c) = Append(deferred[m] \o chan[m], c)
  <2>1. \A s, t \in Seq(Commands) : s \o Append(t, c) = Append(s \o t, c)
    BY ConcatAppend
  <2> QED BY <1>1, <2>1
<1>4. Line(m)' = Append(Line(m), c)
  BY <1>2, <1>3 DEF Line
<1> QED BY <1>2, <1>4 DEF Line, Aside

\* A stop posts its command, unless the channel is full or closed.
LEMMA StopPosts ==
  ASSUME TypeOK, NEW m \in Managers, NEW s \in Stops, Stop(m, s), UNCHANGED <<deferred, cur, answer>>
  PROVE  (LinesStay /\ UNCHANGED <<cur, answer>>) \/ Posts(m)
<1>1. CASE chan' = chan
  BY <1>1, QueuesStay
<1>2. CASE chan' = [chan EXCEPT ![m] = Append(@, Shutdown)]
  BY <1>2, SendAppends DEF Posts, Commands
<1> QED BY <1>1, <1>2 DEF Stop

\* The handle's operations post, submit or leave the lines alone.
LEMMA HandleLines ==
  ASSUME TypeOK, NEW m \in Managers,
         Seal(m) \/ Unseal(m) \/ RequestShutdown(m) \/ \E r \in Requests : Submit(m, r)
  PROVE  LineStep
<1>1. CASE Seal(m) \/ RequestShutdown(m)
  BY <1>1, StopPosts DEF Seal, RequestShutdown, loopVars, Stops, LineStep
<1>2. CASE Unseal(m)
  BY <1>2, QueuesStay DEF Unseal, loopVars, LineStep
<1>3. ASSUME NEW r \in Requests, Submit(m, r) PROVE LineStep
  <2>1. CASE pc[m] = "panicked"
    <3>1. Declines(r)
      BY <1>3, <2>1, QueuesStay DEF Submit, loopVars, Declines
    <3> QED BY <3>1 DEF LineStep
  <2>2. CASE pc[m] # "panicked"
    <3>1. Accepts(m, r)
      BY <1>3, <2>2, SendAppends DEF Submit, loopVars, Accepts, Commands
    <3> QED BY <3>1 DEF LineStep
  <2> QED BY <2>1, <2>2
<1> QED BY <1>1, <1>2, <1>3

\* The loop skips, begins or refuses the head of its line.
LEMMA TakesHead ==
  ASSUME TypeOK, LoopInv, NEW m \in Managers, TakeShutdown(m) \/ TakeSubmit(m) \/ RefuseSubmit(m)
  PROVE  LineStep
<1>1. HasCommand(m) /\ PopCommand(m) /\ pc[m] = "next"
  BY DEF TakeShutdown, TakeSubmit, RefuseSubmit
<1>2. HeadLeaves(m) /\ Command(m) = Head(Line(m))
  BY <1>1, PopTakesHead DEF HeadLeaves, Aside
<1>3. cur[m] = None
  BY <1>1 DEF LoopInv, LoopShape
<1>4. CASE TakeShutdown(m)
  BY <1>2, <1>4 DEF TakeShutdown, Skips, LineStep
<1>5. CASE TakeSubmit(m)
  <2>1. Begins(m, Command(m)) /\ Command(m) \in Requests
    BY <1>2, <1>3, <1>5 DEF TakeSubmit, Begins
  <2> QED BY <2>1 DEF LineStep
<1>6. CASE RefuseSubmit(m)
  <2>1. Refuses(m, Command(m)) /\ Command(m) \in Requests
    BY <1>2, <1>3, <1>6 DEF RefuseSubmit, Refuses
  <2> QED BY <2>1 DEF LineStep
<1> QED BY <1>4, <1>5, <1>6

\* A command that is held back during a request keeps its place in the line.
LEMMA DeferStays ==
  ASSUME TypeOK, NEW m \in Managers, Defer(m)
  PROVE  LinesStay /\ UNCHANGED <<cur, answer>>
<1>1. deferred[m] \in Seq(Commands) /\ chan[m] \in Seq(Commands) /\ chan[m] # <<>>
  BY LineTyped DEF Defer
<1>2. /\ deferred'[m] = Append(deferred[m], Head(chan[m])) /\ chan'[m] = Tail(chan[m])
      /\ \A n \in Managers \ {m} : deferred'[n] = deferred[n] /\ chan'[n] = chan[n]
  BY DEF Defer, TypeOK
<1>3. Line(m)' = Line(m)
  BY <1>1, <1>2, ConcatMove DEF Line
<1> QED BY <1>2, <1>3 DEF LinesStay, Line, Defer, sharedVars

\* A request ends with an answer, a dead worker or a failed start.
LEMMA EndsRequest ==
  ASSUME TypeOK, LoopInv, NEW m \in Managers, SpawnFails(m) \/ WorkerAnswers(m) \/ WorkerGone(m)
  PROVE  cur[m] # None => Ends(m)
<1>1. UNCHANGED <<chan, deferred>> /\ cur' = [cur EXCEPT ![m] = None]
  BY DEF SpawnFails, WorkerAnswers, WorkerGone, handleVars
<1>2. \E a \in {"gone", "error"} \cup (IF pc[m] = "serve" THEN {"done"} ELSE {}) :
        answer' = [answer EXCEPT ![cur[m]] = a]
  BY DEF SpawnFails, WorkerAnswers, WorkerGone
<1> QED BY <1>1, <1>2, QueuesStay DEF Ends

\* A loop that panics drops its whole line.
LEMMA PanicFails ==
  ASSUME TypeOK, NEW m \in Managers, Panic(m)
  PROVE  Fails(m)
<1>1. deferred[m] \in Seq(Commands) /\ chan[m] \in Seq(Commands)
  BY LineTyped
<1>2. Range(Line(m)) = Range(chan[m]) \cup Range(deferred[m])
  BY <1>1, RangeConcatenation DEF Line
<1>3. /\ deferred'[m] = <<>> /\ chan'[m] = <<>>
      /\ \A n \in Managers \ {m} : deferred'[n] = deferred[n] /\ chan'[n] = chan[n]
  BY DEF Panic, TypeOK
<1>4. Line(m)' = <<>> /\ Aside(m)
  BY <1>3, ConcatEmptySeq, EmptySeq DEF Line, Aside
<1> QED BY <1>2, <1>4 DEF Fails, Panic

\* The other steps of the loop leave the lines alone, as do the shutdowns and
\* the processes.
LEMMA OtherStepsStay ==
  ASSUME \/ \E m \in Managers : \/ ClearCloses(m) \/ ClearReturns(m) \/ StartRequest(m) \/ IdleTimeout(m)
                                \/ Restart(m) \/ Acquire(m) \/ (\E p \in Procs : SpawnSucceeds(m, p))
         \/ \E k \in killers : KillerStrikes(k) \/ KillerReaps(k)
         \/ \E p \in Procs : ExitsAfterKnock(p) \/ WorkerDies(p)
         \/ UNCHANGED vars
  PROVE  LinesStay /\ UNCHANGED <<cur, answer>>
<1>1. CASE \E m \in Managers : \/ ClearCloses(m) \/ ClearReturns(m) \/ StartRequest(m) \/ IdleTimeout(m)
                               \/ Restart(m) \/ Acquire(m) \/ (\E p \in Procs : SpawnSucceeds(m, p))
  BY <1>1, QueuesStay DEF ClearCloses, ClearReturns, StartRequest, IdleTimeout, Restart, Acquire, SpawnSucceeds,
                          handleVars, loopVars, sharedVars
<1>2. CASE \/ \E k \in killers : KillerStrikes(k) \/ KillerReaps(k)
           \/ \E p \in Procs : ExitsAfterKnock(p) \/ WorkerDies(p)
           \/ UNCHANGED vars
  BY <1>2, QueuesStay DEF KillerStrikes, KillerReaps, ExitsAfterKnock, WorkerDies, handleVars, loopVars, vars
<1> QED BY <1>1, <1>2

\* The loop handles a request exactly at these places.
Handling == \A m \in Managers : pc[m] \in {"permit", "spawn", "write", "serve"} => cur[m] # None

\* A step keeps the handled request in cur until it is answered.
LEMMA NextKeepsHandling ==
  ASSUME TypeOK, Handling, [Next]_vars
  PROVE  Handling'
<1> USE DEF Handling, TypeOK
<1>1. CASE UNCHANGED <<pc, cur>>
  BY <1>1
<1>2. ASSUME NEW m \in Managers, TakeShutdown(m) \/ IdleTimeout(m) PROVE Handling'
  BY <1>2 DEF TakeShutdown, IdleTimeout, ClearWorker
<1>3. ASSUME NEW m \in Managers, TakeSubmit(m) PROVE Handling'
  <2>1. /\ cur' = [cur EXCEPT ![m] = Command(m)] /\ Command(m) # None
        /\ \A n \in Managers \ {m} : pc'[n] = pc[n]
    BY <1>3, ConstantsAssumption DEF TakeSubmit, ClearWorker
  <2> QED BY <2>1
<1>4. ASSUME NEW m \in Managers, SpawnFails(m) \/ WorkerAnswers(m) \/ WorkerGone(m) PROVE Handling'
  <2>1. cur' = [cur EXCEPT ![m] = None] /\ pc'[m] \in {"next", "clear"} /\ \A n \in Managers \ {m} : pc'[n] = pc[n]
    <3>1. CASE SpawnFails(m) \/ WorkerAnswers(m)
      BY <3>1 DEF SpawnFails, WorkerAnswers
    <3>2. CASE WorkerGone(m)
      BY <3>2 DEF WorkerGone, ClearWorker
    <3> QED BY <1>4, <3>1, <3>2
  <2> QED BY <2>1
<1>5. ASSUME NEW m \in Managers, ClearReturns(m) \/ StartRequest(m) \/ Acquire(m) PROVE Handling'
  BY <1>5 DEF ClearReturns, StartRequest, Acquire
<1>6. ASSUME NEW m \in Managers, Restart(m) \/ Panic(m) \/ (\E p \in Procs : SpawnSucceeds(m, p)) PROVE Handling'
  BY <1>6 DEF Restart, Panic, SpawnSucceeds
<1>7. ASSUME NEW m \in Managers,
             \/ ClearCloses(m) \/ RefuseSubmit(m) \/ Defer(m) \/ Seal(m) \/ Unseal(m) \/ RequestShutdown(m)
             \/ (\E r \in Requests : Submit(m, r))
      PROVE  Handling'
  BY <1>1, <1>7 DEF ClearCloses, RefuseSubmit, Defer, Seal, Unseal, RequestShutdown, Submit, loopVars
<1>8. CASE \/ \E k \in killers : KillerStrikes(k) \/ KillerReaps(k)
           \/ \E p \in Procs : ExitsAfterKnock(p) \/ WorkerDies(p)
           \/ UNCHANGED vars
  BY <1>1, <1>8 DEF KillerStrikes, KillerReaps, ExitsAfterKnock, WorkerDies, loopVars, vars
<1> QED BY <1>2, <1>3, <1>4, <1>5, <1>6, <1>7, <1>8 DEF Next, LoopStep

\* Every step is one of the lines'.
LEMMA NextLineStep ==
  ASSUME TypeOK, LoopInv, Handling, [Next]_vars
  PROVE  LineStep
<1>1. ASSUME NEW m \in Managers, SpawnFails(m) \/ WorkerAnswers(m) \/ WorkerGone(m) PROVE LineStep
  <2>1. cur[m] # None
    BY <1>1 DEF Handling, SpawnFails, WorkerAnswers, WorkerGone
  <2> QED BY <1>1, <2>1, EndsRequest DEF LineStep
<1>2. ASSUME NEW m \in Managers, Panic(m) PROVE LineStep
  BY <1>2, PanicFails DEF LineStep
<1>3. ASSUME NEW m \in Managers, Defer(m) PROVE LineStep
  BY <1>3, DeferStays DEF LineStep
<1>4. ASSUME NEW m \in Managers,
             \/ ClearCloses(m) \/ ClearReturns(m) \/ StartRequest(m) \/ IdleTimeout(m) \/ Restart(m) \/ Acquire(m)
             \/ (\E p \in Procs : SpawnSucceeds(m, p))
      PROVE  LineStep
  BY <1>4, OtherStepsStay DEF LineStep
<1>5. CASE \/ \E k \in killers : KillerStrikes(k) \/ KillerReaps(k)
           \/ \E p \in Procs : ExitsAfterKnock(p) \/ WorkerDies(p)
           \/ UNCHANGED vars
  BY <1>5, OtherStepsStay DEF LineStep
<1> QED BY <1>1, <1>2, <1>3, <1>4, <1>5, HandleLines, TakesHead DEF Next, LoopStep

-----------------------------------------------------------------------------
(* No request is lost or served twice.                                     *)

Waits(r) == \E m \in Managers : cur[m] = r \/ \E i \in DOMAIN Line(m) : Line(m)[i] = r

\* A request stands in one place of one manager, while its caller waits.
LineInv ==
  \A r \in Requests :
    /\ answer[r] = "waiting" <=> Waits(r)
    /\ \A m, n \in Managers : \A i \in DOMAIN Line(m), j \in DOMAIN Line(n) :
         Line(m)[i] = r /\ Line(n)[j] = r => m = n /\ i = j
    /\ \A m, n \in Managers : cur[m] = r =>
         (cur[n] = r => m = n) /\ \A j \in DOMAIN Line(n) : Line(n)[j] # r

\* The requests stay where they are.
LEMMA Stays ==
  ASSUME LineInv, LinesStay, UNCHANGED <<cur, answer>>
  PROVE  LineInv'
  BY DEF LineInv, LinesStay, Waits

\* A request told at once that its manager is gone stands nowhere.
LEMMA DeclineKeeps ==
  ASSUME TypeOK, LineInv, NEW r \in Requests, Declines(r)
  PROVE  LineInv'
  BY DEF LineInv, LinesStay, Waits, Declines, TypeOK

\* A line that loses its head is the rest of it, one place further on.
LEMMA RestOfLine ==
  ASSUME TypeOK, NEW m \in Managers, HeadLeaves(m)
  PROVE  /\ 1 \in DOMAIN Line(m) /\ Head(Line(m)) = Line(m)[1]
         /\ \A i \in DOMAIN Line(m)' : i + 1 \in DOMAIN Line(m) /\ i + 1 # 1 /\ Line(m)'[i] = Line(m)[i + 1]
         /\ \A i \in DOMAIN Line(m) : i # 1 => i - 1 \in DOMAIN Line(m)' /\ Line(m)'[i - 1] = Line(m)[i]
         /\ \A i, j \in DOMAIN Line(m)' : i + 1 = j + 1 => i = j
<1>1. Line(m) \in Seq(Commands) /\ Line(m) # <<>> /\ Line(m)' = Tail(Line(m))
  BY LineTyped DEF HeadLeaves
<1> DEFINE L == Line(m)
           T == Tail(Line(m))
<1>2. /\ Len(L) \in Nat \ {0} /\ DOMAIN L = 1..Len(L) /\ DOMAIN T = 1..(Len(L) - 1)
      /\ \A i \in 1..(Len(L) - 1) : T[i] = L[i + 1]
      /\ Head(L) = L[1]
  BY <1>1, HeadTailProperties, LenProperties, EmptySeq
<1> QED BY <1>1, <1>2

\* A line that grows has one place more, at its end.
LEMMA EndOfLine ==
  ASSUME TypeOK, NEW m \in Managers, NEW c \in Commands, Line(m)' = Append(Line(m), c)
  PROVE  \E k \in Nat : /\ k \notin DOMAIN Line(m) /\ DOMAIN Line(m)' = DOMAIN Line(m) \cup {k}
                        /\ \A i \in DOMAIN Line(m) : i < k /\ Line(m)'[i] = Line(m)[i]
                        /\ Line(m)'[k] = c
<1>1. Line(m) \in Seq(Commands)
  BY LineTyped
<1> DEFINE L == Line(m)
<1>2. /\ Len(L) \in Nat /\ DOMAIN L = 1..Len(L) /\ DOMAIN Append(L, c) = 1..(Len(L) + 1)
      /\ \A i \in 1..Len(L) : Append(L, c)[i] = L[i]
      /\ Append(L, c)[Len(L) + 1] = c
  BY <1>1, AppendProperties, LenProperties
<1>3. Len(L) + 1 \in Nat /\ Len(L) + 1 \notin DOMAIN L /\ 1..(Len(L) + 1) = 1..Len(L) \cup {Len(L) + 1}
  BY <1>2
<1> QED BY <1>2, <1>3

\* A request that is accepted stands at the end of one line, and in no other
\* place.
LEMMA AcceptKeeps ==
  ASSUME TypeOK, LineInv, NEW m \in Managers, NEW r \in Requests, Accepts(m, r)
  PROVE  LineInv'
<1>1. PICK k \in Nat :
        /\ k \notin DOMAIN Line(m) /\ DOMAIN Line(m)' = DOMAIN Line(m) \cup {k}
        /\ \A i \in DOMAIN Line(m) : Line(m)'[i] = Line(m)[i]
        /\ Line(m)'[k] = r
  BY EndOfLine DEF Accepts, Commands
<1>2. /\ answer[r] # "waiting" /\ answer'[r] = "waiting" /\ \A q \in Requests \ {r} : answer'[q] = answer[q]
      /\ cur' = cur /\ \A n \in Managers \ {m} : Line(n)' = Line(n)
  BY DEF Accepts, Aside, TypeOK
<1>3. ~Waits(r)
  BY <1>2 DEF LineInv
<1>4. ASSUME NEW q \in Requests PROVE answer'[q] = "waiting" <=> Waits(q)'
  <2>1. CASE q = r
    BY <1>1, <1>2, <2>1 DEF Waits
  <2>2. CASE q # r
    <3>1. Waits(q)' <=> Waits(q)
      BY <1>1, <1>2, <2>2 DEF Waits
    <3> QED BY <1>2, <2>2, <3>1 DEF LineInv
  <2> QED BY <2>1, <2>2
<1>5. ASSUME NEW q \in Requests, NEW n \in Managers, NEW o \in Managers,
             NEW i \in DOMAIN Line(n)', NEW j \in DOMAIN Line(o)', Line(n)'[i] = q, Line(o)'[j] = q
      PROVE  n = o /\ i = j
  <2>1. CASE q = r
    BY <1>1, <1>2, <1>3, <1>5, <2>1 DEF Waits
  <2>2. CASE q # r
    <3>1. i \in DOMAIN Line(n) /\ Line(n)[i] = q /\ j \in DOMAIN Line(o) /\ Line(o)[j] = q
      BY <1>1, <1>2, <1>5, <2>2
    <3> QED BY <3>1 DEF LineInv
  <2> QED BY <2>1, <2>2
<1>6. ASSUME NEW q \in Requests, NEW n \in Managers, NEW o \in Managers, cur'[n] = q
      PROVE  (cur'[o] = q => n = o) /\ \A j \in DOMAIN Line(o)' : Line(o)'[j] # q
  <2>1. q # r /\ cur[n] = q
    BY <1>2, <1>3, <1>6 DEF Waits
  <2> QED BY <1>1, <1>2, <2>1 DEF LineInv
<1> QED BY <1>4, <1>5, <1>6 DEF LineInv

\* A shutdown command takes no request's place.
LEMMA PostKeeps ==
  ASSUME TypeOK, LineInv, NEW m \in Managers, Posts(m)
  PROVE  LineInv'
<1>1. PICK k \in Nat :
        /\ k \notin DOMAIN Line(m) /\ DOMAIN Line(m)' = DOMAIN Line(m) \cup {k}
        /\ \A i \in DOMAIN Line(m) : Line(m)'[i] = Line(m)[i]
        /\ Line(m)'[k] = Shutdown
  BY EndOfLine DEF Posts, Commands
<1>2. cur' = cur /\ answer' = answer /\ \A n \in Managers \ {m} : Line(n)' = Line(n)
  BY DEF Posts, Aside
<1>3. \A q \in Requests, n \in Managers : \A i : i \in DOMAIN Line(n)' /\ Line(n)'[i] = q <=>
                                                 i \in DOMAIN Line(n) /\ Line(n)[i] = q
  BY <1>1, <1>2, ConstantsAssumption
<1>4. \A q \in Requests : Waits(q)' <=> Waits(q)
  BY <1>2, <1>3 DEF Waits
<1> QED BY <1>2, <1>3, <1>4 DEF LineInv

\* The places after the head has left: the others are one place further on.
LEMMA PlacesShift ==
  ASSUME TypeOK, NEW m \in Managers, HeadLeaves(m), LineInv, NEW q \in Requests, q # Head(Line(m))
  PROVE  /\ \A n \in Managers : (\E i \in DOMAIN Line(n)' : Line(n)'[i] = q) <=> \E i \in DOMAIN Line(n) : Line(n)[i] = q
         /\ \A n, o \in Managers : \A i \in DOMAIN Line(n)', j \in DOMAIN Line(o)' :
              Line(n)'[i] = q /\ Line(o)'[j] = q => n = o /\ i = j
<1>1. /\ 1 \in DOMAIN Line(m) /\ Head(Line(m)) = Line(m)[1]
      /\ \A i \in DOMAIN Line(m)' : i + 1 \in DOMAIN Line(m) /\ i + 1 # 1 /\ Line(m)'[i] = Line(m)[i + 1]
      /\ \A i \in DOMAIN Line(m) : i # 1 => i - 1 \in DOMAIN Line(m)' /\ Line(m)'[i - 1] = Line(m)[i]
      /\ \A i, j \in DOMAIN Line(m)' : i + 1 = j + 1 => i = j
  BY RestOfLine
<1>2. \A n \in Managers \ {m} : Line(n)' = Line(n)
  BY DEF HeadLeaves, Aside
<1>3. \A n \in Managers : (\E i \in DOMAIN Line(n)' : Line(n)'[i] = q) <=> \E i \in DOMAIN Line(n) : Line(n)[i] = q
  <2>1. ASSUME NEW i \in DOMAIN Line(m)', Line(m)'[i] = q PROVE \E j \in DOMAIN Line(m) : Line(m)[j] = q
    BY <1>1, <2>1
  <2>2. ASSUME NEW i \in DOMAIN Line(m), Line(m)[i] = q PROVE \E j \in DOMAIN Line(m)' : Line(m)'[j] = q
    BY <1>1, <2>2
  <2> QED BY <1>2, <2>1, <2>2
<1>4. ASSUME NEW n \in Managers, NEW o \in Managers, NEW i \in DOMAIN Line(n)', NEW j \in DOMAIN Line(o)',
             Line(n)'[i] = q, Line(o)'[j] = q
      PROVE  n = o /\ i = j
  <2>1. n # m => i \in DOMAIN Line(n) /\ Line(n)[i] = q
    BY <1>2, <1>4
  <2>2. n = m => i + 1 \in DOMAIN Line(n) /\ Line(n)[i + 1] = q
    BY <1>1, <1>4
  <2>3. o # m => j \in DOMAIN Line(o) /\ Line(o)[j] = q
    BY <1>2, <1>4
  <2>4. o = m => j + 1 \in DOMAIN Line(o) /\ Line(o)[j + 1] = q
    BY <1>1, <1>4
  <2>5. n = o
    BY <2>1, <2>2, <2>3, <2>4 DEF LineInv
  <2>6. n = m => i + 1 = j + 1
    BY <2>2, <2>4, <2>5 DEF LineInv
  <2>7. n # m => i = j
    BY <2>1, <2>3, <2>5 DEF LineInv
  <2> QED BY <1>1, <2>5, <2>6, <2>7
<1> QED BY <1>3, <1>4

\* A request that was the head is no longer in any line.
LEMMA HeadGone ==
  ASSUME TypeOK, LineInv, NEW m \in Managers, HeadLeaves(m), NEW r \in Requests, r = Head(Line(m))
  PROVE  /\ Waits(r) /\ \A n \in Managers : cur[n] # r
         /\ \A n \in Managers : \A i \in DOMAIN Line(n)' : Line(n)'[i] # r
<1>1. /\ 1 \in DOMAIN Line(m) /\ r = Line(m)[1]
      /\ \A i \in DOMAIN Line(m)' : i + 1 \in DOMAIN Line(m) /\ i + 1 # 1 /\ Line(m)'[i] = Line(m)[i + 1]
  BY RestOfLine
<1>2. \A n \in Managers \ {m} : Line(n)' = Line(n)
  BY DEF HeadLeaves, Aside
<1>3. Waits(r) /\ \A n \in Managers : cur[n] # r
  BY <1>1 DEF LineInv, Waits
<1>4. \A n \in Managers \ {m} : \A i \in DOMAIN Line(n)' : Line(n)'[i] # r
  BY <1>1, <1>2 DEF LineInv
<1>5. \A i \in DOMAIN Line(m)' : Line(m)'[i] # r
  BY <1>1 DEF LineInv
<1> QED BY <1>3, <1>4, <1>5

\* A shutdown command that is taken up leaves every request in its line.
LEMMA SkipKeeps ==
  ASSUME TypeOK, LineInv, NEW m \in Managers, Skips(m)
  PROVE  LineInv'
<1>1. HeadLeaves(m) /\ cur' = cur /\ answer' = answer /\ \A q \in Requests : q # Head(Line(m))
  BY ConstantsAssumption DEF Skips
<1>2. \A q \in Requests :
        /\ \A n \in Managers : (\E i \in DOMAIN Line(n)' : Line(n)'[i] = q) <=> \E i \in DOMAIN Line(n) : Line(n)[i] = q
        /\ \A n, o \in Managers : \A i \in DOMAIN Line(n)', j \in DOMAIN Line(o)' :
             Line(n)'[i] = q /\ Line(o)'[j] = q => n = o /\ i = j
  BY <1>1, PlacesShift
<1>3. \A q \in Requests : Waits(q)' <=> Waits(q)
  BY <1>1, <1>2 DEF Waits
<1>4. ASSUME NEW q \in Requests, NEW n \in Managers, NEW o \in Managers, cur'[n] = q
      PROVE  (cur'[o] = q => n = o) /\ \A j \in DOMAIN Line(o)' : Line(o)'[j] # q
  BY <1>1, <1>2, <1>4 DEF LineInv
<1>5. \A q \in Requests : answer'[q] = "waiting" <=> Waits(q)'
  BY <1>1, <1>3 DEF LineInv
<1> QED BY <1>2, <1>4, <1>5 DEF LineInv

\* A request that is taken up leaves its line for the hand of its loop.
LEMMA BeginKeeps ==
  ASSUME TypeOK, LineInv, NEW m \in Managers, NEW r \in Requests, Begins(m, r)
  PROVE  LineInv'
<1>1. /\ HeadLeaves(m) /\ r = Head(Line(m)) /\ answer' = answer /\ cur[m] = None
      /\ cur'[m] = r /\ \A n \in Managers \ {m} : cur'[n] = cur[n]
  BY DEF Begins, TypeOK
<1>2. \A q \in Requests \ {r} :
        /\ \A n \in Managers : (\E i \in DOMAIN Line(n)' : Line(n)'[i] = q) <=> \E i \in DOMAIN Line(n) : Line(n)[i] = q
        /\ \A n, o \in Managers : \A i \in DOMAIN Line(n)', j \in DOMAIN Line(o)' :
             Line(n)'[i] = q /\ Line(o)'[j] = q => n = o /\ i = j
  BY <1>1, PlacesShift
<1>3. /\ Waits(r) /\ \A n \in Managers : cur[n] # r
      /\ \A n \in Managers : \A i \in DOMAIN Line(n)' : Line(n)'[i] # r
  BY <1>1, HeadGone
<1>4. ASSUME NEW q \in Requests PROVE Waits(q)' <=> Waits(q)
  <2>1. CASE q = r
    BY <1>1, <1>3, <2>1 DEF Waits
  <2>2. CASE q # r
    BY <1>1, <1>2, <2>2, ConstantsAssumption DEF Waits
  <2> QED BY <2>1, <2>2
<1>5. ASSUME NEW q \in Requests, NEW n \in Managers, NEW o \in Managers, cur'[n] = q
      PROVE  (cur'[o] = q => n = o) /\ \A j \in DOMAIN Line(o)' : Line(o)'[j] # q
  <2>1. CASE q = r
    BY <1>1, <1>3, <1>5, <2>1
  <2>2. CASE q # r
    <3>1. cur[n] = q
      BY <1>1, <1>5, <2>2
    <3> QED BY <1>1, <1>2, <2>2, <3>1 DEF LineInv
  <2> QED BY <2>1, <2>2
<1>6. \A q \in Requests : answer'[q] = "waiting" <=> Waits(q)'
  BY <1>1, <1>4 DEF LineInv
<1>7. \A q \in Requests : \A n, o \in Managers : \A i \in DOMAIN Line(n)', j \in DOMAIN Line(o)' :
        Line(n)'[i] = q /\ Line(o)'[j] = q => n = o /\ i = j
  BY <1>2, <1>3
<1> QED BY <1>5, <1>6, <1>7 DEF LineInv

\* A request that is refused leaves its line, and its caller knows.
LEMMA RefuseKeeps ==
  ASSUME TypeOK, LineInv, NEW m \in Managers, NEW r \in Requests, Refuses(m, r)
  PROVE  LineInv'
<1>1. /\ HeadLeaves(m) /\ r = Head(Line(m)) /\ cur' = cur
      /\ answer'[r] # "waiting" /\ \A q \in Requests \ {r} : answer'[q] = answer[q]
  BY DEF Refuses, TypeOK
<1>2. \A q \in Requests \ {r} :
        /\ \A n \in Managers : (\E i \in DOMAIN Line(n)' : Line(n)'[i] = q) <=> \E i \in DOMAIN Line(n) : Line(n)[i] = q
        /\ \A n, o \in Managers : \A i \in DOMAIN Line(n)', j \in DOMAIN Line(o)' :
             Line(n)'[i] = q /\ Line(o)'[j] = q => n = o /\ i = j
  BY <1>1, PlacesShift
<1>3. /\ \A n \in Managers : cur[n] # r
      /\ \A n \in Managers : \A i \in DOMAIN Line(n)' : Line(n)'[i] # r
  BY <1>1, HeadGone
<1>4. ~Waits(r)'
  BY <1>1, <1>3 DEF Waits
<1>5. \A q \in Requests \ {r} : Waits(q)' <=> Waits(q)
  BY <1>1, <1>2 DEF Waits
<1>6. \A q \in Requests : answer'[q] = "waiting" <=> Waits(q)'
  BY <1>1, <1>4, <1>5 DEF LineInv
<1>7. ASSUME NEW q \in Requests, NEW n \in Managers, NEW o \in Managers, cur'[n] = q
      PROVE  (cur'[o] = q => n = o) /\ \A j \in DOMAIN Line(o)' : Line(o)'[j] # q
  <2>1. cur[n] = q /\ q # r
    BY <1>1, <1>3, <1>7
  <2> QED BY <1>1, <1>2, <2>1 DEF LineInv
<1>8. \A q \in Requests : \A n, o \in Managers : \A i \in DOMAIN Line(n)', j \in DOMAIN Line(o)' :
        Line(n)'[i] = q /\ Line(o)'[j] = q => n = o /\ i = j
  BY <1>2, <1>3
<1> QED BY <1>6, <1>7, <1>8 DEF LineInv

\* A request that ends leaves the hand of its loop, and its caller knows.
LEMMA EndKeeps ==
  ASSUME TypeOK, LineInv, NEW m \in Managers, Ends(m)
  PROVE  LineInv'
<1>1. PICK r \in Requests :
        /\ cur[m] = r /\ cur'[m] = None /\ \A n \in Managers \ {m} : cur'[n] = cur[n]
        /\ answer'[r] # "waiting" /\ \A q \in Requests \ {r} : answer'[q] = answer[q]
        /\ \A n \in Managers : Line(n)' = Line(n)
  BY DEF Ends, LinesStay, TypeOK
<1>2. \A n \in Managers : cur'[n] \in Requests => cur'[n] = cur[n] /\ n # m
  BY <1>1, ConstantsAssumption
<1>3. ~Waits(r)'
  BY <1>1, <1>2 DEF Waits, LineInv
<1>4. \A q \in Requests \ {r} : Waits(q)' <=> Waits(q)
  BY <1>1, <1>2 DEF Waits
<1>5. \A q \in Requests : answer'[q] = "waiting" <=> Waits(q)'
  BY <1>1, <1>3, <1>4 DEF LineInv
<1> QED BY <1>1, <1>2, <1>5 DEF LineInv

\* A loop that fails lets go of its whole line, and every caller in it knows.
LEMMA FailKeeps ==
  ASSUME TypeOK, LineInv, NEW m \in Managers, Fails(m)
  PROVE  LineInv'
<1>1. /\ cur'[m] = None /\ \A n \in Managers \ {m} : cur'[n] = cur[n] /\ Line(n)' = Line(n)
      /\ DOMAIN Line(m)' = {}
      /\ \A q \in Requests : answer'[q] = IF q = cur[m] \/ q \in Range(Line(m)) THEN "gone" ELSE answer[q]
  BY DEF Fails, Aside, TypeOK
<1>2. \A q \in Requests : q \in Range(Line(m)) <=> \E i \in DOMAIN Line(m) : Line(m)[i] = q
  BY DEF Range
<1>3. \A n \in Managers : cur'[n] \in Requests => cur'[n] = cur[n] /\ n # m
  BY <1>1, ConstantsAssumption
<1>4. ASSUME NEW q \in Requests PROVE answer'[q] = "waiting" <=> Waits(q)'
  <2>1. CASE q = cur[m] \/ q \in Range(Line(m))
    <3>1. answer'[q] # "waiting"
      BY <1>1, <2>1
    <3>2. ~Waits(q)'
      BY <1>1, <1>2, <1>3, <2>1 DEF LineInv, Waits
    <3> QED BY <3>1, <3>2
  <2>2. CASE ~(q = cur[m] \/ q \in Range(Line(m)))
    <3>1. Waits(q)' <=> Waits(q)
      BY <1>1, <1>2, <1>3, <2>2 DEF Waits
    <3> QED BY <1>1, <2>2, <3>1 DEF LineInv
  <2> QED BY <2>1, <2>2
<1> QED BY <1>1, <1>3, <1>4 DEF LineInv

\* Every step of the lines keeps the requests where they belong.
LEMMA LineStepKeeps ==
  ASSUME TypeOK, LineInv, LineStep
  PROVE  LineInv'
  BY Stays, DeclineKeeps, AcceptKeeps, PostKeeps, SkipKeeps, BeginKeeps, RefuseKeeps, EndKeeps, FailKeeps DEF LineStep

\* Nobody waits at first.
LEMMA InitLines == Init => LineInv
<1> SUFFICES ASSUME Init PROVE LineInv
  OBVIOUS
<1>1. \A m \in Managers : Line(m) = <<>> /\ cur[m] = None
  BY ConcatEmptySeq, EmptySeq DEF Init, Line
<1>2. \A m \in Managers : DOMAIN Line(m) = {}
  BY <1>1
<1> QED BY <1>1, <1>2, ConstantsAssumption DEF Init, LineInv, Waits

\* The lines, with what the loops' places say, hold in every reachable state.
LEMMA LinesInvariant == Spec => [](TypeOK /\ LoopInv /\ Handling /\ LineInv)
<1>1. Init => TypeOK /\ LoopInv /\ Handling /\ LineInv
  BY InitTyped, InitLines DEF Init, LoopInv, LoopShape, PermitFollowsWorker, Handling
<1>2. TypeOK /\ LoopInv /\ Handling /\ LineInv /\ [Next]_vars => (TypeOK /\ LoopInv /\ Handling /\ LineInv)'
  BY NextTyped, NextKeepsLoop, NextKeepsHandling, NextLineStep, LineStepKeeps
<1> QED BY <1>1, <1>2, PTL DEF Spec


\* The places of a request are those of one line, or the hand of one loop.
LEMMA PlacesInLine ==
  ASSUME TypeOK, NEW m \in Managers, NEW r \in Requests
  PROVE  /\ \A i \in DOMAIN deferred[m] : deferred[m][i] = r => i \in DOMAIN Line(m) /\ Line(m)[i] = r
         /\ \A i \in DOMAIN chan[m] : chan[m][i] = r =>
              Len(deferred[m]) + i \in DOMAIN Line(m) /\ Line(m)[Len(deferred[m]) + i] = r
         /\ \A k \in DOMAIN Line(m) : Line(m)[k] = r =>
              \/ k \in DOMAIN deferred[m] /\ deferred[m][k] = r
              \/ k - Len(deferred[m]) \in DOMAIN chan[m] /\ chan[m][k - Len(deferred[m])] = r
         /\ \A i \in DOMAIN chan[m] : Len(deferred[m]) + i \notin DOMAIN deferred[m]
         /\ DOMAIN chan[m] \subseteq Nat /\ Len(deferred[m]) \in Nat
<1> DEFINE s == deferred[m]
           t == chan[m]
<1>1. s \in Seq(Commands) /\ t \in Seq(Commands)
  BY LineTyped
<1>2. /\ Len(s) \in Nat /\ Len(t) \in Nat /\ DOMAIN s = 1..Len(s) /\ DOMAIN t = 1..Len(t)
      /\ s \o t \in Seq(Commands) /\ Len(s \o t) = Len(s) + Len(t)
      /\ \A i \in 1..(Len(s) + Len(t)) : (s \o t)[i] = IF i <= Len(s) THEN s[i] ELSE t[i - Len(s)]
  BY <1>1, ConcatProperties, LenProperties
<1>3. DOMAIN (s \o t) = 1..(Len(s) + Len(t)) /\ Line(m) = s \o t
  BY <1>2, LenProperties DEF Line
<1> HIDE DEF s, t
<1>4. \A i \in 1..Len(s) : i \in DOMAIN (s \o t) /\ (s \o t)[i] = s[i]
  BY <1>2, <1>3
<1>5. \A i \in 1..Len(t) : Len(s) + i \in DOMAIN (s \o t) /\ (s \o t)[Len(s) + i] = t[i] /\ Len(s) + i \notin 1..Len(s)
  BY <1>2, <1>3
<1>6. \A k \in DOMAIN (s \o t) : \/ k \in 1..Len(s) /\ (s \o t)[k] = s[k]
                                 \/ k - Len(s) \in 1..Len(t) /\ (s \o t)[k] = t[k - Len(s)]
  BY <1>2, <1>3
<1>7. /\ \A i \in DOMAIN s : s[i] = r => i \in DOMAIN (s \o t) /\ (s \o t)[i] = r
      /\ \A i \in DOMAIN t : t[i] = r => Len(s) + i \in DOMAIN (s \o t) /\ (s \o t)[Len(s) + i] = r
  BY <1>2, <1>4, <1>5
<1>8. \A k \in DOMAIN (s \o t) : (s \o t)[k] = r =>
        \/ k \in DOMAIN s /\ s[k] = r
        \/ k - Len(s) \in DOMAIN t /\ t[k - Len(s)] = r
  BY <1>2, <1>6
<1>9. \A i \in DOMAIN t : Len(s) + i \notin DOMAIN s
  BY <1>2, <1>5
<1>10. DOMAIN t \subseteq Nat
  BY <1>2
<1> QED BY ONLY <1>2, <1>3, <1>7, <1>8, <1>9, <1>10 DEF s, t

\* The places of a request, over all the managers.
Everywhere(r) == UNION {{<<m, x>> : x \in Places(m, r)} : m \in Managers}

\* What it is to be one of them.
LEMMA EverywhereIs ==
  ASSUME NEW r, NEW e
  PROVE  e \in Everywhere(r) <=>
           \E m \in Managers :
             \/ \E i \in DOMAIN chan[m] : chan[m][i] = r /\ e = <<m, <<"chan", i>>>>
             \/ \E i \in DOMAIN deferred[m] : deferred[m][i] = r /\ e = <<m, <<"deferred", i>>>>
             \/ cur[m] = r /\ e = <<m, <<"cur", 0>>>>
<1>1. e \in Everywhere(r) <=> \E m \in Managers : e \in {<<m, x>> : x \in Places(m, r)}
  BY Zenon DEF Everywhere
<1>2. ASSUME NEW m \in Managers
      PROVE  e \in {<<m, x>> : x \in Places(m, r)} <=>
               \/ \E i \in DOMAIN chan[m] : chan[m][i] = r /\ e = <<m, <<"chan", i>>>>
               \/ \E i \in DOMAIN deferred[m] : deferred[m][i] = r /\ e = <<m, <<"deferred", i>>>>
               \/ cur[m] = r /\ e = <<m, <<"cur", 0>>>>
  <2>1. \A x : x \in Places(m, r) <=>
               \/ \E i \in DOMAIN chan[m] : chan[m][i] = r /\ x = <<"chan", i>>
               \/ \E i \in DOMAIN deferred[m] : deferred[m][i] = r /\ x = <<"deferred", i>>
               \/ cur[m] = r /\ x = <<"cur", 0>>
    BY DEF Places
  <2>2. e \in {<<m, x>> : x \in Places(m, r)} <=> \E x \in Places(m, r) : e = <<m, x>>
    OBVIOUS
  <2> QED BY ONLY <2>1, <2>2, Zenon
<1> QED BY ONLY <1>1, <1>2

\* A request that waits has a place.
LEMMA WaitingIsSomewhere ==
  ASSUME TypeOK, NEW r \in Requests
  PROVE  Waits(r) <=> \E e : e \in Everywhere(r)
<1>1. ASSUME Waits(r) PROVE \E e : e \in Everywhere(r)
  <2>1. PICK m \in Managers : cur[m] = r \/ \E k \in DOMAIN Line(m) : Line(m)[k] = r
    BY <1>1 DEF Waits
  <2>2. CASE cur[m] = r
    <3>1. <<m, <<"cur", 0>>>> \in Everywhere(r)
      BY <2>2, EverywhereIs
    <3> QED BY <3>1
  <2>3. ASSUME NEW k \in DOMAIN Line(m), Line(m)[k] = r PROVE \E e : e \in Everywhere(r)
    <3>1. \/ k \in DOMAIN deferred[m] /\ deferred[m][k] = r
          \/ k - Len(deferred[m]) \in DOMAIN chan[m] /\ chan[m][k - Len(deferred[m])] = r
      BY <2>3, PlacesInLine
    <3>2. \/ <<m, <<"deferred", k>>>> \in Everywhere(r)
          \/ <<m, <<"chan", k - Len(deferred[m])>>>> \in Everywhere(r)
      BY <3>1, EverywhereIs
    <3> QED BY <3>2
  <2> QED BY <2>1, <2>2, <2>3
<1>2. ASSUME NEW e, e \in Everywhere(r) PROVE Waits(r)
  <2>1. PICK m \in Managers :
          \/ \E i \in DOMAIN chan[m] : chan[m][i] = r
          \/ \E i \in DOMAIN deferred[m] : deferred[m][i] = r
          \/ cur[m] = r
    BY <1>2, EverywhereIs
  <2> QED BY <2>1, PlacesInLine DEF Waits
<1> QED BY <1>1, <1>2

\* Two places of a request are the same one.
LEMMA OnePlace ==
  ASSUME TypeOK, LineInv, NEW r \in Requests, NEW e \in Everywhere(r), NEW f \in Everywhere(r)
  PROVE  e = f
<1> DEFINE Stands(n, g) ==
      \/ \E i \in DOMAIN chan[n] : chan[n][i] = r /\ g = <<n, <<"chan", i>>>>
      \/ \E i \in DOMAIN deferred[n] : deferred[n][i] = r /\ g = <<n, <<"deferred", i>>>>
      \/ cur[n] = r /\ g = <<n, <<"cur", 0>>>>
<1>1. PICK m \in Managers : Stands(m, e)
  BY EverywhereIs
<1>2. PICK n \in Managers : Stands(n, f)
  BY EverywhereIs
<1>3. ASSUME NEW o \in Managers, NEW g, Stands(o, g)
      PROVE  cur[o] = r \/ \E k \in DOMAIN Line(o) : Line(o)[k] = r
  BY <1>3, PlacesInLine
<1>4. m = n
  BY <1>1, <1>2, <1>3 DEF LineInv
<1>5. CASE cur[m] = r
  <2>1. \A k \in DOMAIN Line(m) : Line(m)[k] # r
    BY <1>5 DEF LineInv
  <2>2. e = <<m, <<"cur", 0>>>> /\ f = <<m, <<"cur", 0>>>>
    BY <1>1, <1>2, <1>4, <2>1, PlacesInLine
  <2> QED BY <2>2
<1>6. CASE cur[m] # r
  <2>1. \A k, l \in DOMAIN Line(m) : Line(m)[k] = r /\ Line(m)[l] = r => k = l
    BY DEF LineInv
  <2>2. \A i, j \in DOMAIN chan[m] : chan[m][i] = r /\ chan[m][j] = r => i = j
    BY <2>1, PlacesInLine
  <2>3. \A i, j \in DOMAIN deferred[m] : deferred[m][i] = r /\ deferred[m][j] = r => i = j
    BY <2>1, PlacesInLine
  <2>4. \A i \in DOMAIN deferred[m], j \in DOMAIN chan[m] : ~(deferred[m][i] = r /\ chan[m][j] = r)
    BY <2>1, PlacesInLine
  <2> QED BY <1>1, <1>2, <1>4, <1>6, <2>2, <2>3, <2>4
<1> QED BY <1>5, <1>6

\* No request is lost or served twice, however its manager is stopped, sealed
\* and panics: while its caller waits it is in one place of one manager, and
\* once it was answered in none (WorkerRuntime::next_command, handle_submit).
THEOREM RequestsAreConserved == Spec => []RequestsConserved
<1>1. TypeOK /\ LineInv => RequestsConserved
  <2> SUFFICES ASSUME TypeOK, LineInv, NEW r \in Requests
               PROVE  Cardinality(Everywhere(r)) = IF answer[r] = "waiting" THEN 1 ELSE 0
    BY DEF RequestsConserved, Everywhere
  <2>1. answer[r] = "waiting" <=> \E e : e \in Everywhere(r)
    BY WaitingIsSomewhere DEF LineInv
  <2>2. CASE answer[r] = "waiting"
    <3>1. PICK e : Everywhere(r) = {e}
      BY <2>1, <2>2, OnePlace
    <3> QED BY <2>2, <3>1, FS_Singleton
  <2>3. CASE answer[r] # "waiting"
    <3>1. Everywhere(r) = {}
      BY <2>1, <2>3
    <3> QED BY <2>3, <3>1, FS_EmptySet
  <2> QED BY <2>2, <2>3
<1> QED BY <1>1, LinesInvariant, PTL


-----------------------------------------------------------------------------
(* The managers implement RequestService: what each step of the lines is   *)
(* to the queues and to those ahead.                                       *)

Queued(m) == Range(Line(m)) \cap Requests
AheadOf(r) == {q \in Requests : Before(q, r)}
ViewStays ==
  /\ \A n \in Managers : Queued(n)' = Queued(n)
  /\ \A q \in Requests : AheadOf(q)' = AheadOf(q)

\* What it is to be queued and to be ahead, place by place.
LEMMA ViewIs ==
  /\ \A n \in Managers : \A q : q \in Queued(n) <=> q \in Requests /\ \E i \in DOMAIN Line(n) : Line(n)[i] = q
  /\ \A p, q : p \in AheadOf(q) <=>
       /\ p \in Requests
       /\ \E n \in Managers : \E i, j \in DOMAIN Line(n) : i < j /\ Line(n)[i] = p /\ Line(n)[j] = q
  BY DEF Queued, AheadOf, Before, Range

\* The same, after a step.
LEMMA ViewIsNext ==
  /\ \A n \in Managers : \A q : q \in Queued(n)' <=> q \in Requests /\ \E i \in DOMAIN Line(n)' : Line(n)'[i] = q
  /\ \A p, q : p \in AheadOf(q)' <=>
       /\ p \in Requests
       /\ \E n \in Managers : \E i, j \in DOMAIN Line(n)' : i < j /\ Line(n)'[i] = p /\ Line(n)'[j] = q
  BY DEF Queued, AheadOf, Before, Range

\* The places of a line are counted from one.
LEMMA LineDomain ==
  ASSUME TypeOK, NEW m \in Managers
  PROVE  \A i \in DOMAIN Line(m) : i \in Nat /\ i >= 1
  BY LineTyped, LenProperties

\* A line that stays shows the same queue.
LEMMA StayView ==
  ASSUME LinesStay
  PROVE  ViewStays
<1>1. ASSUME NEW n \in Managers PROVE Queued(n)' = Queued(n)
  BY DEF LinesStay, Queued
<1>2. ASSUME NEW q \in Requests PROVE AheadOf(q)' = AheadOf(q)
  <2>1. \A p : p \in AheadOf(q)' <=> p \in AheadOf(q)
    BY ViewIs, ViewIsNext DEF LinesStay
  <2> QED BY <2>1
<1> QED BY <1>1, <1>2 DEF ViewStays

\* A shutdown at the end of a line is nobody's request.
LEMMA PostView ==
  ASSUME TypeOK, NEW m \in Managers, Posts(m)
  PROVE  ViewStays
<1>1. PICK k \in Nat :
        /\ k \notin DOMAIN Line(m) /\ DOMAIN Line(m)' = DOMAIN Line(m) \cup {k}
        /\ \A i \in DOMAIN Line(m) : Line(m)'[i] = Line(m)[i]
        /\ Line(m)'[k] = Shutdown
  BY EndOfLine DEF Posts, Commands
<1>2. \A n \in Managers \ {m} : Line(n)' = Line(n)
  BY DEF Posts, Aside
<1>3. \A q \in Requests, n \in Managers : \A i : i \in DOMAIN Line(n)' /\ Line(n)'[i] = q <=>
                                                 i \in DOMAIN Line(n) /\ Line(n)[i] = q
  BY <1>1, <1>2, ConstantsAssumption
<1>4. ASSUME NEW n \in Managers PROVE Queued(n)' = Queued(n)
  <2>1. \A q : q \in Queued(n)' <=> q \in Queued(n)
    BY <1>3, ViewIs, ViewIsNext
  <2> QED BY <2>1
<1>5. ASSUME NEW q \in Requests PROVE AheadOf(q)' = AheadOf(q)
  <2>1. \A p : p \in AheadOf(q)' <=> p \in AheadOf(q)
    BY <1>3, ViewIs, ViewIsNext
  <2> QED BY <2>1
<1> QED BY <1>4, <1>5 DEF ViewStays

\* A request joins the queue of its manager, behind all it finds there.
LEMMA AcceptView ==
  ASSUME TypeOK, LineInv, NEW m \in Managers, NEW r \in Requests, Accepts(m, r)
  PROVE  /\ Queued(m)' = Queued(m) \cup {r}
         /\ \A n \in Managers \ {m} : Queued(n)' = Queued(n)
         /\ AheadOf(r)' = Queued(m)
         /\ \A q \in Requests \ {r} : AheadOf(q)' = AheadOf(q)
<1>1. PICK k \in Nat :
        /\ k \notin DOMAIN Line(m) /\ DOMAIN Line(m)' = DOMAIN Line(m) \cup {k}
        /\ \A i \in DOMAIN Line(m) : i < k /\ Line(m)'[i] = Line(m)[i]
        /\ Line(m)'[k] = r
  BY EndOfLine DEF Accepts, Commands
<1>2. \A n \in Managers \ {m} : Line(n)' = Line(n)
  BY DEF Accepts, Aside
<1>3. \A n \in Managers : \A i \in DOMAIN Line(n) : Line(n)[i] # r
  BY DEF LineInv, Accepts, Waits
<1>4. \A q \in Requests \ {r}, n \in Managers : \A i : i \in DOMAIN Line(n)' /\ Line(n)'[i] = q <=>
                                                       i \in DOMAIN Line(n) /\ Line(n)[i] = q
  BY <1>1, <1>2
<1>5. \A n \in Managers : \A i : i \in DOMAIN Line(n)' /\ Line(n)'[i] = r <=> n = m /\ i = k
  BY <1>1, <1>2, <1>3
<1>6. \A i \in DOMAIN Line(m) : ~(k < i)
  BY <1>1, LineDomain
<1>7. Queued(m)' = Queued(m) \cup {r}
  BY <1>4, <1>5, ViewIs, ViewIsNext
<1>8. ASSUME NEW n \in Managers \ {m} PROVE Queued(n)' = Queued(n)
  BY <1>2 DEF Queued
<1>9. AheadOf(r)' = Queued(m)
  <2>1. ASSUME NEW p \in AheadOf(r)' PROVE p \in Queued(m)
    <3>1. PICK n \in Managers : \E i, j \in DOMAIN Line(n)' : i < j /\ Line(n)'[i] = p /\ Line(n)'[j] = r
      BY ViewIsNext
    <3>2. PICK i \in DOMAIN Line(n)', j \in DOMAIN Line(n)' : i < j /\ Line(n)'[i] = p /\ Line(n)'[j] = r
      BY <3>1
    <3>3. n = m /\ j = k /\ i # k
      BY <1>1, <1>5, <3>2
    <3>4. p # r /\ p \in Requests
      BY <1>5, <3>2, <3>3, ViewIsNext
    <3>5. i \in DOMAIN Line(m) /\ Line(m)[i] = p
      BY <1>4, <3>2, <3>3, <3>4
    <3> QED BY <3>4, <3>5, ViewIs
  <2>2. ASSUME NEW p \in Queued(m) PROVE p \in AheadOf(r)'
    <3>1. p \in Requests /\ \E i \in DOMAIN Line(m) : Line(m)[i] = p
      BY ViewIs
    <3>2. PICK i \in DOMAIN Line(m) : Line(m)[i] = p
      BY <3>1
    <3>3. /\ i \in DOMAIN Line(m)' /\ k \in DOMAIN Line(m)' /\ i < k
          /\ Line(m)'[i] = p /\ Line(m)'[k] = r
      BY <1>1, <3>2
    <3> QED BY <3>1, <3>3, ViewIsNext
  <2> QED BY <2>1, <2>2
<1>10. ASSUME NEW q \in Requests \ {r} PROVE AheadOf(q)' = AheadOf(q)
  <2>1. ASSUME NEW p \in AheadOf(q)' PROVE p \in AheadOf(q)
    <3>1. PICK n \in Managers : \E i, j \in DOMAIN Line(n)' : i < j /\ Line(n)'[i] = p /\ Line(n)'[j] = q
      BY ViewIsNext
    <3>2. PICK i \in DOMAIN Line(n)', j \in DOMAIN Line(n)' : i < j /\ Line(n)'[i] = p /\ Line(n)'[j] = q
      BY <3>1
    <3>3. j \in DOMAIN Line(n) /\ Line(n)[j] = q /\ p \in Requests
      BY <1>4, <3>2, ViewIsNext
    <3>4. p # r
      BY <1>5, <1>6, <3>2, <3>3
    <3>5. i \in DOMAIN Line(n) /\ Line(n)[i] = p
      BY <1>4, <3>2, <3>3, <3>4
    <3> QED BY <3>2, <3>3, <3>5, ViewIs
  <2>2. ASSUME NEW p \in AheadOf(q) PROVE p \in AheadOf(q)'
    <3>1. p \in Requests /\ p # r
      BY <1>3, ViewIs
    <3> QED BY <1>4, <3>1, ViewIs, ViewIsNext
  <2> QED BY <2>1, <2>2
<1> QED BY <1>7, <1>8, <1>9, <1>10

\* The head of a line leaves the queue if it is a request, and those behind it
\* lose it; nobody was ahead of it.
LEMMA HeadView ==
  ASSUME TypeOK, LineInv, NEW m \in Managers, HeadLeaves(m), NEW c, c = Head(Line(m))
  PROVE  /\ Queued(m)' = Queued(m) \ {c} /\ \A n \in Managers \ {m} : Queued(n)' = Queued(n)
         /\ \A q \in Requests : AheadOf(q)' = AheadOf(q) \ {c}
         /\ c \in Requests => c \in Queued(m) /\ AheadOf(c) = {}
<1>1. /\ 1 \in DOMAIN Line(m) /\ Line(m)[1] = c
      /\ \A i \in DOMAIN Line(m)' : i + 1 \in DOMAIN Line(m) /\ i + 1 # 1 /\ Line(m)'[i] = Line(m)[i + 1]
      /\ \A i \in DOMAIN Line(m) : i # 1 => i - 1 \in DOMAIN Line(m)' /\ Line(m)'[i - 1] = Line(m)[i]
  BY RestOfLine
<1>2. \A n \in Managers \ {m} : Line(n)' = Line(n)
  BY DEF HeadLeaves, Aside
<1>3. /\ \A i \in DOMAIN Line(m) : i \in Nat /\ i >= 1
      /\ \A i \in DOMAIN Line(m)' : i \in Nat
  BY LineDomain, LineTyped, HeadTailProperties, LenProperties DEF HeadLeaves
<1>4. c \in Requests => \A n \in Managers : \A i \in DOMAIN Line(n)' : Line(n)'[i] # c
  BY HeadGone
<1>5. Queued(m)' = Queued(m) \ {c}
  <2>1. ASSUME NEW q \in Queued(m)' PROVE q \in Queued(m) /\ q # c
    BY <1>1, <1>4, ViewIs, ViewIsNext
  <2>2. ASSUME NEW q \in Queued(m), q # c PROVE q \in Queued(m)'
    BY <1>1, <2>2, ViewIs, ViewIsNext
  <2> QED BY <2>1, <2>2
<1>8. ASSUME NEW n \in Managers \ {m} PROVE Queued(n)' = Queued(n)
  BY <1>2 DEF Queued
<1>6. ASSUME NEW q \in Requests PROVE AheadOf(q)' = AheadOf(q) \ {c}
  <2>1. ASSUME NEW p \in AheadOf(q)' PROVE p \in AheadOf(q) /\ p # c
    <3>1. PICK n \in Managers : \E i, j \in DOMAIN Line(n)' : i < j /\ Line(n)'[i] = p /\ Line(n)'[j] = q
      BY ViewIsNext
    <3>2. PICK i \in DOMAIN Line(n)', j \in DOMAIN Line(n)' : i < j /\ Line(n)'[i] = p /\ Line(n)'[j] = q
      BY <3>1
    <3>3. p \in Requests /\ p # c
      BY <1>4, <3>2, ViewIsNext
    <3>4. CASE n = m
      <4>1. i + 1 \in DOMAIN Line(m) /\ j + 1 \in DOMAIN Line(m) /\ i + 1 < j + 1
        BY <1>1, <1>3, <3>2, <3>4
      <4> QED BY <1>1, <3>2, <3>3, <3>4, <4>1, ViewIs
    <3>5. CASE n # m
      BY <1>2, <3>2, <3>3, <3>5, ViewIs
    <3> QED BY <3>4, <3>5
  <2>2. ASSUME NEW p \in AheadOf(q), p # c PROVE p \in AheadOf(q)'
    <3>1. PICK n \in Managers : \E i, j \in DOMAIN Line(n) : i < j /\ Line(n)[i] = p /\ Line(n)[j] = q
      BY ViewIs
    <3>2. PICK i \in DOMAIN Line(n), j \in DOMAIN Line(n) : i < j /\ Line(n)[i] = p /\ Line(n)[j] = q
      BY <3>1
    <3>3. p \in Requests
      BY ViewIs
    <3>4. CASE n = m
      <4>1. i # 1 /\ j # 1 /\ i - 1 < j - 1
        BY <1>1, <1>3, <2>2, <3>2, <3>4
      <4>2. i - 1 \in DOMAIN Line(m)' /\ j - 1 \in DOMAIN Line(m)' /\ Line(m)'[i - 1] = p /\ Line(m)'[j - 1] = q
        BY <1>1, <3>2, <3>4, <4>1
      <4> QED BY <3>3, <4>1, <4>2, ViewIsNext
    <3>5. CASE n # m
      BY <1>2, <3>2, <3>3, <3>5, ViewIsNext
    <3> QED BY <3>4, <3>5
  <2> QED BY <2>1, <2>2
<1>7. ASSUME c \in Requests PROVE c \in Queued(m) /\ AheadOf(c) = {}
  <2>1. c \in Queued(m)
    BY <1>1, <1>7, ViewIs
  <2>2. ASSUME NEW p \in AheadOf(c) PROVE FALSE
    <3>1. PICK n \in Managers : \E i, j \in DOMAIN Line(n) : i < j /\ Line(n)[i] = p /\ Line(n)[j] = c
      BY ViewIs
    <3>2. PICK i \in DOMAIN Line(n), j \in DOMAIN Line(n) : i < j /\ Line(n)[i] = p /\ Line(n)[j] = c
      BY <3>1
    <3>3. n = m /\ j = 1
      BY <1>1, <1>7, <3>2 DEF LineInv
    <3> QED BY <1>3, <3>2, <3>3
  <2> QED BY <2>1, <2>2
<1> QED BY <1>5, <1>6, <1>7, <1>8

\* A line that is dropped leaves no queue, and nobody ahead in it.
LEMMA FailView ==
  ASSUME TypeOK, LineInv, NEW m \in Managers, Fails(m)
  PROVE  /\ Queued(m)' = {} /\ \A n \in Managers \ {m} : Queued(n)' = Queued(n)
         /\ \A q \in Requests : AheadOf(q)' = IF q \in Queued(m) THEN {} ELSE AheadOf(q)
<1>1. DOMAIN Line(m)' = {} /\ \A n \in Managers \ {m} : Line(n)' = Line(n)
  BY DEF Fails, Aside
<1>2. Queued(m)' = {}
  BY <1>1, ViewIsNext
<1>3. ASSUME NEW n \in Managers \ {m} PROVE Queued(n)' = Queued(n)
  BY <1>1 DEF Queued
<1>4. ASSUME NEW q \in Requests PROVE AheadOf(q)' = IF q \in Queued(m) THEN {} ELSE AheadOf(q)
  <2>1. ASSUME NEW p \in AheadOf(q)' PROVE p \in AheadOf(q) /\ q \notin Queued(m)
    <3>1. PICK n \in Managers : \E i, j \in DOMAIN Line(n)' : i < j /\ Line(n)'[i] = p /\ Line(n)'[j] = q
      BY ViewIsNext
    <3>2. n # m
      BY <1>1, <3>1
    <3>3. p \in Requests /\ \E i, j \in DOMAIN Line(n) : i < j /\ Line(n)[i] = p /\ Line(n)[j] = q
      BY <1>1, <3>1, <3>2, ViewIsNext
    <3>4. \A i \in DOMAIN Line(m) : Line(m)[i] # q
      BY <3>2, <3>3 DEF LineInv
    <3> QED BY <3>3, <3>4, ViewIs
  <2>2. ASSUME NEW p \in AheadOf(q), q \notin Queued(m) PROVE p \in AheadOf(q)'
    <3>1. PICK n \in Managers : \E i, j \in DOMAIN Line(n) : i < j /\ Line(n)[i] = p /\ Line(n)[j] = q
      BY ViewIs
    <3>2. n # m
      BY <2>2, <3>1, ViewIs
    <3>3. p \in Requests /\ \E i, j \in DOMAIN Line(n)' : i < j /\ Line(n)'[i] = p /\ Line(n)'[j] = q
      BY <1>1, <3>1, <3>2, ViewIs
    <3> QED BY <3>3, ViewIsNext
  <2>3. CASE q \in Queued(m)
    BY <2>1, <2>3
  <2>4. CASE q \notin Queued(m)
    BY <2>1, <2>2, <2>4
  <2> QED BY <2>3, <2>4
<1> QED BY <1>2, <1>3, <1>4


\* A worker serves the request of a manager until the request ends.
LEMMA ServingMoves ==
  ASSUME TypeOK, LoopInv, Handling, [Next]_vars
  PROVE  \/ Serving' = Serving
         \/ \E m \in Managers : StartRequest(m)
         \/ \E m \in Managers : Serving' = Serving \ {m} /\ (Ends(m) \/ Fails(m))
<1> USE DEF TypeOK
<1>1. CASE UNCHANGED pc
  BY <1>1 DEF Serving
<1>2. ASSUME NEW m \in Managers, pc[m] # "serve", pc'[m] # "serve", \A n \in Managers \ {m} : pc'[n] = pc[n]
      PROVE  Serving' = Serving
  BY <1>2 DEF Serving
<1>3. ASSUME NEW m \in Managers, TakeShutdown(m) \/ TakeSubmit(m) \/ IdleTimeout(m) PROVE Serving' = Serving
  BY <1>2, <1>3 DEF TakeShutdown, TakeSubmit, IdleTimeout, ClearWorker
<1>4. ASSUME NEW m \in Managers, ClearReturns(m) \/ Acquire(m) \/ Restart(m) \/ (\E p \in Procs : SpawnSucceeds(m, p))
      PROVE  Serving' = Serving
  BY <1>2, <1>4 DEF ClearReturns, Acquire, Restart, SpawnSucceeds
<1>5. ASSUME NEW m \in Managers, SpawnFails(m) \/ WorkerAnswers(m) \/ WorkerGone(m)
      PROVE  Serving' = Serving \ {m} /\ Ends(m)
  <2>1. Ends(m)
    BY <1>5, EndsRequest DEF Handling, SpawnFails, WorkerAnswers, WorkerGone
  <2>2. pc'[m] # "serve" /\ \A n \in Managers \ {m} : pc'[n] = pc[n]
    <3>1. CASE SpawnFails(m) \/ WorkerAnswers(m)
      BY <3>1 DEF SpawnFails, WorkerAnswers
    <3>2. CASE WorkerGone(m)
      BY <3>2 DEF WorkerGone, ClearWorker
    <3> QED BY <1>5, <3>1, <3>2
  <2> QED BY <2>1, <2>2 DEF Serving
<1>6. ASSUME NEW m \in Managers, Panic(m)
      PROVE  Serving' = Serving \ {m} /\ Fails(m)
  <2>1. pc'[m] # "serve" /\ \A n \in Managers \ {m} : pc'[n] = pc[n]
    BY <1>6 DEF Panic
  <2> QED BY <1>6, <2>1, PanicFails DEF Serving
<1>7. ASSUME NEW m \in Managers,
             \/ ClearCloses(m) \/ RefuseSubmit(m) \/ Defer(m) \/ Seal(m) \/ Unseal(m) \/ RequestShutdown(m)
             \/ (\E r \in Requests : Submit(m, r))
      PROVE  Serving' = Serving
  <2>1. UNCHANGED pc
    BY <1>7 DEF ClearCloses, RefuseSubmit, Defer, Seal, Unseal, RequestShutdown, Submit, loopVars
  <2> QED BY <2>1 DEF Serving
<1>8. CASE \/ \E k \in killers : KillerStrikes(k) \/ KillerReaps(k)
           \/ \E p \in Procs : ExitsAfterKnock(p) \/ WorkerDies(p)
           \/ UNCHANGED vars
  BY <1>1, <1>8 DEF KillerStrikes, KillerReaps, ExitsAfterKnock, WorkerDies, loopVars, vars
<1> QED BY <1>3, <1>4, <1>5, <1>6, <1>7, <1>8 DEF Next, LoopStep

\* A request reaches a worker only under a permit its manager holds.
LEMMA ServesWithinPermits ==
  ASSUME TypeOK, LoopInv, Handling, ResidencyBound, NEW m \in Managers, StartRequest(m)
  PROVE  /\ cur[m] # None /\ m \notin Serving /\ Serving' = Serving \cup {m}
         /\ Cardinality(Serving) < Residents
         /\ LinesStay /\ UNCHANGED <<cur, answer>>
<1>1. cur[m] # None /\ m \notin Serving /\ Serving' = Serving \cup {m}
  BY DEF Serving, StartRequest, Handling, TypeOK
<1>2. Serving \subseteq permits /\ m \in permits
  BY DEF Serving, LoopInv, LoopShape, PermitFollowsWorker, StartRequest
<1>3. Serving \cup {m} \subseteq permits
  BY <1>2
<1>4. IsFiniteSet(Serving) /\ Cardinality(Serving \cup {m}) <= Cardinality(permits)
  BY <1>2, <1>3, FS_Subset DEF ResidencyBound
<1>5. /\ Cardinality(Serving \cup {m}) = Cardinality(Serving) + 1
      /\ Cardinality(Serving) \in Nat /\ Cardinality(permits) \in Nat
  BY <1>1, <1>4, FS_AddElement, FS_CardinalityType DEF ResidencyBound
<1>6. Cardinality(Serving) < Residents
  BY <1>4, <1>5, ConstantsAssumption DEF ResidencyBound
<1> QED BY <1>1, <1>6, OtherStepsStay

\* The queues and those ahead, manager by manager and request by request.
LEMMA ServiceView ==
  /\ Queue = [m \in Managers |-> Queued(m)] /\ Queue' = [m \in Managers |-> Queued(m)']
  /\ Ahead = [r \in Requests |-> AheadOf(r)] /\ Ahead' = [r \in Requests |-> AheadOf(r)']
  BY DEF Queue, Ahead, Queued, AheadOf

\* RequestService counts as the managers do.
LEMMA SameCardinality == Service!Cardinality(Serving) = Cardinality(Serving)
  BY Zenon DEF Service!Cardinality, Cardinality, Service!IsFiniteSet, IsFiniteSet

\* Every step of the managers is one of RequestService, or nothing its callers
\* could see.
LEMMA NextServes ==
  ASSUME TypeOK, LoopInv, Handling, LineInv, ResidencyBound, Handling', [Next]_vars
  PROVE  [Service!Next]_(Service!vars)
<1> USE DEF TypeOK
<1>1. ASSUME ViewStays, UNCHANGED <<cur, answer>>, Serving' = Serving
      PROVE  UNCHANGED Service!vars
  <2>1. Queue' = Queue /\ Ahead' = Ahead
    BY <1>1, ServiceView DEF ViewStays
  <2> QED BY <1>1, <2>1 DEF Service!vars
<1>2. ASSUME NEW r \in Requests, Declines(r), Serving' = Serving
      PROVE  Service!Decline(r)
  <2>1. Queue' = Queue /\ Ahead' = Ahead
    BY <1>2, StayView, ServiceView DEF Declines, ViewStays
  <2> QED BY <1>2, <2>1 DEF Service!Decline, Declines
<1>3. ASSUME NEW m \in Managers, NEW r \in Requests, Accepts(m, r), Serving' = Serving
      PROVE  Service!Accept(m, r)
  <2>1. Queue' = [Queue EXCEPT ![m] = @ \cup {r}]
    BY <1>3, AcceptView, ServiceView
  <2>2. Ahead' = [Ahead EXCEPT ![r] = Queue[m]]
    BY <1>3, AcceptView, ServiceView
  <2> QED BY <1>3, <2>1, <2>2 DEF Service!Accept, Accepts
<1>4. ASSUME NEW m \in Managers, NEW r \in Requests, HeadLeaves(m), r = Head(Line(m))
      PROVE  Service!Leave(m, r)
  <2>0. /\ Queued(m)' = Queued(m) \ {r} /\ \A n \in Managers \ {m} : Queued(n)' = Queued(n)
        /\ \A q \in Requests : AheadOf(q)' = AheadOf(q) \ {r}
        /\ r \in Queued(m) /\ AheadOf(r) = {}
    BY <1>4, HeadView
  <2>1. Queue' = [Queue EXCEPT ![m] = @ \ {r}]
    BY <2>0, ServiceView
  <2>2. Ahead' = [q \in Requests |-> Ahead[q] \ {r}]
    BY <2>0, ServiceView
  <2>3. r \in Queue[m] /\ Ahead[r] = {}
    BY <2>0, ServiceView
  <2> QED BY <2>1, <2>2, <2>3 DEF Service!Leave
<1>5. ASSUME NEW m \in Managers, Fails(m), Serving' = Serving \ {m}
      PROVE  Service!Fail(m)
  <2>1. Queue' = [Queue EXCEPT ![m] = {}]
    BY <1>5, FailView, ServiceView
  <2>2. Ahead' = [r \in Requests |-> IF r \in Queue[m] THEN {} ELSE Ahead[r]]
    BY <1>5, FailView, ServiceView
  <2>3. answer' = [r \in Requests |-> IF r = cur[m] \/ r \in Queue[m] THEN "gone" ELSE answer[r]]
    BY <1>5, ServiceView DEF Fails, Queued
  <2> QED BY <1>5, <2>1, <2>2, <2>3 DEF Service!Fail, Fails
<1>6. ASSUME NEW m \in Managers, Ends(m), Serving' = Serving \ {m}
      PROVE  Service!Finish(m)
  <2>1. Queue' = Queue /\ Ahead' = Ahead
    BY <1>6, StayView, ServiceView DEF Ends, ViewStays
  <2>2. pc[m] = "serve" <=> m \in Serving
    BY DEF Serving
  <2> QED BY <1>6, <2>1, <2>2 DEF Service!Finish, Ends
<1>7. ASSUME NEW m \in Managers, StartRequest(m) PROVE Service!Serve(m)
  <2>1. Queue' = Queue /\ Ahead' = Ahead
    BY <1>7, ServesWithinPermits, StayView, ServiceView DEF ViewStays
  <2>2. /\ cur[m] # None /\ m \notin Serving /\ Serving' = Serving \cup {m}
        /\ Cardinality(Serving) < Residents /\ UNCHANGED <<cur, answer>>
    BY <1>7, ServesWithinPermits
  <2> QED BY <2>1, <2>2, SameCardinality DEF Service!Serve
<1>8. CASE Serving' = Serving
  <2>1. CASE LinesStay /\ UNCHANGED <<cur, answer>>
    BY <1>1, <1>8, <2>1, StayView
  <2>2. CASE \E r \in Requests : Declines(r)
    BY <1>2, <1>8, <2>2 DEF Service!Next
  <2>3. ASSUME NEW m \in Managers, Posts(m) PROVE UNCHANGED Service!vars
    BY <1>1, <1>8, <2>3, PostView DEF Posts
  <2>4. ASSUME NEW m \in Managers, Skips(m) PROVE UNCHANGED Service!vars
    <3>1. HeadLeaves(m) /\ Head(Line(m)) \notin Requests
      BY <2>4, ConstantsAssumption DEF Skips
    <3>2. \A n \in Managers : Head(Line(m)) \notin Queued(n)
      BY <3>1, ViewIs
    <3>3. \A q \in Requests : Head(Line(m)) \notin AheadOf(q)
      BY <3>1, ViewIs
    <3>4. /\ Queued(m)' = Queued(m) \ {Head(Line(m))}
          /\ \A n \in Managers \ {m} : Queued(n)' = Queued(n)
          /\ \A q \in Requests : AheadOf(q)' = AheadOf(q) \ {Head(Line(m))}
      BY <3>1, HeadView
    <3>5. ViewStays
      <4>1. Queued(m)' = Queued(m)
        BY <3>2, <3>4
      <4>2. ASSUME NEW q \in Requests PROVE AheadOf(q)' = AheadOf(q)
        <5>1. AheadOf(q)' = AheadOf(q) \ {Head(Line(m))} /\ Head(Line(m)) \notin AheadOf(q)
          BY <3>3, <3>4
        <5> QED BY ONLY <5>1
      <4> QED BY <3>4, <4>1, <4>2 DEF ViewStays
    <3>6. UNCHANGED <<cur, answer>>
      BY <2>4 DEF Skips
    <3> QED BY ONLY <1>1, <1>8, <3>5, <3>6
  <2>5. ASSUME NEW m \in Managers, Ends(m) \/ Fails(m) PROVE Service!Finish(m) \/ Service!Fail(m)
    <3>1. cur'[m] = None
      BY <2>5 DEF Ends, Fails
    <3>2. Serving' = Serving \ {m}
      BY <1>8, <3>1 DEF Handling, Serving
    <3> QED BY <1>5, <1>6, <2>5, <3>2
  <2>6. ASSUME NEW m \in Managers, NEW r \in Requests, Accepts(m, r) PROVE Service!Accept(m, r)
    BY <1>3, <1>8, <2>6
  <2>7. ASSUME NEW m \in Managers, NEW r \in Requests, Begins(m, r) PROVE Service!Begin(m, r)
    BY <1>4, <1>8, <2>7 DEF Begins, Service!Begin
  <2>8. ASSUME NEW m \in Managers, NEW r \in Requests, Refuses(m, r) PROVE Service!Refuse(m, r)
    BY <1>4, <1>8, <2>8 DEF Refuses, Service!Refuse
  <2> QED BY <2>1, <2>2, <2>3, <2>4, <2>5, <2>6, <2>7, <2>8, NextLineStep DEF LineStep, Service!Next
<1> QED BY <1>5, <1>6, <1>7, <1>8, ServingMoves DEF Service!Next

\* The managers of a kind keep the promise of RequestService: requests are
\* handled once and in the order of their manager, at most Residents are served
\* at a time, and a caller is told done only by a worker that served it
\* (WorkerRuntime::run).
THEOREM KeepsTheService == Spec => ServiceSpec
<1>1. Init => Service!Init
  <2> SUFFICES ASSUME Init PROVE Service!Init
    OBVIOUS
  <2>1. \A m \in Managers : Line(m) = <<>>
    BY ConcatEmptySeq, EmptySeq DEF Init, Line
  <2>2. \A m \in Managers : DOMAIN Line(m) = {}
    BY <2>1
  <2>3. (\A m \in Managers : Queued(m) = {}) /\ \A r \in Requests : AheadOf(r) = {}
    BY <2>2, ViewIs
  <2> QED BY <2>3, ServiceView DEF Init, Service!Init, Serving
<1>2. TypeOK /\ LoopInv /\ Handling /\ LineInv /\ ResidencyBound /\ [Next]_vars => [Service!Next]_(Service!vars)
  BY NextServes, NextKeepsHandling
<1> QED BY <1>1, <1>2, LinesInvariant, ResidencyBounded, PTL DEF Spec, ServiceSpec, Service!Spec
=============================================================================
