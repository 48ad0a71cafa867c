---------------------------- MODULE WorkerManager ----------------------------
(***************************************************************************)
(* The supervision of model worker processes of one kind                   *)
(* (crates/core/src/worker): every workspace owns a manager of the kind;   *)
(* its handle (WorkerManager) is used from any thread, its loop            *)
(* (WorkerRuntime) serves one command at a time, and all the managers of   *)
(* the kind share one residency semaphore.                                 *)
(*                                                                         *)
(* A worker process is an element of Procs, used at most once: |Procs|     *)
(* bounds the spawns that can succeed in a behaviour.                      *)
(***************************************************************************)
EXTENDS Naturals, Sequences, FiniteSets, Functions

CONSTANTS
  Managers,      \* the managers of this kind, one per open workspace
  Requests,      \* the requests callers submit, each at most once
  Sidecar,       \* the requests the Python sidecar serves; the worker binary serves the others
  Procs,         \* the worker processes that can be born
  None,          \* Option::None, and pid 0
  Shutdown,      \* ManagerCommand::ShutdownWorker
  ChannelCap,    \* the capacity of the command channel (32 in the code)
  Residents,     \* RESIDENT_WORKERS_PER_KIND (1 in the code)
  MaxFaults      \* bound: the stops, seals and loop panics of a behaviour together

ASSUME ConstantsAssumption ==
  /\ None \notin Managers \cup Requests \cup Procs
  /\ Shutdown \notin Requests
  /\ Sidecar \subseteq Requests
  /\ ChannelCap \in Nat \ {0}
  /\ Residents \in Nat \ {0}
  /\ MaxFaults \in Nat

VARIABLES
  \* the manager's handle
  sealed,     \* starts are sealed by a cancel in force
  slot,       \* active_process: the session a stop may take
  pid,        \* active_pid: what live_pid reports
  chan,       \* the command channel
  \* the manager's loop
  pc,         \* where the loop is
  deferred,   \* commands taken off the channel during a request
  cur,        \* the request being handled
  local,      \* the loop's own active_process
  closing,    \* the process whose RoofKnock the loop awaits
  \* shared
  permits,    \* the managers whose loop holds a residency permit
  proc,       \* each worker process: unborn, up, eof (stdin closed) or gone
  sidecar,    \* the processes that are Python sidecars
  killers,    \* the detached shutdown tasks that stop() spawned
  answer,     \* what each caller has been told
  stops,      \* calls of stop() so far
  panics,     \* loop panics so far
  bornSealed  \* history: workers born since the seal in force was raised

handleVars == <<sealed, slot, pid, chan>>
loopVars   == <<pc, deferred, cur, local, closing>>
sharedVars == <<permits, proc, sidecar, killers, answer, stops, panics, bornSealed>>
vars == <<sealed, slot, pid, chan, pc, deferred, cur, local, closing,
          permits, proc, sidecar, killers, answer, stops, panics, bornSealed>>

Commands == Requests \cup {Shutdown}
Stops    == {"Now", "RoofKnock"}
Killers  == [proc : Procs, by : Managers, stop : Stops]
Answered == {"done", "gone", "error"}

Alive(p) == proc[p] \in {"up", "eof"}

TypeOK ==
  /\ sealed \in [Managers -> BOOLEAN]
  /\ slot \in [Managers -> Procs \cup {None}]
  /\ pid \in [Managers -> Procs \cup {None}]
  /\ chan \in [Managers -> Seq(Commands)]
  /\ pc \in [Managers -> {"next", "clear", "permit", "spawn", "write", "serve", "panicked"}]
  /\ deferred \in [Managers -> Seq(Commands)]
  /\ cur \in [Managers -> Requests \cup {None}]
  /\ local \in [Managers -> Procs \cup {None}]
  /\ closing \in [Managers -> Procs \cup {None}]
  /\ permits \in SUBSET Managers
  /\ proc \in [Procs -> {"unborn", "up", "eof", "gone"}]
  /\ sidecar \in SUBSET Procs
  /\ killers \in SUBSET Killers
  /\ answer \in [Requests -> {"unsent", "waiting"} \cup Answered]
  /\ stops \in Nat
  /\ panics \in Nat
  /\ bornSealed \in [Managers -> Nat]

Init ==
  /\ sealed = [m \in Managers |-> FALSE]
  /\ slot = [m \in Managers |-> None]
  /\ pid = [m \in Managers |-> None]
  /\ chan = [m \in Managers |-> <<>>]
  /\ pc = [m \in Managers |-> "next"]
  /\ deferred = [m \in Managers |-> <<>>]
  /\ cur = [m \in Managers |-> None]
  /\ local = [m \in Managers |-> None]
  /\ closing = [m \in Managers |-> None]
  /\ permits = {}
  /\ proc = [p \in Procs |-> "unborn"]
  /\ sidecar = {}
  /\ killers = {}
  /\ answer = [r \in Requests |-> "unsent"]
  /\ stops = 0
  /\ panics = 0
  /\ bornSealed = [m \in Managers |-> 0]

-----------------------------------------------------------------------------
(* The manager's handle: synchronous functions any thread may call.        *)

\* A caller's send().await: it waits for room in the channel, and fails when
\* the loop that would have received it has panicked.
Submit(m, r) ==
  /\ answer[r] = "unsent"
  /\ IF pc[m] = "panicked"
       THEN /\ answer' = [answer EXCEPT ![r] = "gone"]
            /\ UNCHANGED chan
       ELSE /\ Len(chan[m]) < ChannelCap
            /\ chan' = [chan EXCEPT ![m] = Append(@, r)]
            /\ answer' = [answer EXCEPT ![r] = "waiting"]
  /\ UNCHANGED <<sealed, slot, pid, loopVars, permits, proc, sidecar, killers, stops, panics, bornSealed>>

\* Mutated: the session is cloned out of the slot instead of taken.
Stop_Clones(m, stop) ==
  /\ stops + panics < MaxFaults
  /\ stops' = stops + 1
  /\ killers' = IF slot[m] = None THEN killers
                ELSE killers \cup {[proc |-> slot[m], by |-> m, stop |-> stop]}
  /\ chan' = IF pc[m] = "panicked" \/ Len(chan[m]) >= ChannelCap THEN chan
             ELSE [chan EXCEPT ![m] = Append(@, Shutdown)]
  /\ UNCHANGED slot

\* Mutated: the session is taken and the shutdown is left to the command.
Stop_OnlyPosts(m, stop) ==
  /\ stops + panics < MaxFaults
  /\ stops' = stops + 1
  /\ slot' = [slot EXCEPT ![m] = None]
  /\ chan' = IF pc[m] = "panicked" \/ Len(chan[m]) >= ChannelCap THEN chan
             ELSE [chan EXCEPT ![m] = Append(@, Shutdown)]
  /\ UNCHANGED killers

\* stop(): take the session out of the slot, hand it to a detached shutdown,
\* and post ShutdownWorker, which a full or closed channel drops.
Stop(m, stop) ==
  /\ stops + panics < MaxFaults
  /\ stops' = stops + 1
  /\ slot' = [slot EXCEPT ![m] = None]
  /\ killers' = IF slot[m] = None THEN killers
                ELSE killers \cup {[proc |-> slot[m], by |-> m, stop |-> stop]}
  /\ chan' = IF pc[m] = "panicked" \/ Len(chan[m]) >= ChannelCap THEN chan
             ELSE [chan EXCEPT ![m] = Append(@, Shutdown)]

\* The user's cancel, and its audit re-sealing a manager with a live pid.
Seal(m) ==
  /\ sealed' = [sealed EXCEPT ![m] = TRUE]
  /\ Stop(m, "Now")
  /\ UNCHANGED <<pid, loopVars, permits, proc, sidecar, answer, panics, bornSealed>>

Unseal(m) ==
  /\ sealed[m]
  /\ sealed' = [sealed EXCEPT ![m] = FALSE]
  /\ bornSealed' = [bornSealed EXCEPT ![m] = 0]
  /\ UNCHANGED <<slot, pid, chan, loopVars, permits, proc, sidecar, killers, answer, stops, panics>>

RequestShutdown(m) ==
  /\ Stop(m, "RoofKnock")
  /\ UNCHANGED <<sealed, pid, loopVars, permits, proc, sidecar, answer, panics, bornSealed>>

-----------------------------------------------------------------------------
(* The detached shutdown tasks, and the worker processes themselves.       *)

\* Stop::Now kills and reaps; Stop::RoofKnock closes the worker's stdin.
KillerStrikes(k) ==
  /\ k \in killers
  /\ \/ /\ k.stop = "Now"
        /\ Alive(k.proc)
        /\ proc' = [proc EXCEPT ![k.proc] = "gone"]
     \/ /\ k.stop = "RoofKnock"
        /\ proc[k.proc] = "up"
        /\ proc' = [proc EXCEPT ![k.proc] = "eof"]
  /\ UNCHANGED <<handleVars, loopVars, permits, sidecar, killers, answer, stops, panics, bornSealed>>

\* The shutdown returns: whatever pid the manager holds by now is zeroed.
KillerReaps(k) ==
  /\ k \in killers
  /\ proc[k.proc] = "gone"
  /\ pid' = [pid EXCEPT ![k.by] = None]
  /\ killers' = killers \ {k}
  /\ UNCHANGED <<sealed, slot, chan, loopVars, permits, proc, sidecar, answer, stops, panics, bornSealed>>

\* A worker whose stdin is closed exits, or its grace runs out and it is killed.
ExitsAfterKnock(p) ==
  /\ proc[p] = "eof"
  /\ proc' = [proc EXCEPT ![p] = "gone"]
  /\ UNCHANGED <<handleVars, loopVars, permits, sidecar, killers, answer, stops, panics, bornSealed>>

\* A worker dies on its own: a crash, or the system reclaiming its memory.
WorkerDies(p) ==
  /\ proc[p] = "up"
  /\ proc' = [proc EXCEPT ![p] = "gone"]
  /\ UNCHANGED <<handleVars, loopVars, permits, sidecar, killers, answer, stops, panics, bornSealed>>

-----------------------------------------------------------------------------
(* The manager's loop.                                                     *)

HasCommand(m) == deferred[m] # <<>> \/ chan[m] # <<>>

\* next_command: deferred commands first, in arrival order.
Command(m) == IF deferred[m] # <<>> THEN Head(deferred[m]) ELSE Head(chan[m])

PopCommand(m) ==
  IF deferred[m] # <<>>
    THEN deferred' = [deferred EXCEPT ![m] = Tail(@)] /\ UNCHANGED chan
    ELSE chan' = [chan EXCEPT ![m] = Tail(@)] /\ UNCHANGED deferred

\* Mutated: the permit is released before the shutdown is awaited.
ClearWorker_ReleasesFirst(m, continue) ==
  /\ local' = [local EXCEPT ![m] = None]
  /\ slot' = [slot EXCEPT ![m] = None]
  /\ permits' = permits \ {m}
  /\ IF slot[m] # None
       THEN /\ closing' = [closing EXCEPT ![m] = local[m]]
            /\ pc' = [pc EXCEPT ![m] = "clear"]
       ELSE /\ pc' = [pc EXCEPT ![m] = continue]
            /\ UNCHANGED closing

\* clear_active_worker up to its await: a session a stop has already taken
\* from the slot is not waited for, and the permit goes at once.
ClearWorker(m, continue) ==
  /\ local' = [local EXCEPT ![m] = None]
  /\ slot' = [slot EXCEPT ![m] = None]
  /\ IF slot[m] # None
       THEN /\ closing' = [closing EXCEPT ![m] = local[m]]
            /\ pc' = [pc EXCEPT ![m] = "clear"]
            /\ UNCHANGED permits
       ELSE /\ pc' = [pc EXCEPT ![m] = continue]
            /\ permits' = permits \ {m}
            /\ UNCHANGED closing

\* The RoofKnock the loop awaits: it closes stdin ...
ClearCloses(m) ==
  /\ pc[m] = "clear"
  /\ proc[closing[m]] = "up"
  /\ proc' = [proc EXCEPT ![closing[m]] = "eof"]
  /\ UNCHANGED <<handleVars, loopVars, permits, sidecar, killers, answer, stops, panics, bornSealed>>

\* ... and returns once the worker is reaped; the permit goes after it. The
\* loop goes on to start a worker when it was clearing to serve a request.
ClearReturns(m) ==
  /\ pc[m] = "clear"
  /\ proc[closing[m]] = "gone"
  /\ pid' = [pid EXCEPT ![m] = None]
  /\ permits' = permits \ {m}
  /\ closing' = [closing EXCEPT ![m] = None]
  /\ pc' = [pc EXCEPT ![m] = IF cur[m] = None THEN "next" ELSE "permit"]
  /\ UNCHANGED <<sealed, slot, chan, deferred, cur, local, proc, sidecar, killers, answer, stops, panics, bornSealed>>

\* ShutdownWorker, handled between requests.
TakeShutdown(m) ==
  /\ pc[m] = "next"
  /\ HasCommand(m)
  /\ Command(m) = Shutdown
  /\ PopCommand(m)
  /\ IF local[m] = None
       THEN UNCHANGED <<local, slot, closing, pc, permits>>
       ELSE ClearWorker(m, "next")
  /\ UNCHANGED <<sealed, pid, cur, proc, sidecar, killers, answer, stops, panics, bornSealed>>

\* The seal is in force, or the request does not serialize: answered unserved.
RefuseSubmit(m) ==
  /\ pc[m] = "next"
  /\ HasCommand(m)
  /\ Command(m) \in Requests
  /\ PopCommand(m)
  /\ answer' = [answer EXCEPT ![Command(m)] = IF sealed[m] THEN "gone" ELSE "error"]
  /\ UNCHANGED <<sealed, slot, pid, pc, cur, local, closing, permits, proc, sidecar, killers, stops, panics, bornSealed>>

\* should_restart_worker: there is none, or it is the other kind of process.
NeedsRestart(m, r) ==
  \/ local[m] = None
  \/ (r \in Sidecar) # (local[m] \in sidecar)

\* Mutated: the seal is not read.
TakeSubmit_Unsealed(m) ==
  /\ pc[m] = "next"
  /\ HasCommand(m)
  /\ Command(m) \in Requests
  /\ PopCommand(m)
  /\ cur' = [cur EXCEPT ![m] = Command(m)]
  /\ IF NeedsRestart(m, Command(m))
       THEN IF local[m] # None
              THEN ClearWorker(m, "permit")
              ELSE /\ pc' = [pc EXCEPT ![m] = "permit"]
                   /\ UNCHANGED <<local, slot, closing, permits>>
       ELSE /\ pc' = [pc EXCEPT ![m] = "write"]
            /\ UNCHANGED <<local, slot, closing, permits>>
  /\ UNCHANGED <<sealed, pid, proc, sidecar, killers, answer, stops, panics, bornSealed>>

\* handle_submit past the seal, up to the first await of ensure_worker.
TakeSubmit(m) ==
  /\ pc[m] = "next"
  /\ HasCommand(m)
  /\ Command(m) \in Requests
  /\ ~sealed[m]
  /\ PopCommand(m)
  /\ cur' = [cur EXCEPT ![m] = Command(m)]
  /\ IF NeedsRestart(m, Command(m))
       THEN IF local[m] # None
              THEN ClearWorker(m, "permit")
              ELSE /\ pc' = [pc EXCEPT ![m] = "permit"]
                   /\ UNCHANGED <<local, slot, closing, permits>>
       ELSE /\ pc' = [pc EXCEPT ![m] = "write"]
            /\ UNCHANGED <<local, slot, closing, permits>>
  /\ UNCHANGED <<sealed, pid, proc, sidecar, killers, answer, stops, panics, bornSealed>>

\* The residency semaphore admits this manager.
Acquire(m) ==
  /\ pc[m] = "permit"
  /\ Cardinality(permits) < Residents
  /\ permits' = permits \cup {m}
  /\ pc' = [pc EXCEPT ![m] = "spawn"]
  /\ UNCHANGED <<handleVars, deferred, cur, local, closing, proc, sidecar, killers, answer, stops, panics, bornSealed>>

\* A worker is born. A session a panicked loop left in the slot is replaced,
\* and dropping the last reference to it kills it (kill_on_drop).
SpawnSucceeds(m, p) ==
  /\ pc[m] = "spawn"
  /\ proc[p] = "unborn"
  /\ proc' = [q \in Procs |-> IF q = p THEN "up" ELSE IF q = slot[m] THEN "gone" ELSE proc[q]]
  /\ sidecar' = IF cur[m] \in Sidecar THEN sidecar \cup {p} ELSE sidecar
  /\ pid' = [pid EXCEPT ![m] = p]
  /\ local' = [local EXCEPT ![m] = p]
  /\ slot' = [slot EXCEPT ![m] = p]
  /\ pc' = [pc EXCEPT ![m] = "write"]
  /\ bornSealed' = IF sealed[m] THEN [bornSealed EXCEPT ![m] = @ + 1] ELSE bornSealed
  /\ UNCHANGED <<sealed, chan, deferred, cur, closing, permits, killers, answer, stops, panics>>

\* Mutated: a failed start keeps the permit.
SpawnFails_KeepsPermit(m) ==
  /\ pc[m] = "spawn"
  /\ answer' = [answer EXCEPT ![cur[m]] = "error"]
  /\ cur' = [cur EXCEPT ![m] = None]
  /\ pc' = [pc EXCEPT ![m] = "next"]
  /\ UNCHANGED <<handleVars, deferred, local, closing, permits, proc, sidecar, killers, stops, panics, bornSealed>>

SpawnFails(m) ==
  /\ pc[m] = "spawn"
  /\ permits' = permits \ {m}
  /\ answer' = [answer EXCEPT ![cur[m]] = "error"]
  /\ cur' = [cur EXCEPT ![m] = None]
  /\ pc' = [pc EXCEPT ![m] = "next"]
  /\ UNCHANGED <<handleVars, deferred, local, closing, proc, sidecar, killers, stops, panics, bornSealed>>

\* The request line reaches the worker's stdin.
StartRequest(m) ==
  /\ pc[m] = "write"
  /\ proc[local[m]] = "up"
  /\ pc' = [pc EXCEPT ![m] = "serve"]
  /\ UNCHANGED <<handleVars, deferred, cur, local, closing, sharedVars>>

\* Mutated: the commands that arrive during a request are dropped.
Defer_Drops(m) ==
  /\ pc[m] = "serve"
  /\ chan[m] # <<>>
  /\ chan' = [chan EXCEPT ![m] = Tail(@)]
  /\ UNCHANGED <<sealed, slot, pid, pc, deferred, cur, local, closing, sharedVars>>

\* Mutated: the newest command is replayed first.
Defer_NewestFirst(m) ==
  /\ pc[m] = "serve"
  /\ chan[m] # <<>>
  /\ deferred' = [deferred EXCEPT ![m] = <<Head(chan[m])>> \o @]
  /\ chan' = [chan EXCEPT ![m] = Tail(@)]
  /\ UNCHANGED <<sealed, slot, pid, pc, cur, local, closing, sharedVars>>

\* While the request is in flight every other command is held back.
Defer(m) ==
  /\ pc[m] = "serve"
  /\ chan[m] # <<>>
  /\ deferred' = [deferred EXCEPT ![m] = Append(@, Head(chan[m]))]
  /\ chan' = [chan EXCEPT ![m] = Tail(@)]
  /\ UNCHANGED <<sealed, slot, pid, pc, cur, local, closing, sharedVars>>

\* The worker's terminal event: an answer, or an error it reported.
WorkerAnswers(m) ==
  /\ pc[m] = "serve"
  /\ Alive(local[m])
  /\ \E a \in {"done", "error"} : answer' = [answer EXCEPT ![cur[m]] = a]
  /\ cur' = [cur EXCEPT ![m] = None]
  /\ pc' = [pc EXCEPT ![m] = "next"]
  /\ UNCHANGED <<handleVars, deferred, local, closing, permits, proc, sidecar, killers, stops, panics, bornSealed>>

\* The write failed or stdout ended: the caller is told Gone, and the worker
\* is cleared.
WorkerGone(m) ==
  /\ \/ pc[m] = "write" /\ proc[local[m]] # "up"
     \/ pc[m] = "serve" /\ ~Alive(local[m])
  /\ answer' = [answer EXCEPT ![cur[m]] = "gone"]
  /\ cur' = [cur EXCEPT ![m] = None]
  /\ ClearWorker(m, "next")
  /\ UNCHANGED <<sealed, pid, chan, deferred, proc, sidecar, killers, stops, panics, bornSealed>>

\* Mutated: an idle worker is kept for the next request.
IdleTimeout_Never(m) ==
  /\ pc[m] = "next"
  /\ ~HasCommand(m)
  /\ local[m] = None
  /\ UNCHANGED vars

\* Nothing arrived for idle_timeout.
IdleTimeout(m) ==
  /\ pc[m] = "next"
  /\ ~HasCommand(m)
  /\ local[m] # None
  /\ ClearWorker(m, "next")
  /\ UNCHANGED <<sealed, pid, chan, deferred, cur, proc, sidecar, killers, answer, stops, panics, bornSealed>>

-----------------------------------------------------------------------------
(* A panic of the loop's task, and the supervisor that restarts it.        *)

\* Dropping the loop drops its permit, its commands with their reply channels,
\* and a session it had taken from the slot to shut down, which kills it. A
\* session still in the slot lives on.
Panic(m) ==
  /\ pc[m] # "panicked"
  /\ stops + panics < MaxFaults
  /\ panics' = panics + 1
  /\ answer' = [r \in Requests |->
                  IF r \in {cur[m]} \cup Range(chan[m]) \cup Range(deferred[m])
                    THEN "gone" ELSE answer[r]]
  /\ proc' = [p \in Procs |-> IF p = closing[m] THEN "gone" ELSE proc[p]]
  /\ chan' = [chan EXCEPT ![m] = <<>>]
  /\ deferred' = [deferred EXCEPT ![m] = <<>>]
  /\ cur' = [cur EXCEPT ![m] = None]
  /\ local' = [local EXCEPT ![m] = None]
  /\ closing' = [closing EXCEPT ![m] = None]
  /\ permits' = permits \ {m}
  /\ pc' = [pc EXCEPT ![m] = "panicked"]
  /\ UNCHANGED <<sealed, slot, pid, sidecar, killers, stops, bornSealed>>

\* Mutated: the supervisor ends with its first loop.
Restart_Breaks(m) ==
  /\ pc[m] = "panicked"
  /\ pc' = [pc EXCEPT ![m] = "closed"]
  /\ UNCHANGED <<handleVars, deferred, cur, local, closing, sharedVars>>

\* restart_runtime_after_panic: a fresh channel and a fresh loop.
Restart(m) ==
  /\ pc[m] = "panicked"
  /\ pid' = [pid EXCEPT ![m] = None]
  /\ pc' = [pc EXCEPT ![m] = "next"]
  /\ UNCHANGED <<sealed, slot, chan, deferred, cur, local, closing, sharedVars>>

-----------------------------------------------------------------------------
LoopStep(m) ==
  \/ ClearCloses(m) \/ ClearReturns(m)
  \/ TakeShutdown(m) \/ RefuseSubmit(m) \/ TakeSubmit(m)
  \/ SpawnFails(m) \/ (\E p \in Procs : SpawnSucceeds(m, p))
  \/ StartRequest(m) \/ WorkerAnswers(m) \/ WorkerGone(m)
  \/ IdleTimeout(m) \/ Restart(m)

Next ==
  \/ \E m \in Managers, r \in Requests : Submit(m, r)
  \/ \E m \in Managers : Seal(m) \/ Unseal(m) \/ RequestShutdown(m)
  \/ \E k \in killers : KillerStrikes(k) \/ KillerReaps(k)
  \/ \E p \in Procs : ExitsAfterKnock(p) \/ WorkerDies(p)
  \/ \E m \in Managers : LoopStep(m) \/ Acquire(m) \/ Defer(m) \/ Panic(m)

Spec == Init /\ [][Next]_vars

\* Fairness. The loop and the shutdown tasks are scheduled (tokio); a stopped
\* worker exits within its grace or is killed; a served request ends (the
\* worker answers or dies). Tokio's semaphore admits waiters in the order they
\* asked, so a manager that waits is admitted if permits keep being released.
Fairness ==
  /\ \A m \in Managers : WF_vars(LoopStep(m)) /\ SF_vars(Acquire(m))
  /\ \A p \in Procs : WF_vars(ExitsAfterKnock(p))
  /\ \A k \in Killers : WF_vars(KillerStrikes(k)) /\ WF_vars(KillerReaps(k))

FairSpec == Spec /\ Fairness

-----------------------------------------------------------------------------
(* What holds.                                                             *)

\* A loop holds a permit exactly while it starts, serves or stops a worker:
\* every path that ends a worker admits the next manager, none admits it while
\* the loop itself still has one (WorkerRuntime::residency).
PermitFollowsWorker ==
  \A m \in Managers :
    m \in permits <=> local[m] # None \/ pc[m] \in {"spawn", "clear"}

\* The processes a loop of m accounts for, and those m's slot still names.
HeldBy(m)   == {local[m], closing[m], slot[m]} \ {None}
\* The processes handed to a detached shutdown.
BeingKilled == {k.proc : k \in killers}

\* No worker leaks: each living process is one its manager uses, is stopping or
\* can still stop, or one a detached shutdown is about to end.
NoLeakedWorker ==
  \A p \in Procs : Alive(p) => p \in BeingKilled \cup UNION {HeldBy(m) : m \in Managers}

\* What the slot of a loop without a worker still names.
Orphans == {slot[m] : m \in {n \in Managers : local[n] = None}}

\* The workers that live at once are bounded over all the managers, but for those
\* a detached shutdown is ending and what a panicked loop left behind (drop of
\* the permit, stop and the restarted loop's start).
ResidentWorkers ==
  /\ Cardinality({p \in Procs : Alive(p)} \ (BeingKilled \cup Orphans)) <= Residents
  /\ panics = 0 => Orphans \subseteq {None}

\* A process is shut down once: a stop and the loop's own clearing never both
\* take the session, nor do two stops (active_process.take()).
OneShutdownEach ==
  /\ \A j, k \in killers : j.proc = k.proc => j = k
  /\ \A k \in killers : \A m \in Managers : k.proc \notin {slot[m], closing[m]}
  /\ \A m, n \in Managers : m # n => HeldBy(m) \cap HeldBy(n) = {}

\* The places of manager m where request r is held.
Places(m, r) ==
     {<<"chan", i>> : i \in {j \in DOMAIN chan[m] : chan[m][j] = r}}
  \cup {<<"deferred", i>> : i \in {j \in DOMAIN deferred[m] : deferred[m][j] = r}}
  \cup (IF cur[m] = r THEN {<<"cur", 0>>} ELSE {})

\* No request is lost or served twice: one whose caller waits is held in one
\* place of one manager, one that was answered or not yet sent in none.
RequestsConserved ==
  \A r \in Requests :
    Cardinality(UNION {{<<m, x>> : x \in Places(m, r)} : m \in Managers})
      = IF answer[r] = "waiting" THEN 1 ELSE 0

\* A seal lets at most the one start through that was already past the check.
SealAdmitsAtMostOne == \A m \in Managers : bornSealed[m] <= 1

\* Every caller is eventually answered, whatever dies, is killed or panics, and
\* however long another workspace's worker holds the permit, as long as no cancel
\* of a request finds the loop writing another (GenerationStream's CommandInFlight).
EverySubmitAnswered ==
  \A r \in Requests : answer[r] = "waiting" ~> answer[r] \in Answered

\* Seals that stay in force end every worker, one born late included, unless a
\* panic left one behind (WorkerManager::seal).
SealDrains ==
  <>[](panics = 0 /\ \A m \in Managers : sealed[m]) => <>[](\A p \in Procs : ~Alive(p))

\* The commands a manager has accepted and not yet taken up, in the order it
\* will take them: the deferred ones come before those in the channel.
Line(m) == deferred[m] \o chan[m]

Before(q, r) ==
  \E m \in Managers : \E i, j \in DOMAIN Line(m) : i < j /\ Line(m)[i] = q /\ Line(m)[j] = r

\* What RequestService sees of the managers: a request waits among the deferred
\* commands or in the channel, where a shutdown is nobody's request, and a
\* worker serves a manager's request once it was written to its stdin.
Queue   == [m \in Managers |-> Range(Line(m)) \cap Requests]
Ahead   == [r \in Requests |-> {q \in Requests : Before(q, r)}]
Serving == {m \in Managers : pc[m] = "serve"}

\* The managers keep the promise of RequestService, whatever is stopped, sealed,
\* killed or panics.
Service == INSTANCE RequestService WITH
  queue <- Queue, ahead <- Ahead, running <- cur, serving <- Serving, told <- answer

ServiceSpec == Service!Spec

-----------------------------------------------------------------------------
(* What a comment of the code says and the code does not do.               *)

\* residency.rs: "A permit is held from the spawn of a worker to its death".
PermitUntilDeath ==
  panics = 0 => Cardinality({p \in Procs : Alive(p)}) <= Residents
=============================================================================
