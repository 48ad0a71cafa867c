---------------------------- MODULE BuildLifecycle ----------------------------
(***************************************************************************)
(* The life of a semantic index build and of a model download in one       *)
(* AppContext (crates/api/src/context.rs): start_build_index_over,         *)
(* start_download_model, the tasks they spawn, cancel_embed with the       *)
(* settlement it shares with the build, the watch and the audit it leaves  *)
(* behind, and clear_embed_task.                                           *)
(*                                                                         *)
(* Start and cancel calls arrive on any thread (Tauri commands, HTTP       *)
(* handlers). Calls says how far a caller waits before it starts a build:  *)
(* "concurrent", not at all; "serial", until every earlier start or cancel *)
(* call has returned; "patient", also until the cancelled task and its watch   *)
(* have ended, which the code tells nobody.                                *)
(***************************************************************************)
EXTENDS Naturals, Sequences, FiniteSets, Functions

CONSTANTS
  Builds,     \* the operations that are asked for, each at most once
  Downloads,  \* those that download a model; the others build an index
  None,
  Calls,
  MaxPanics   \* bound: how many tasks may panic in a behaviour

ASSUME LifecycleAssumption ==
  /\ None \notin Builds
  /\ Downloads \subseteq Builds
  /\ Calls \in {"concurrent", "serial", "patient"}
  /\ MaxPanics \in Nat

VARIABLES
  \* the application's state
  handle,      \* embed_task: the operation a cancel would take
  cancelling,  \* embed_cancel_in_progress
  sealed,      \* the embed and recognize managers refuse to start a worker
  attached,    \* the builds whose index was made the workspace's index
  \* one start call and one task per operation
  start,       \* the call: idle, checked (not busy), spawned, done or refused
  task,        \* the task it spawned
  outcome,     \* what the build future returned
  ours,        \* whether the task's claim on the settlement succeeded
  resealed,    \* the builds whose task has observed its cancel token
  \* the cancel of an operation, with the watch and the audit it leaves behind
  cancel,      \* no, taken, raised, watching or over
  audit,       \* no, due, sealing or done
  flag,        \* cancel_flag
  \* the settlement and the job journal
  settled,     \* BuildSettlement::settled
  recorded,    \* the builds whose job the settlement knows
  journal,     \* the state of each build's job row
  said,        \* history: the verdicts announced for each operation
  panicked     \* the operations whose task panicked (bounded by MaxPanics)

appVars    == <<handle, cancelling, sealed, attached>>
taskVars   == <<start, task, outcome, ours, resealed>>
cancelVars == <<cancel, audit, flag>>
settleVars == <<settled, recorded, journal, said, panicked>>
vars == <<handle, cancelling, sealed, attached, start, task, outcome, ours, resealed,
          cancel, audit, flag, settled, recorded, journal, said, panicked>>

Verdicts == {"done", "failed", "cancelled"}
Closed   == {"Completed", "Failed", "Cancelled"}

TypeOK ==
  /\ handle \in Builds \cup {None}
  /\ cancelling \in BOOLEAN /\ sealed \in BOOLEAN
  /\ attached \in SUBSET Builds
  /\ start \in [Builds -> {"idle", "checked", "spawned", "done", "refused"}]
  /\ task \in [Builds -> {"none", "walking", "begun", "running", "claimed",
                          "finishing", "clearing", "ended"}]
  /\ outcome \in [Builds -> {"none", "ok", "err"}]
  /\ ours \in [Builds -> BOOLEAN]
  /\ resealed \in SUBSET Builds
  /\ cancel \in [Builds -> {"no", "taken", "raised", "watching", "over"}]
  /\ audit \in [Builds -> {"no", "due", "sealing", "done"}]
  /\ flag \in [Builds -> BOOLEAN]
  /\ settled \in [Builds -> BOOLEAN]
  /\ recorded \in SUBSET Builds
  /\ journal \in [Builds -> {"none", "Running"} \cup Closed]
  /\ said \in [Builds -> Seq(Verdicts)]
  /\ panicked \in SUBSET Builds

Init ==
  /\ handle = None /\ cancelling = FALSE /\ sealed = FALSE /\ attached = {}
  /\ start = [b \in Builds |-> "idle"]
  /\ task = [b \in Builds |-> "none"]
  /\ outcome = [b \in Builds |-> "none"]
  /\ ours = [b \in Builds |-> FALSE]
  /\ resealed = {}
  /\ cancel = [b \in Builds |-> "no"]
  /\ audit = [b \in Builds |-> "no"]
  /\ flag = [b \in Builds |-> FALSE]
  /\ settled = [b \in Builds |-> FALSE]
  /\ recorded = {}
  /\ journal = [b \in Builds |-> "none"]
  /\ said = [b \in Builds |-> <<>>]
  /\ panicked = {}

-----------------------------------------------------------------------------
(* Starting.                                                               *)

\* No start or cancel call is under way.
CallsReturned ==
  \A b \in Builds : start[b] \notin {"checked", "spawned"} /\ cancel[b] \notin {"taken", "raised"}

\* What the cancels left behind is over.
WoundDown ==
  \A b \in Builds :
    /\ cancel[b] # "watching"
    /\ cancel[b] = "over" /\ b \in Downloads => task[b] = "ended"

MayCall ==
  CASE Calls = "concurrent" -> TRUE
    [] Calls = "serial"     -> CallsReturned
    [] Calls = "patient"    -> CallsReturned /\ WoundDown

\* embed_busy_reason: a cancel is in force, or the handle's task is not finished.
Busy == cancelling \/ (handle # None /\ task[handle] # "ended")

\* The busy check that opens prepare_build_index and prepare_download_model.
StartCheck(b) ==
  /\ start[b] = "idle"
  /\ MayCall
  /\ start' = [start EXCEPT ![b] = IF Busy THEN "refused" ELSE "checked"]
  /\ UNCHANGED <<appVars, task, outcome, ours, resealed, cancelVars, settleVars>>

\* The settings are read and the root validated; a root that is not valid ends
\* the call, otherwise the task is spawned.
StartSpawn(b) ==
  /\ start[b] = "checked"
  /\ \/ /\ start' = [start EXCEPT ![b] = "refused"]
        /\ UNCHANGED task
     \/ /\ start' = [start EXCEPT ![b] = "spawned"]
        /\ task' = [task EXCEPT ![b] = IF b \in Downloads THEN "running" ELSE "walking"]
  /\ UNCHANGED <<appVars, outcome, ours, resealed, cancelVars, settleVars>>

\* Mutated: a download is not registered.
StartRegister_BuildsOnly(b) ==
  /\ start[b] = "spawned"
  /\ start' = [start EXCEPT ![b] = "done"]
  /\ handle' = IF b \in Downloads THEN handle ELSE b
  /\ UNCHANGED <<cancelling, sealed, attached, task, outcome, ours, resealed, cancelVars, settleVars>>

\* The spawned task is put where a cancel finds it.
StartRegister(b) ==
  /\ start[b] = "spawned"
  /\ start' = [start EXCEPT ![b] = "done"]
  /\ handle' = b
  /\ UNCHANGED <<cancelling, sealed, attached, task, outcome, ours, resealed, cancelVars, settleVars>>

-----------------------------------------------------------------------------
(* The tasks.                                                              *)

\* clear_embed_task, whoever calls it and whatever it finds registered.
ClearEmbedTask ==
  /\ handle' = None
  /\ sealed' = FALSE
  /\ cancelling' = FALSE

Moves(b, from, to) ==
  /\ task[b] = from
  /\ task' = [task EXCEPT ![b] = to]

Announce(b, verdict) == said' = [said EXCEPT ![b] = Append(@, verdict)]

\* end_job: a job that was never opened cannot be closed.
EndJob(b, state) ==
  journal' = IF journal[b] = "none" THEN journal ELSE [journal EXCEPT ![b] = state]

\* The scope is walked and the job opened; a journal that fails is only logged.
BeginJob(b) ==
  /\ Moves(b, "walking", "begun")
  /\ \/ journal' = [journal EXCEPT ![b] = "Running"]
     \/ UNCHANGED journal
  /\ UNCHANGED <<appVars, start, outcome, ours, resealed, cancelVars, settled, recorded, said, panicked>>

RecordJob(b) ==
  /\ Moves(b, "begun", "running")
  /\ recorded' = IF journal[b] = "none" THEN recorded ELSE recorded \cup {b}
  /\ UNCHANGED <<appVars, start, outcome, ours, resealed, cancelVars, settled, journal, said, panicked>>

\* The select loop observes the cancel token: once, because its branch is
\* closed to a build whose flag it finds up.
ObserveCancel(b) ==
  /\ task[b] = "running" /\ b \notin Downloads
  /\ flag[b] /\ b \notin resealed
  /\ resealed' = resealed \cup {b}
  /\ sealed' = TRUE
  /\ UNCHANGED <<handle, cancelling, attached, start, task, outcome, ours, cancelVars, settleVars>>

\* Mutated: a build that was cancelled returns an outcome of its own.
BuildReturns_Cancelled(b) ==
  /\ b \notin Downloads
  /\ Moves(b, "running", "claimed")
  /\ outcome' = [outcome EXCEPT ![b] = IF flag[b] THEN "cancelled" ELSE "ok"]
  /\ ours' = [ours EXCEPT ![b] = ~settled[b]]
  /\ settled' = [settled EXCEPT ![b] = TRUE]
  /\ UNCHANGED <<appVars, start, resealed, cancelVars, recorded, journal, said, panicked>>

\* The build future completes, and the task claims the verdict.
BuildReturns(b) ==
  /\ b \notin Downloads
  /\ Moves(b, "running", "claimed")
  /\ \E o \in {"ok", "err"} : outcome' = [outcome EXCEPT ![b] = o]
  /\ ours' = [ours EXCEPT ![b] = ~settled[b]]
  /\ settled' = [settled EXCEPT ![b] = TRUE]
  /\ UNCHANGED <<appVars, start, resealed, cancelVars, recorded, journal, said, panicked>>

\* Whoever holds the claim closes the job and says the verdict.
Settle(b, state, verdict) ==
  IF ours[b] THEN EndJob(b, state) /\ Announce(b, verdict)
             ELSE UNCHANGED <<journal, said>>

\* The task reads the flag: a cancelled build, or a failed one, ends here.
SettleStopped(b) ==
  /\ flag[b] \/ outcome[b] = "err"
  /\ Moves(b, "claimed", "clearing")
  /\ IF flag[b] THEN Settle(b, "Cancelled", "cancelled") ELSE Settle(b, "Failed", "failed")
  /\ UNCHANGED <<appVars, start, outcome, ours, resealed, cancelVars, settled, recorded, panicked>>

\* Mutated: the cancel flag is not read before the index is attached.
StartFinishing_Unflagged(b) ==
  /\ outcome[b] = "ok"
  /\ Moves(b, "claimed", "finishing")
  /\ UNCHANGED <<appVars, start, outcome, ours, resealed, cancelVars, settleVars>>

StartFinishing(b) ==
  /\ ~flag[b] /\ outcome[b] = "ok"
  /\ Moves(b, "claimed", "finishing")
  /\ UNCHANGED <<appVars, start, outcome, ours, resealed, cancelVars, settleVars>>

\* finish_build_index: the published index is opened and attached.
FinishBuild(b) ==
  /\ Moves(b, "finishing", "clearing")
  /\ \/ /\ attached' = attached \cup {b}
        /\ Settle(b, "Completed", "done")
     \/ /\ UNCHANGED attached
        /\ Settle(b, "Failed", "failed")
  /\ UNCHANGED <<handle, cancelling, sealed, start, outcome, ours, resealed, cancelVars, settled, recorded, panicked>>

\* A download says how it went.
DownloadReturns(b) ==
  /\ b \in Downloads
  /\ Moves(b, "running", "clearing")
  /\ \E v \in {"done", "failed"} : Announce(b, v)
  /\ UNCHANGED <<appVars, start, outcome, ours, resealed, cancelVars, settled, recorded, journal, panicked>>

\* The task clears and ends.
EndTask(b) ==
  /\ Moves(b, "clearing", "ended")
  /\ ClearEmbedTask
  /\ UNCHANGED <<attached, start, outcome, ours, resealed, cancelVars, settleVars>>

\* The task panics: it ends where it is, with nothing settled or cleared.
Panic(b) ==
  /\ task[b] \notin {"none", "ended"}
  /\ Cardinality(panicked) < MaxPanics
  /\ task' = [task EXCEPT ![b] = "ended"]
  /\ panicked' = panicked \cup {b}
  /\ UNCHANGED <<appVars, start, outcome, ours, resealed, cancelVars, settled, recorded, journal, said>>

-----------------------------------------------------------------------------
(* Cancelling.                                                             *)

\* cancel_embed takes the handle. With none it only knocks on the workers.
CancelTake(b) ==
  /\ handle = b
  /\ Calls = "concurrent" \/ CallsReturned
  /\ handle' = None
  /\ cancel' = [cancel EXCEPT ![b] = "taken"]
  /\ UNCHANGED <<cancelling, sealed, attached, taskVars, audit, flag, settleVars>>

\* It raises the flags, cancels the token, and seals and kills the workers.
CancelRaise(b) ==
  /\ cancel[b] = "taken"
  /\ cancel' = [cancel EXCEPT ![b] = "raised"]
  /\ cancelling' = TRUE
  /\ flag' = [flag EXCEPT ![b] = TRUE]
  /\ sealed' = TRUE
  /\ UNCHANGED <<handle, attached, taskVars, audit, settleVars>>

\* Mutated: the canceller speaks without claiming.
CancelSettle_Speaks(b) ==
  /\ cancel[b] = "raised" /\ b \notin Downloads
  /\ cancel' = [cancel EXCEPT ![b] = "watching"]
  /\ audit' = [audit EXCEPT ![b] = "due"]
  /\ settled' = [settled EXCEPT ![b] = TRUE]
  /\ Announce(b, "cancelled")
  /\ IF b \in recorded THEN EndJob(b, "Cancelled") ELSE UNCHANGED journal
  /\ UNCHANGED <<appVars, taskVars, flag, recorded, panicked>>

\* Mutated: the canceller closes the job whoever settled the build.
CancelSettle_Closes(b) ==
  /\ cancel[b] = "raised" /\ b \notin Downloads
  /\ cancel' = [cancel EXCEPT ![b] = "watching"]
  /\ audit' = [audit EXCEPT ![b] = "due"]
  /\ settled' = [settled EXCEPT ![b] = TRUE]
  /\ IF b \in recorded THEN EndJob(b, "Cancelled") ELSE UNCHANGED journal
  /\ IF settled[b] THEN UNCHANGED said ELSE Announce(b, "cancelled")
  /\ UNCHANGED <<appVars, taskVars, flag, recorded, panicked>>

\* For a build: the canceller settles if it is first, and leaves behind an
\* audit due at the deadline and a watch on the task.
CancelSettle(b) ==
  /\ cancel[b] = "raised" /\ b \notin Downloads
  /\ cancel' = [cancel EXCEPT ![b] = "watching"]
  /\ audit' = [audit EXCEPT ![b] = "due"]
  /\ settled' = [settled EXCEPT ![b] = TRUE]
  /\ IF settled[b]
       THEN UNCHANGED <<journal, said>>
       ELSE /\ Announce(b, "cancelled")
            /\ IF b \in recorded THEN EndJob(b, "Cancelled") ELSE UNCHANGED journal
  /\ UNCHANGED <<appVars, taskVars, flag, recorded, panicked>>

\* For a download: the task is aborted, which a task past its last await does
\* not notice.
CancelDownload(b) ==
  /\ cancel[b] = "raised" /\ b \in Downloads
  /\ cancel' = [cancel EXCEPT ![b] = "over"]
  /\ \/ task[b] = "running" /\ task' = [task EXCEPT ![b] = "ended"]
     \/ UNCHANGED task
  /\ Announce(b, "cancelled")
  /\ ClearEmbedTask
  /\ UNCHANGED <<attached, start, outcome, ours, resealed, audit, flag, settled, recorded, journal, panicked>>

\* Mutated: the watch does not wait for the task to end.
WatchEnds_Early(b) ==
  /\ cancel[b] = "watching"
  /\ cancel' = [cancel EXCEPT ![b] = "over"]
  /\ ClearEmbedTask
  /\ UNCHANGED <<attached, taskVars, audit, flag, settleVars>>

\* Mutated: the watch is notified by the task itself, which a panic prevents.
WatchEnds_NotPanicked(b) ==
  /\ cancel[b] = "watching" /\ task[b] = "ended" /\ b \notin panicked
  /\ cancel' = [cancel EXCEPT ![b] = "over"]
  /\ ClearEmbedTask
  /\ UNCHANGED <<attached, taskVars, audit, flag, settleVars>>

\* The watch sees the task end, and clears.
WatchEnds(b) ==
  /\ cancel[b] = "watching" /\ task[b] = "ended"
  /\ cancel' = [cancel EXCEPT ![b] = "over"]
  /\ ClearEmbedTask
  /\ UNCHANGED <<attached, taskVars, audit, flag, settleVars>>

\* At the deadline the audit asks whether a cancel is still in force ...
AuditWakes(b) ==
  /\ audit[b] = "due"
  /\ audit' = [audit EXCEPT ![b] = IF cancelling THEN "sealing" ELSE "done"]
  /\ UNCHANGED <<appVars, taskVars, cancel, flag, settleVars>>

\* ... and seals the managers that still report a live pid, if any does.
AuditSeals(b) ==
  /\ audit[b] = "sealing"
  /\ audit' = [audit EXCEPT ![b] = "done"]
  /\ sealed' \in {sealed, TRUE}
  /\ UNCHANGED <<handle, cancelling, attached, taskVars, cancel, flag, settleVars>>

-----------------------------------------------------------------------------
TaskStep(b) ==
  \/ BeginJob(b) \/ RecordJob(b) \/ BuildReturns(b)
  \/ SettleStopped(b) \/ StartFinishing(b) \/ FinishBuild(b)
  \/ DownloadReturns(b) \/ EndTask(b)

CallStep(b) ==
  \/ StartSpawn(b) \/ StartRegister(b)
  \/ CancelRaise(b) \/ CancelSettle(b) \/ CancelDownload(b)

AuditStep(b) == AuditWakes(b) \/ AuditSeals(b)

Next ==
  \E b \in Builds :
    \/ StartCheck(b) \/ CancelTake(b)
    \/ CallStep(b) \/ TaskStep(b) \/ ObserveCancel(b)
    \/ WatchEnds(b) \/ AuditStep(b) \/ Panic(b)

Spec == Init /\ [][Next]_vars

\* Calls return, tasks end (a killed worker's request is answered, see
\* WorkerManager), the watch is notified. Nothing makes anyone start or cancel.
Fairness ==
  \A b \in Builds :
    WF_vars(CallStep(b)) /\ WF_vars(TaskStep(b)) /\ WF_vars(WatchEnds(b)) /\ WF_vars(AuditStep(b))

-----------------------------------------------------------------------------
(* What holds however calls overlap and tasks panic.                       *)

\* An index build is said to have ended once: the canceller and the task never
\* both speak, and a task that ends without a panic has been spoken for
\* (BuildSettlement).
SettledOnce ==
  \A b \in Builds \ Downloads :
    /\ Len(said[b]) <= 1
    /\ task[b] = "ended" /\ b \notin panicked => Len(said[b]) = 1

\* A build the user was told is cancelled never becomes the workspace's index.
CancelledNeverAttached ==
  \A b \in Builds : "cancelled" \in Range(said[b]) => b \notin attached

\* A closed job says what the user was told.
JournalAgrees ==
  \A b \in Builds :
    /\ journal[b] = "Completed" => said[b] = <<"done">> /\ b \in attached
    /\ journal[b] = "Failed"    => said[b] = <<"failed">>
    /\ journal[b] = "Cancelled" => said[b] = <<"cancelled">>

\* A cancel in force ends, whatever the build does, even panicking.
CancelEnds == cancelling ~> ~cancelling

-----------------------------------------------------------------------------
(* What holds when starts wait for the last watch, and does not otherwise. *)

\* "A build that has not wound down holds the next one off."
OneAtATime ==
  \A b, c \in Builds : b # c => "ended" \in {task[b], task[c]} \/ "none" \in {task[b], task[c]}

\* A cancel reaches what is running: an operation that was registered, runs and
\* is not being cancelled is the one a cancel takes.
RunningIsCancellable ==
  \A b \in Builds :
    start[b] = "done" /\ task[b] \notin {"none", "ended"} /\ cancel[b] = "no" => handle = b

-----------------------------------------------------------------------------
(* What comments and tests of the code say and the code does not do.       *)

\* BuildSettlement: "this is what keeps the two from both doing it, or
\* neither": a build that ended has closed the job it opened.
EndedJobIsClosed ==
  \A b \in Builds : task[b] = "ended" /\ b \notin panicked => journal[b] # "Running"
=============================================================================
