------------------------ MODULE BuildLifecycle_proofs ------------------------
(* Theorems about BuildLifecycle, for any builds, downloads and panics. *)
EXTENDS BuildCallers, TLAPS

-----------------------------------------------------------------------------
(* What is said of an operation.                                           *)

\* The history of a build that was spoken for at most once.
Spoken(s) == s = <<>> \/ \E v \in Verdicts : s = <<v>>

\* Announcing is saying one verdict more.
LEMMA SaidTyped ==
  ASSUME NEW b \in Builds, said \in [Builds -> Seq(Verdicts)], NEW v \in Verdicts, Announce(b, v)
  PROVE  said' \in [Builds -> Seq(Verdicts)]
  <1>1. Append(said[b], v) \in Seq(Verdicts)
    OBVIOUS
  <1> QED BY <1>1 DEF Announce

\* A single verdict is all that was said.
LEMMA SaidOnce ==
  ASSUME NEW v
  PROVE  Range(<<v>>) = {v} /\ Range(<<>>) = {}
  BY DEF Range

-----------------------------------------------------------------------------
(* Type correctness.                                                       *)

\* Nothing has been started.
LEMMA InitTyped == Init => TypeOK
<1> SUFFICES ASSUME Init PROVE TypeOK
  OBVIOUS
<1>1. ours \in [Builds -> BOOLEAN] /\ flag \in [Builds -> BOOLEAN] /\ settled \in [Builds -> BOOLEAN]
  BY Zenon DEF Init
<1>2. said \in [Builds -> Seq(Verdicts)]
  BY DEF Init
<1> QED BY <1>1, <1>2 DEF Init, TypeOK

\* Every step of a call, a task, a watch or an audit keeps the types.
LEMMA NextTyped == TypeOK /\ [Next]_vars => TypeOK'
<1> SUFFICES ASSUME TypeOK, [Next]_vars PROVE TypeOK'
  OBVIOUS
<1> USE DEF TypeOK, Verdicts, Closed
<1>1. ASSUME NEW b \in Builds, StartCheck(b) \/ CancelTake(b) PROVE TypeOK'
  BY <1>1 DEF StartCheck, CancelTake, appVars, cancelVars, settleVars, taskVars
<1>2. ASSUME NEW b \in Builds, StartSpawn(b) \/ StartRegister(b) \/ CancelRaise(b) PROVE TypeOK'
  BY <1>2 DEF StartSpawn, StartRegister, CancelRaise, appVars, cancelVars, settleVars, taskVars
<1>3. ASSUME NEW b \in Builds, CancelSettle(b) PROVE TypeOK'
  BY <1>3, SaidTyped DEF CancelSettle, Announce, EndJob, appVars, taskVars
<1>4. ASSUME NEW b \in Builds, CancelDownload(b) PROVE TypeOK'
  BY <1>4, SaidTyped DEF CancelDownload, Announce, ClearEmbedTask
<1>5. ASSUME NEW b \in Builds, BeginJob(b) \/ RecordJob(b) PROVE TypeOK'
  BY <1>5 DEF BeginJob, RecordJob, Moves, appVars, cancelVars
<1>12. ASSUME NEW b \in Builds, BuildReturns(b) PROVE TypeOK'
  <2>1. ours' \in [Builds -> BOOLEAN] /\ settled' \in [Builds -> BOOLEAN]
    BY <1>12, Zenon DEF BuildReturns
  <2>2. task' \in [Builds -> {"none", "walking", "begun", "running", "claimed",
                             "finishing", "clearing", "ended"}]
        /\ outcome' \in [Builds -> {"none", "ok", "err"}]
    BY <1>12 DEF BuildReturns, Moves
  <2>3. UNCHANGED <<handle, cancelling, sealed, attached, start, resealed, cancel, audit, flag,
                    recorded, journal, said, panicked>>
    BY <1>12 DEF BuildReturns, appVars, cancelVars
  <2> QED BY <2>1, <2>2, <2>3
<1>6. ASSUME NEW b \in Builds, SettleStopped(b) PROVE TypeOK'
  BY <1>6, SaidTyped DEF SettleStopped, Settle, Announce, EndJob, Moves, appVars, cancelVars
<1>7. ASSUME NEW b \in Builds, StartFinishing(b) \/ EndTask(b) PROVE TypeOK'
  BY <1>7 DEF StartFinishing, EndTask, ClearEmbedTask, Moves, appVars, cancelVars, settleVars
<1>8. ASSUME NEW b \in Builds, FinishBuild(b) PROVE TypeOK'
  BY <1>8, SaidTyped DEF FinishBuild, Settle, Announce, EndJob, Moves, cancelVars
<1>9. ASSUME NEW b \in Builds, DownloadReturns(b) PROVE TypeOK'
  BY <1>9, SaidTyped DEF DownloadReturns, Announce, Moves, appVars, cancelVars
<1>10. ASSUME NEW b \in Builds, ObserveCancel(b) \/ WatchEnds(b) \/ AuditStep(b) \/ Panic(b) PROVE TypeOK'
  BY <1>10 DEF ObserveCancel, WatchEnds, AuditStep, AuditWakes, AuditSeals, Panic, ClearEmbedTask,
               appVars, taskVars, cancelVars, settleVars
<1>11. CASE UNCHANGED vars
  BY <1>11 DEF vars
<1> QED
  BY <1>1, <1>2, <1>3, <1>4, <1>5, <1>6, <1>7, <1>8, <1>9, <1>10, <1>11, <1>12 DEF Next, CallStep, TaskStep

\* Every variable keeps its type, however calls overlap and tasks panic.
THEOREM TypeCorrect == Spec => []TypeOK
  BY InitTyped, NextTyped, PTL DEF Spec

-----------------------------------------------------------------------------
(* The settlement of a build.                                              *)

Open == {"none", "Running"}

\* Where the task is says what it has done: it claims when the build returns,
\* opens its job before it records it, and an operation is spawned once.
TaskShape(b) ==
  /\ start[b] \in {"idle", "checked", "refused"} => task[b] = "none"
  /\ task[b] \in {"none", "walking"} => journal[b] = "none"
  /\ task[b] \in {"none", "walking", "begun", "running"} => ~ours[b]
  /\ task[b] \in {"claimed", "finishing"} => settled[b]
  /\ task[b] = "finishing" => ours[b]
  /\ b \in panicked => task[b] = "ended"
  /\ task[b] \in {"clearing", "ended"} /\ b \notin panicked => settled[b]
  /\ cancel[b] = "raised" => flag[b]

\* Whoever claimed the settlement speaks, once. Until it does nothing is said,
\* the job is open and the index is not attached.
ClaimShape(b) ==
  /\ ~settled[b] => ~ours[b] /\ said[b] = <<>> /\ journal[b] \in Open /\ b \notin attached
  /\ settled[b] /\ ~ours[b] =>
       /\ said[b] = <<"cancelled">> /\ flag[b]
       /\ journal[b] \in Open \cup {"Cancelled"} /\ b \notin attached
  /\ task[b] \in {"claimed", "finishing"} /\ ours[b] =>
       said[b] = <<>> /\ journal[b] \in Open /\ b \notin attached
  /\ task[b] \in {"clearing", "ended"} /\ b \notin panicked /\ ours[b] => said[b] # <<>>

\* What the task's own verdict leaves behind.
VerdictShape(b) ==
  /\ Spoken(said[b])
  /\ said[b] = <<"cancelled">> => b \notin attached
  /\ journal[b] = "Completed" => said[b] = <<"done">> /\ b \in attached
  /\ journal[b] = "Failed"    => said[b] = <<"failed">>
  /\ journal[b] = "Cancelled" => said[b] = <<"cancelled">>

BuildInv(b) == TaskShape(b) /\ ClaimShape(b) /\ VerdictShape(b)

\* A download opens no job and attaches no index.
DownloadInv(b) ==
  /\ start[b] \in {"idle", "checked", "refused"} => task[b] = "none"
  /\ task[b] \in {"none", "running", "clearing", "ended"}
  /\ journal[b] = "none" /\ b \notin attached

SettleInv ==
  /\ \A b \in Builds \ Downloads : BuildInv(b)
  /\ \A b \in Downloads : DownloadInv(b)

\* What the invariant looks at of one operation.
View(b) == <<start[b], task[b], journal[b], ours[b], settled[b], cancel[b], flag[b], said[b]>>

\* A step that leaves an operation as it is keeps what is known of it.
LEMMA ViewKeeps ==
  ASSUME NEW b, View(b)' = View(b), (b \in panicked') <=> (b \in panicked),
         (b \in attached') <=> (b \in attached)
  PROVE  /\ BuildInv(b) => BuildInv(b)'
         /\ DownloadInv(b) => DownloadInv(b)'
  BY DEF View, BuildInv, TaskShape, ClaimShape, VerdictShape, Spoken, DownloadInv, Open

\* A step is the step of one operation: it leaves the others as they are.
Others(b) ==
  \A c \in Builds \ {b} :
    View(c)' = View(c) /\ (c \in panicked' <=> c \in panicked) /\ (c \in attached' <=> c \in attached)

Step(b) ==
  \/ StartCheck(b) \/ CancelTake(b)
  \/ CallStep(b) \/ TaskStep(b) \/ ObserveCancel(b)
  \/ WatchEnds(b) \/ AuditStep(b) \/ Panic(b)

\* The starts, the steps that only move a task, and those of the watch and the audit.
LEMMA MovesFrame ==
  ASSUME TypeOK, NEW b \in Builds,
         \/ StartCheck(b) \/ StartSpawn(b) \/ StartRegister(b) \/ BeginJob(b) \/ RecordJob(b)
         \/ StartFinishing(b) \/ EndTask(b) \/ Panic(b) \/ ObserveCancel(b)
         \/ CancelTake(b) \/ CancelRaise(b) \/ WatchEnds(b) \/ AuditStep(b)
  PROVE  Others(b)
<1> USE DEF TypeOK, Others, View, Moves, appVars, taskVars, cancelVars, settleVars
<1>1. CASE StartCheck(b) \/ StartSpawn(b) \/ StartRegister(b)
  BY <1>1 DEF StartCheck, StartSpawn, StartRegister
<1>2. CASE BeginJob(b) \/ RecordJob(b) \/ StartFinishing(b) \/ EndTask(b)
  BY <1>2 DEF BeginJob, RecordJob, StartFinishing, EndTask
<1>3. CASE Panic(b) \/ ObserveCancel(b)
  BY <1>3 DEF Panic, ObserveCancel
<1>4. CASE CancelTake(b) \/ CancelRaise(b)
  BY <1>4 DEF CancelTake, CancelRaise
<1>5. CASE WatchEnds(b) \/ AuditStep(b)
  BY <1>5 DEF WatchEnds, AuditStep, AuditWakes, AuditSeals
<1> QED BY <1>1, <1>2, <1>3, <1>4, <1>5

\* The steps that claim or speak.
LEMMA SpeaksFrame ==
  ASSUME TypeOK, NEW b \in Builds,
         \/ BuildReturns(b) \/ SettleStopped(b) \/ FinishBuild(b) \/ DownloadReturns(b)
         \/ CancelSettle(b) \/ CancelDownload(b)
  PROVE  Others(b)
<1> USE DEF TypeOK, Others, View, Moves, Announce, EndJob, Settle, appVars, taskVars, cancelVars
<1>1. CASE BuildReturns(b)
  BY <1>1 DEF BuildReturns
<1>2. CASE SettleStopped(b)
  BY <1>2 DEF SettleStopped
<1>3. CASE FinishBuild(b)
  BY <1>3 DEF FinishBuild
<1>4. CASE DownloadReturns(b)
  BY <1>4 DEF DownloadReturns
<1>5. CASE CancelSettle(b)
  BY <1>5 DEF CancelSettle
<1>6. CASE CancelDownload(b)
  BY <1>6 DEF CancelDownload
<1> QED BY <1>1, <1>2, <1>3, <1>4, <1>5, <1>6

\* So an invariant of each operation is kept if a step keeps it of its own.
LEMMA StepKeeps ==
  ASSUME SettleInv, NEW b \in Builds, Others(b),
         b \notin Downloads => BuildInv(b)', b \in Downloads => DownloadInv(b)'
  PROVE  SettleInv'
<1>1. ASSUME NEW c \in Builds \ Downloads PROVE BuildInv(c)'
  BY <1>1, ViewKeeps DEF SettleInv, Others
<1>2. ASSUME NEW c \in Downloads PROVE DownloadInv(c)'
  BY <1>2, ViewKeeps, LifecycleAssumption DEF SettleInv, Others
<1> QED BY <1>1, <1>2 DEF SettleInv

-----------------------------------------------------------------------------
(* What each step keeps of its own operation.                              *)

\* A download never opens a job or attaches an index.
LEMMA DownloadKeeps ==
  ASSUME TypeOK, SettleInv, NEW b \in Downloads, Step(b)
  PROVE  DownloadInv(b)'
<1> USE LifecycleAssumption DEF TypeOK, SettleInv, DownloadInv, Moves, appVars, taskVars, cancelVars, settleVars
<1>1. CASE StartCheck(b) \/ CancelTake(b)
  BY <1>1 DEF StartCheck, CancelTake
<1>2. CASE CallStep(b)
  BY <1>2 DEF CallStep, StartSpawn, StartRegister, CancelRaise, CancelSettle, CancelDownload
<1>3. CASE TaskStep(b)
  BY <1>3 DEF TaskStep, BeginJob, RecordJob, BuildReturns, SettleStopped, StartFinishing, FinishBuild,
              DownloadReturns, EndTask
<1>4. CASE ObserveCancel(b) \/ WatchEnds(b) \/ AuditStep(b) \/ Panic(b)
  BY <1>4 DEF ObserveCancel, WatchEnds, AuditStep, AuditWakes, AuditSeals, Panic
<1> QED BY <1>1, <1>2, <1>3, <1>4 DEF Step

\* A step that claims nothing, says nothing and attaches nothing.
LEMMA QuietKeeps ==
  ASSUME TypeOK, SettleInv, NEW b \in Builds \ Downloads,
         \/ StartCheck(b) \/ StartSpawn(b) \/ StartRegister(b) \/ BeginJob(b) \/ RecordJob(b)
         \/ StartFinishing(b) \/ EndTask(b) \/ Panic(b) \/ ObserveCancel(b)
         \/ CancelTake(b) \/ CancelRaise(b) \/ WatchEnds(b) \/ AuditStep(b)
  PROVE  BuildInv(b)'
<1> BuildInv(b)
  BY DEF SettleInv
<1> USE DEF TypeOK, BuildInv, TaskShape, ClaimShape, VerdictShape, Spoken, Open, Moves,
            appVars, taskVars, cancelVars, settleVars
<1>1. CASE StartCheck(b) \/ StartSpawn(b) \/ StartRegister(b)
  BY <1>1 DEF StartCheck, StartSpawn, StartRegister
<1>2. CASE BeginJob(b) \/ RecordJob(b)
  BY <1>2 DEF BeginJob, RecordJob
<1>3. CASE StartFinishing(b) \/ EndTask(b)
  BY <1>3 DEF StartFinishing, EndTask
<1>4. CASE Panic(b) \/ ObserveCancel(b)
  BY <1>4 DEF Panic, ObserveCancel
<1>5. CASE CancelTake(b) \/ CancelRaise(b)
  BY <1>5 DEF CancelTake, CancelRaise
<1>6. CASE WatchEnds(b) \/ AuditStep(b)
  BY <1>6 DEF WatchEnds, AuditStep, AuditWakes, AuditSeals
<1> QED BY <1>1, <1>2, <1>3, <1>4, <1>5, <1>6

\* The task claims the verdict, if the canceller has not.
LEMMA ClaimKeeps ==
  ASSUME TypeOK, SettleInv, NEW b \in Builds \ Downloads, BuildReturns(b)
  PROVE  BuildInv(b)'
<1> BuildInv(b)
  BY DEF SettleInv
<1>1. /\ task[b] = "running" /\ task'[b] = "claimed" /\ settled'[b]
      /\ ours'[b] <=> ~settled[b]
  BY Zenon DEF BuildReturns, Moves, TypeOK
<1>2. UNCHANGED <<attached, start, cancel, flag, journal, said, panicked>>
  BY DEF BuildReturns, appVars, cancelVars
<1> QED BY <1>1, <1>2 DEF BuildInv, TaskShape, ClaimShape, VerdictShape, Spoken, Open

\* What is said when nothing was said before.
LEMMA FirstWord ==
  ASSUME TypeOK, NEW b \in Builds, NEW v, said[b] = <<>>, Announce(b, v)
  PROVE  said'[b] = <<v>>
  BY DEF TypeOK, Announce

\* The task speaks: for a cancelled or failed build, or after finishing it.
LEMMA VerdictKeeps ==
  ASSUME TypeOK, SettleInv, NEW b \in Builds \ Downloads, SettleStopped(b) \/ FinishBuild(b)
  PROVE  BuildInv(b)'
<1> BuildInv(b)
  BY DEF SettleInv
<1>1. CASE ~ours[b]
  <2>1. SettleStopped(b)
    BY <1>1 DEF FinishBuild, Moves, BuildInv, TaskShape
  <2>2. UNCHANGED <<journal, said>>
    BY <1>1, <2>1 DEF SettleStopped, Settle
  <2> QED BY <1>1, <2>1, <2>2 DEF SettleStopped, Moves, TypeOK, appVars, cancelVars,
             BuildInv, TaskShape, ClaimShape, VerdictShape, Spoken, Open
<1>2. CASE ours[b] /\ SettleStopped(b)
  <2> DEFINE v == IF flag[b] THEN "cancelled" ELSE "failed"
             s == IF flag[b] THEN "Cancelled" ELSE "Failed"
  <2>1. said[b] = <<>> /\ journal[b] \in Open /\ b \notin attached
    BY <1>2 DEF SettleStopped, Moves, BuildInv, ClaimShape
  <2>2. EndJob(b, s) /\ Announce(b, v)
    BY <1>2 DEF SettleStopped, Settle
  <2>3. said'[b] = <<v>>
    BY <2>1, <2>2, FirstWord
  <2>4. journal'[b] \in {"none", s}
    BY <2>2 DEF EndJob, TypeOK
  <2> QED BY <1>2, <2>1, <2>3, <2>4 DEF SettleStopped, Moves, TypeOK, Verdicts, appVars, cancelVars,
             BuildInv, TaskShape, ClaimShape, VerdictShape, Spoken, Open
<1>3. CASE ours[b] /\ FinishBuild(b)
  <2>1. said[b] = <<>> /\ journal[b] \in Open /\ b \notin attached
    BY <1>3 DEF FinishBuild, Moves, BuildInv, ClaimShape
  <2>2. PICK v \in {"done", "failed"} :
          /\ Announce(b, v) /\ EndJob(b, IF v = "done" THEN "Completed" ELSE "Failed")
          /\ attached' = IF v = "done" THEN attached \cup {b} ELSE attached
    BY <1>3 DEF FinishBuild, Settle
  <2>3. said'[b] = <<v>>
    BY <2>1, <2>2, FirstWord
  <2>4. journal'[b] \in {"none", IF v = "done" THEN "Completed" ELSE "Failed"}
    BY <2>2 DEF EndJob, TypeOK
  <2> QED BY <1>3, <2>1, <2>2, <2>3, <2>4 DEF FinishBuild, Moves, TypeOK, Verdicts, appVars, cancelVars,
             BuildInv, TaskShape, ClaimShape, VerdictShape, Spoken, Open
<1> QED BY <1>1, <1>2, <1>3 DEF TypeOK

\* The canceller speaks, if the task has not claimed.
LEMMA CancelKeeps ==
  ASSUME TypeOK, SettleInv, NEW b \in Builds \ Downloads, CancelSettle(b)
  PROVE  BuildInv(b)'
<1> BuildInv(b)
  BY DEF SettleInv
<1>1. /\ flag[b] /\ settled'[b] /\ cancel'[b] = "watching"
      /\ UNCHANGED <<attached, start, task, ours, flag, panicked>>
  BY DEF CancelSettle, TypeOK, appVars, taskVars, BuildInv, TaskShape
<1>2. CASE settled[b]
  <2>1. UNCHANGED <<journal, said>>
    BY <1>2 DEF CancelSettle
  <2> QED BY <1>1, <1>2, <2>1 DEF BuildInv, TaskShape, ClaimShape, VerdictShape, Spoken, Open
<1>3. CASE ~settled[b]
  <2>1. said[b] = <<>> /\ journal[b] \in Open /\ b \notin attached /\ ~ours[b]
    BY <1>3 DEF BuildInv, ClaimShape
  <2>2. said'[b] = <<"cancelled">>
    BY <1>3, <2>1, FirstWord DEF CancelSettle
  <2>3. journal'[b] = journal[b] \/ (journal[b] # "none" /\ journal'[b] = "Cancelled")
    <3>1. EndJob(b, "Cancelled") \/ UNCHANGED journal
      BY <1>3 DEF CancelSettle
    <3> QED BY <3>1 DEF EndJob, TypeOK
  <2>4. TaskShape(b)'
    BY <1>1, <1>3, <2>1, <2>3 DEF BuildInv, TaskShape
  <2>5. ClaimShape(b)'
    BY <1>1, <2>1, <2>2, <2>3 DEF ClaimShape, Open
  <2>6. VerdictShape(b)'
    BY <1>1, <2>1, <2>2, <2>3 DEF VerdictShape, Spoken, Open, Verdicts
  <2> QED BY <2>4, <2>5, <2>6 DEF BuildInv
<1> QED BY <1>2, <1>3 DEF TypeOK

-----------------------------------------------------------------------------
(* The theorems.                                                           *)

\* Nothing has been claimed or said.
LEMMA InitSettle == Init => SettleInv
  BY LifecycleAssumption DEF Init, SettleInv, BuildInv, TaskShape, ClaimShape, VerdictShape, Spoken,
     Open, DownloadInv

\* Every step keeps the settlement of every operation.
LEMMA NextSettle == TypeOK /\ SettleInv /\ [Next]_vars => SettleInv'
<1> SUFFICES ASSUME TypeOK, SettleInv, [Next]_vars PROVE SettleInv'
  OBVIOUS
<1>1. ASSUME NEW b \in Builds, Step(b) PROVE SettleInv'
  <2>1. Others(b)
    BY <1>1, MovesFrame, SpeaksFrame DEF Step, CallStep, TaskStep
  <2>2. b \in Downloads => DownloadInv(b)'
    BY <1>1, DownloadKeeps
  <2>3. b \notin Downloads => BuildInv(b)'
    BY <1>1, QuietKeeps, ClaimKeeps, VerdictKeeps, CancelKeeps
       DEF Step, CallStep, TaskStep, DownloadReturns, CancelDownload
  <2> QED BY <2>1, <2>2, <2>3, StepKeeps
<1>2. CASE UNCHANGED vars
  <2>1. ASSUME NEW b \in Builds
        PROVE  View(b)' = View(b) /\ panicked' = panicked /\ attached' = attached
    BY <1>2 DEF vars, View
  <2> QED BY <2>1, ViewKeeps, LifecycleAssumption DEF SettleInv
<1> QED BY <1>1, <1>2 DEF Next, Step

\* The canceller and the task between them settle every build (BuildSettlement).
THEOREM Settlement == Spec => [](TypeOK /\ SettleInv)
<1>1. Init => TypeOK /\ SettleInv
  BY InitTyped, InitSettle
<1>2. (TypeOK /\ SettleInv) /\ [Next]_vars => (TypeOK /\ SettleInv)'
  BY NextTyped, NextSettle
<1> QED BY <1>1, <1>2, PTL DEF Spec

\* A build is said to have ended once, and is unless its task panics.
THEOREM SettlementOnce == Spec => []SettledOnce
<1>1. TypeOK /\ SettleInv => SettledOnce
  <2> SUFFICES ASSUME SettleInv, NEW b \in Builds \ Downloads
               PROVE  /\ Len(said[b]) <= 1
                      /\ task[b] = "ended" /\ b \notin panicked => Len(said[b]) = 1
    BY DEF SettledOnce
  <2>1. Spoken(said[b])
    BY DEF SettleInv, BuildInv, VerdictShape
  <2>2. task[b] = "ended" /\ b \notin panicked => said[b] # <<>>
    BY DEF SettleInv, BuildInv, TaskShape, ClaimShape
  <2>3. CASE said[b] = <<>>
    BY <2>2, <2>3
  <2>4. CASE said[b] # <<>>
    <3>1. PICK v \in Verdicts : said[b] = <<v>>
      BY <2>1, <2>4 DEF Spoken
    <3> QED BY <3>1
  <2> QED BY <2>3, <2>4
<1> QED BY <1>1, Settlement, PTL

\* A build the user was told is cancelled is never attached (finish_build_index).
THEOREM CancelledStaysOut == Spec => []CancelledNeverAttached
<1>1. TypeOK /\ SettleInv => CancelledNeverAttached
  <2> SUFFICES ASSUME SettleInv, NEW b \in Builds, "cancelled" \in Range(said[b])
               PROVE  b \notin attached
    BY DEF CancelledNeverAttached
  <2>1. CASE b \in Downloads
    BY <2>1 DEF SettleInv, DownloadInv
  <2>2. CASE b \notin Downloads
    <3>1. Spoken(said[b]) /\ (said[b] = <<"cancelled">> => b \notin attached)
      BY <2>2 DEF SettleInv, BuildInv, VerdictShape
    <3> QED BY <3>1, SaidOnce DEF Spoken
  <2> QED BY <2>1, <2>2
<1> QED BY <1>1, Settlement, PTL

\* A job row that is closed says what the user was told (end_job).
THEOREM JournalTold == Spec => []JournalAgrees
<1>1. TypeOK /\ SettleInv => JournalAgrees
  BY DEF SettleInv, BuildInv, VerdictShape, DownloadInv, JournalAgrees
<1> QED BY <1>1, Settlement, PTL


-----------------------------------------------------------------------------
(* Patient callers.                                                        *)

\* An operation that holds the context: its call is under way, its task runs,
\* or its cancel is not over.
Holds(b) ==
  \/ start[b] \in {"checked", "spawned"}
  \/ task[b] \notin {"none", "ended"}
  \/ cancel[b] \in {"taken", "raised", "watching"}

\* One operation holds the context at a time, and the handle is its own unless
\* it is not yet registered or already being cancelled.
PatientInv ==
  /\ \A b, c \in Builds : b # c => ~Holds(b) \/ ~Holds(c)
  /\ \A b \in Builds :
       /\ start[b] \in {"idle", "checked", "refused"} => task[b] = "none"
       /\ start[b] # "done" => cancel[b] = "no"
       /\ handle = b => start[b] = "done" /\ cancel[b] = "no"
       /\ Holds(b) /\ cancel[b] # "no" => handle = None
       /\ Holds(b) /\ cancel[b] = "no" /\ start[b] = "done" => handle = b
       /\ cancel[b] = "over" /\ b \notin Downloads => task[b] = "ended"

\* What the invariant looks at of one operation.
Hold(b) == <<start[b], task[b], cancel[b]>>

\* The context is free for the operation whose call passes the busy check of a
\* patient caller.
Free(b) == \A c \in Builds \ {b} : ~Holds(c)

\* A patient caller finds nobody in its way: what runs is what the handle
\* names, or it was cancelled and its end has been awaited.
LEMMA PatientFindsFree ==
  ASSUME TypeOK, PatientInv, CallsReturned, WoundDown, ~Busy, NEW b \in Builds
  PROVE  Free(b)
<1> SUFFICES ASSUME NEW c \in Builds, Holds(c) PROVE FALSE
  BY DEF Free
<1>1. task[c] \notin {"none", "ended"} /\ cancel[c] \in {"no", "over"}
  BY DEF Holds, CallsReturned, WoundDown, TypeOK
<1>2. start[c] = "done"
  BY <1>1 DEF PatientInv, CallsReturned, TypeOK
<1>3. CASE cancel[c] = "no"
  BY <1>1, <1>2, <1>3, LifecycleAssumption DEF PatientInv, Busy
<1>4. CASE cancel[c] = "over"
  BY <1>1, <1>4 DEF PatientInv, WoundDown
<1> QED BY <1>1, <1>3, <1>4

\* A cancel between calls takes what holds the context, if anything does.
LEMMA CancelFindsFree ==
  ASSUME TypeOK, PatientInv, CallsReturned, NEW b \in Builds, handle = b
  PROVE  Free(b)
<1> SUFFICES ASSUME NEW c \in Builds \ {b}, Holds(c) PROVE FALSE
  BY DEF Free
<1>1. cancel[c] = "no"
  BY LifecycleAssumption DEF PatientInv
<1>2. start[c] = "done"
  BY <1>1 DEF PatientInv, Holds, CallsReturned, TypeOK
<1> QED BY <1>1, <1>2 DEF PatientInv

\* A step that leaves the other operations alone keeps the invariant, if the
\* context is free for its own operation and it keeps what is known of that.
LEMMA FreeKeeps ==
  ASSUME TypeOK, PatientInv, NEW b \in Builds, Free(b),
         \A c \in Builds \ {b} : Hold(c)' = Hold(c),
         handle' \in {handle, b, None},
         start'[b] \in {"idle", "checked", "refused"} => task'[b] = "none",
         start'[b] # "done" => cancel'[b] = "no",
         handle' = b => start'[b] = "done" /\ cancel'[b] = "no",
         Holds(b)' /\ cancel'[b] # "no" => handle' = None,
         Holds(b)' /\ cancel'[b] = "no" /\ start'[b] = "done" => handle' = b,
         cancel'[b] = "over" /\ b \notin Downloads => task'[b] = "ended"
  PROVE  PatientInv'
<1>1. \A c \in Builds \ {b} : (Holds(c)' <=> Holds(c)) /\ ~Holds(c)
  BY DEF Holds, Hold, Free
<1>2. \A c \in Builds \ {b} : start'[c] = start[c] /\ task'[c] = task[c] /\ cancel'[c] = cancel[c]
  BY DEF Hold
<1>3. \A c, d \in Builds : c # d => ~Holds(c)' \/ ~Holds(d)'
  BY <1>1
<1>4. \A c \in Builds \ {b} : handle' = c => handle = c
  BY LifecycleAssumption
<1>5. ASSUME NEW c \in Builds
      PROVE  /\ start'[c] \in {"idle", "checked", "refused"} => task'[c] = "none"
             /\ start'[c] # "done" => cancel'[c] = "no"
             /\ handle' = c => start'[c] = "done" /\ cancel'[c] = "no"
             /\ Holds(c)' /\ cancel'[c] # "no" => handle' = None
             /\ Holds(c)' /\ cancel'[c] = "no" /\ start'[c] = "done" => handle' = c
             /\ cancel'[c] = "over" /\ c \notin Downloads => task'[c] = "ended"
  <2>1. CASE c = b
    BY <2>1
  <2>2. CASE c # b
    BY <1>1, <1>2, <1>4, <2>2 DEF PatientInv
  <2> QED BY <2>1, <2>2
<1> QED BY <1>3, <1>5 DEF PatientInv

\* The step of an operation that already holds the context.
LEMMA HolderIsFree ==
  ASSUME PatientInv, NEW b \in Builds, Holds(b)
  PROVE  Free(b)
  BY DEF PatientInv, Free

\* A step whose caller is patient.
PatientCheck(b) == StartCheck(b) /\ CallsReturned /\ WoundDown
PatientTake(b)  == CancelTake(b) /\ CallsReturned

PatientStep(b) ==
  \/ PatientCheck(b) \/ PatientTake(b)
  \/ CallStep(b) \/ TaskStep(b) \/ ObserveCancel(b)
  \/ WatchEnds(b) \/ AuditStep(b) \/ Panic(b)

\* A step that moves no call, task, cancel or handle.
LEMMA StillKeeps ==
  ASSUME PatientInv, UNCHANGED <<handle, start, task, cancel>>
  PROVE  PatientInv'
<1>1. \A b \in Builds : Holds(b)' <=> Holds(b)
  BY DEF Holds
<1> QED BY <1>1 DEF PatientInv

\* The start of an operation: it is let in when nothing holds the context.
LEMMA StartKeepsPatient ==
  ASSUME TypeOK, PatientInv, NEW b \in Builds,
         PatientCheck(b) \/ StartSpawn(b) \/ StartRegister(b)
  PROVE  PatientInv'
<1> USE DEF TypeOK, appVars, taskVars, cancelVars, settleVars
<1>1. CASE PatientCheck(b) /\ Busy
  <2>1. start[b] = "idle" /\ start' = [start EXCEPT ![b] = "refused"] /\ UNCHANGED <<handle, task, cancel>>
    BY <1>1 DEF PatientCheck, StartCheck
  <2>2. \A c \in Builds : Holds(c)' <=> Holds(c)
    BY <2>1 DEF Holds
  <2> QED BY <2>1, <2>2 DEF PatientInv
<1>2. CASE PatientCheck(b) /\ ~Busy
  <2>1. start[b] = "idle" /\ start' = [start EXCEPT ![b] = "checked"] /\ UNCHANGED <<handle, task, cancel>>
    BY <1>2 DEF PatientCheck, StartCheck
  <2>2. Free(b)
    BY <1>2, PatientFindsFree DEF PatientCheck
  <2> QED BY <2>1, <2>2, FreeKeeps DEF PatientInv, Hold, Holds
<1>3. CASE StartSpawn(b)
  <2>1. Free(b)
    BY <1>3, HolderIsFree DEF StartSpawn, Holds
  <2>2. start[b] = "checked" /\ cancel[b] = "no" /\ handle # b
    BY <1>3 DEF StartSpawn, PatientInv
  <2>3. task[b] = "none"
    BY <2>2 DEF PatientInv
  <2>4. /\ UNCHANGED <<handle, cancel>>
        /\ \A c \in Builds \ {b} : start'[c] = start[c] /\ task'[c] = task[c]
        /\ start'[b] = "spawned" \/ (start'[b] = "refused" /\ task'[b] = "none")
    BY <1>3, <2>3 DEF StartSpawn
  <2>5. CASE start'[b] = "spawned"
    BY <2>1, <2>2, <2>4, <2>5, FreeKeeps DEF Hold
  <2>6. CASE start'[b] = "refused"
    BY <2>1, <2>2, <2>4, <2>6, FreeKeeps DEF Hold, Holds
  <2> QED BY <2>4, <2>5, <2>6
<1>4. CASE StartRegister(b)
  <2>1. Free(b)
    BY <1>4, HolderIsFree DEF StartRegister, Holds
  <2>2. start[b] = "spawned" /\ cancel[b] = "no"
    BY <1>4 DEF StartRegister, PatientInv
  <2> QED BY <1>4, <2>1, <2>2, FreeKeeps, LifecycleAssumption DEF StartRegister, PatientInv, Hold, Holds
<1> QED BY <1>1, <1>2, <1>3, <1>4

\* A task moves on, ends or panics: it was the one that held the context.
LEMMA TaskKeepsPatient ==
  ASSUME TypeOK, PatientInv, NEW b \in Builds, TaskStep(b) \/ Panic(b)
  PROVE  PatientInv'
<1> USE DEF TypeOK
<1>1. /\ task[b] \notin {"none", "ended"} /\ UNCHANGED <<start, cancel>>
      /\ handle' \in {handle, None}
      /\ task' = [task EXCEPT ![b] = task'[b]]
      /\ task'[b] # "none"
      /\ task'[b] # "ended" => handle' = handle
  <2> USE DEF Moves, appVars, taskVars, cancelVars, settleVars
  <2>1. CASE BeginJob(b) \/ RecordJob(b) \/ BuildReturns(b)
    BY <2>1 DEF BeginJob, RecordJob, BuildReturns
  <2>2. CASE SettleStopped(b) \/ StartFinishing(b)
    BY <2>2 DEF SettleStopped, StartFinishing
  <2>3. CASE FinishBuild(b) \/ DownloadReturns(b)
    BY <2>3 DEF FinishBuild, DownloadReturns
  <2>4. CASE EndTask(b) \/ Panic(b)
    BY <2>4 DEF EndTask, Panic, ClearEmbedTask
  <2> QED BY <2>1, <2>2, <2>3, <2>4 DEF TaskStep
<1>2. Free(b)
  BY <1>1, HolderIsFree DEF Holds
<1>3. /\ start[b] \in {"idle", "checked", "refused"} => task[b] = "none"
      /\ start[b] # "done" => cancel[b] = "no"
      /\ handle = b => start[b] = "done" /\ cancel[b] = "no"
      /\ Holds(b) /\ cancel[b] # "no" => handle = None
      /\ Holds(b) /\ cancel[b] = "no" /\ start[b] = "done" => handle = b
      /\ cancel[b] = "over" /\ b \notin Downloads => task[b] = "ended"
  BY DEF PatientInv
<1>4. Holds(b)
  BY <1>1 DEF Holds
<1>5. Holds(b)' => task'[b] # "ended" \/ cancel[b] # "no" \/ start[b] # "done"
  BY <1>1 DEF Holds
<1>6. \A c \in Builds \ {b} : Hold(c)' = Hold(c)
  BY <1>1 DEF Hold
<1> QED BY <1>1, <1>2, <1>3, <1>4, <1>5, <1>6, FreeKeeps, LifecycleAssumption

\* A cancel takes the one that holds the context, and lets go when it is over.
LEMMA CancelKeepsPatient ==
  ASSUME TypeOK, PatientInv, NEW b \in Builds,
         PatientTake(b) \/ CancelRaise(b) \/ CancelSettle(b) \/ CancelDownload(b) \/ WatchEnds(b)
  PROVE  PatientInv'
<1> USE DEF TypeOK, appVars, taskVars, settleVars
<1>1. CASE PatientTake(b)
  <2>1. Free(b)
    BY <1>1, CancelFindsFree DEF PatientTake, CancelTake
  <2>2. /\ handle = b /\ handle' = None /\ UNCHANGED <<start, task>>
        /\ cancel' = [cancel EXCEPT ![b] = "taken"]
    BY <1>1 DEF PatientTake, CancelTake
  <2> QED BY <2>1, <2>2, FreeKeeps, LifecycleAssumption DEF PatientInv, Hold
<1>2. CASE CancelRaise(b) \/ CancelSettle(b)
  <2>1. /\ cancel[b] \in {"taken", "raised"} /\ UNCHANGED <<handle, start, task>>
        /\ cancel' = [cancel EXCEPT ![b] = cancel'[b]] /\ cancel'[b] \in {"raised", "watching"}
    BY <1>2 DEF CancelRaise, CancelSettle
  <2>2. Free(b) /\ handle = None /\ start[b] = "done"
    BY <2>1, HolderIsFree DEF Holds, PatientInv
  <2> QED BY <2>1, <2>2, FreeKeeps, LifecycleAssumption DEF PatientInv, Hold
<1>3. CASE CancelDownload(b) \/ WatchEnds(b)
  <2>1. /\ cancel[b] \in {"raised", "watching"} /\ handle' = None /\ UNCHANGED start
        /\ cancel' = [cancel EXCEPT ![b] = "over"]
        /\ \A c \in Builds \ {b} : task'[c] = task[c]
        /\ task'[b] \in {task[b], "ended"}
        /\ b \notin Downloads => task'[b] = "ended"
    <3>1. CASE CancelDownload(b)
      BY <3>1 DEF CancelDownload, ClearEmbedTask
    <3>2. CASE WatchEnds(b)
      BY <3>2 DEF WatchEnds, ClearEmbedTask
    <3> QED BY <1>3, <3>1, <3>2
  <2>2. Free(b) /\ start[b] = "done"
    BY <2>1, HolderIsFree DEF Holds, PatientInv
  <2>3. /\ \A c \in Builds \ {b} : Hold(c)' = Hold(c)
        /\ start'[b] = "done" /\ cancel'[b] = "over"
    BY <2>1, <2>2 DEF Hold
  <2> QED BY <2>1, <2>2, <2>3, FreeKeeps, LifecycleAssumption
<1> QED BY <1>1, <1>2, <1>3

\* Every step of patient callers keeps the context to one operation.
LEMMA PatientStepKeeps ==
  ASSUME TypeOK, PatientInv, NEW b \in Builds, PatientStep(b)
  PROVE  PatientInv'
<1>1. CASE ObserveCancel(b) \/ AuditStep(b)
  BY <1>1, StillKeeps DEF ObserveCancel, AuditStep, AuditWakes, AuditSeals, appVars, taskVars, cancelVars, settleVars
<1> QED BY <1>1, StartKeepsPatient, TaskKeepsPatient, CancelKeepsPatient DEF PatientStep, CallStep

\* A step of the instance whose callers are patient is a step of the lifecycle,
\* whoever its own callers are, and it waits where patient callers wait.
LEMMA PatientNextSteps ==
  ASSUME Patient!Next
  PROVE  \E b \in Builds : PatientStep(b)
<1>1. PICK b \in Builds :
        \/ Patient!StartCheck(b) \/ Patient!CancelTake(b)
        \/ Patient!CallStep(b) \/ Patient!TaskStep(b) \/ Patient!ObserveCancel(b)
        \/ Patient!WatchEnds(b) \/ Patient!AuditStep(b) \/ Patient!Panic(b)
  BY DEF Patient!Next
<1>2. /\ Patient!StartCheck(b) <=> StartCheck(b) /\ CallsReturned /\ WoundDown
      /\ Patient!CancelTake(b) <=> CancelTake(b) /\ CallsReturned
  BY LifecycleAssumption
     DEF Patient!StartCheck, Patient!MayCall, Patient!CallsReturned, Patient!WoundDown, Patient!Busy,
         Patient!CancelTake, Patient!appVars, Patient!taskVars, Patient!cancelVars, Patient!settleVars,
         StartCheck, MayCall, CallsReturned, WoundDown, Busy, CancelTake, appVars, taskVars, cancelVars, settleVars
<1>3. Patient!CallStep(b) <=> CallStep(b)
  BY DEF Patient!CallStep, Patient!StartSpawn, Patient!StartRegister, Patient!CancelRaise,
         Patient!CancelSettle, Patient!CancelDownload, Patient!Announce, Patient!EndJob, Patient!ClearEmbedTask,
         Patient!appVars, Patient!taskVars, Patient!cancelVars, Patient!settleVars,
         CallStep, StartSpawn, StartRegister, CancelRaise, CancelSettle, CancelDownload, Announce, EndJob,
         ClearEmbedTask, appVars, taskVars, cancelVars, settleVars
<1>4. Patient!TaskStep(b) <=> TaskStep(b)
  BY DEF Patient!TaskStep, Patient!BeginJob, Patient!RecordJob, Patient!BuildReturns, Patient!SettleStopped,
         Patient!StartFinishing, Patient!FinishBuild, Patient!DownloadReturns, Patient!EndTask, Patient!Moves,
         Patient!Settle, Patient!Announce, Patient!EndJob, Patient!ClearEmbedTask,
         Patient!appVars, Patient!cancelVars, Patient!settleVars,
         TaskStep, BeginJob, RecordJob, BuildReturns, SettleStopped, StartFinishing, FinishBuild,
         DownloadReturns, EndTask, Moves, Settle, Announce, EndJob, ClearEmbedTask,
         appVars, cancelVars, settleVars
<1>5. (Patient!ObserveCancel(b) <=> ObserveCancel(b)) /\ (Patient!Panic(b) <=> Panic(b))
  <2>1. Patient!ObserveCancel(b) <=> ObserveCancel(b)
    BY DEF Patient!ObserveCancel, Patient!cancelVars, Patient!settleVars, ObserveCancel, cancelVars, settleVars
  <2>2. Patient!Panic(b) <=> Panic(b)
    <3>1. Patient!Cardinality(panicked) = Cardinality(panicked)
      BY DEF Patient!Cardinality, Cardinality, Patient!IsFiniteSet, IsFiniteSet
    <3> QED BY <3>1 DEF Patient!Panic, Patient!appVars, Patient!cancelVars, Panic, appVars, cancelVars
  <2> QED BY <2>1, <2>2
<1>6. (Patient!WatchEnds(b) <=> WatchEnds(b)) /\ (Patient!AuditStep(b) <=> AuditStep(b))
  BY DEF Patient!WatchEnds, Patient!AuditStep, Patient!AuditWakes, Patient!AuditSeals, Patient!ClearEmbedTask,
         Patient!appVars, Patient!taskVars, Patient!settleVars,
         WatchEnds, AuditStep, AuditWakes, AuditSeals, ClearEmbedTask, appVars, taskVars, settleVars
<1>7. PatientStep(b)
  BY <1>1, <1>2, <1>3, <1>4, <1>5, <1>6, Zenon DEF PatientStep, PatientCheck, PatientTake
<1> QED BY <1>7

-----------------------------------------------------------------------------
(* The lifecycle under both kinds of caller.                               *)

CallersInv == TypeOK /\ (patient => PatientInv)

\* Either kind of caller takes steps of the lifecycle.
LEMMA CallersTakeSteps == [CallersNext]_callersVars => [Next]_vars
<1> SUFFICES ASSUME [CallersNext]_callersVars PROVE [Next]_vars
  OBVIOUS
<1>1. CASE Patient!Next
  <2>1. PICK b \in Builds : PatientStep(b)
    BY <1>1, PatientNextSteps
  <2> QED BY <2>1 DEF PatientStep, PatientCheck, PatientTake, Next
<1>2. CASE Next
  BY <1>2
<1>3. CASE UNCHANGED callersVars
  BY <1>3 DEF callersVars
<1> QED BY <1>1, <1>2, <1>3 DEF CallersNext

LEMMA CallersNextTyped == TypeOK /\ [CallersNext]_callersVars => TypeOK'
BY CallersTakeSteps, NextTyped

\* While callers are patient the context has one operation at most.
LEMMA CallersKeep == CallersInv /\ [CallersNext]_callersVars => CallersInv'
<1> SUFFICES ASSUME CallersInv, [CallersNext]_callersVars PROVE CallersInv'
  OBVIOUS
<1> USE DEF CallersInv
<1>1. TypeOK'
  BY CallersNextTyped
<1>2. CASE UNCHANGED callersVars
  BY <1>1, <1>2, StillKeeps DEF callersVars, vars
<1>3. CASE CallersNext /\ patient
  <2>1. PICK b \in Builds : PatientStep(b)
    BY <1>3, PatientNextSteps DEF CallersNext
  <2> QED BY <1>1, <1>3, <2>1, PatientStepKeeps
<1>4. CASE CallersNext /\ ~patient
  BY <1>1, <1>4 DEF CallersNext
<1> QED BY <1>2, <1>3, <1>4

\* Nothing holds the context at first.
LEMMA InitPatient == Init => PatientInv
  BY LifecycleAssumption DEF Init, PatientInv, Holds

\* Callers who wait for the last one to wind down keep the context to one
\* operation, from its call to the end of its cancel.
THEOREM ContextHeldOnce == CallersSpec => []CallersInv
<1>1. CallersInit => CallersInv
  BY InitTyped, InitPatient DEF CallersInit, CallersInv
<1> QED BY <1>1, CallersKeep, PTL DEF CallersSpec

\* Patient callers never have two operations running (prepare_build_index).
THEOREM PatientOneAtATime == CallersSpec => []PatientRunOneAtATime
<1>1. CallersInv => PatientRunOneAtATime
  BY DEF CallersInv, PatientRunOneAtATime, OneAtATime, PatientInv, Holds
<1> QED BY <1>1, ContextHeldOnce, PTL

\* Patient callers always find the running operation under the handle that
\* cancel_embed takes.
THEOREM PatientCancelReaches == CallersSpec => []PatientCanCancel
<1>1. CallersInv => PatientCanCancel
  BY DEF CallersInv, PatientCanCancel, RunningIsCancellable, PatientInv, Holds
<1> QED BY <1>1, ContextHeldOnce, PTL

\* Whether or not callers wait, what they do is the lifecycle, so what it
\* promises holds of both: one verdict, none attached after a cancel, and a
\* journal that agrees (BuildSettlement).
THEOREM CallersImplementLifecycle == CallersSpec => Spec
<1>1. CallersInit => Init
  BY DEF CallersInit
<1> QED BY <1>1, CallersTakeSteps, PTL DEF CallersSpec, Spec

\* The settlement, the journal and the types hold under both kinds of caller.
THEOREM CallersSettled ==
  CallersSpec => [](TypeOK /\ SettledOnce /\ CancelledNeverAttached /\ JournalAgrees)
BY CallersImplementLifecycle, TypeCorrect, SettlementOnce, CancelledStaysOut, JournalTold, PTL
=============================================================================
