------------------------------ MODULE IndexStore ------------------------------
(***************************************************************************)
(* The semantic index on disk: how a build (SemanticIndex::build,          *)
(* crates/core/src/embed/index/db.rs) fills a temporary database and       *)
(* publishes it by merging it into the live one or by replacing that one,  *)
(* with the job journal it reports to, the context that attaches the       *)
(* result, the watcher that updates it in place, openers that recover an   *)
(* interrupted replacement, deletion and restore (crates/api/src/context.rs). *)
(* The process may crash between any two steps.                            *)
(*                                                                         *)
(* One build runs at a time; BuildLifecycle is about several.              *)
(***************************************************************************)
EXTENDS JobJournal

CONSTANTS
  None,
  Under,       \* the documents below each root; roots may be nested
  Models,      \* embedding spaces
  BatchTarget, \* documents embedded in one call
  MaxEdits,    \* bound: changes of documents on disk
  MaxCrashes   \* bound: crashes of the process and panics of a build task

ASSUME StoreAssumption ==
  /\ Under \in [Roots -> SUBSET Docs]
  /\ BatchTarget \in Nat \ {0}
  /\ MaxEdits \in Nat /\ MaxCrashes \in Nat
  /\ Models # {}

VARIABLES
  \* what survives a crash
  disk,      \* the version of each document, 0 when it does not exist
  dir,       \* the index directory, with the file an open connection keeps
  jobs,      \* the journal's rows
  lastJob,   \* AUTOINCREMENT
  selected,  \* the model the settings name
  \* the process
  opened,    \* the file each connection outside the build has open
  embedder,  \* whether the context has one
  watched,   \* the directory being watched
  loading,   \* what a restore has read and not installed yet
  journalOpen,
  build,     \* the build task
  flag,      \* its cancel flag, as far as the task still reads it
  opener,    \* a reader's recovery between its look and its act
  deleted,   \* auxiliary: all of it was deleted since the last publication
  unclosed,  \* auxiliary: the jobs of this process whose row nobody closes
  edits, crashes

vars == <<disk, dir, jobs, lastJob, selected, opened, embedder, watched, loading,
          journalOpen, build, flag, opener, deleted, unclosed, edits, crashes>>

Versions == 0..(MaxEdits + 1)

(***************************************************************************)
(* A database file: the model of its vectors, a row per document (the      *)
(* version its text was extracted from, and the version its fingerprint    *)
(* was taken of) and root_files, the documents each root holds.            *)
(***************************************************************************)
NoRow  == [text |-> 0, id |-> 0]
Rows   == [text : Versions, id : Versions]
Files  == [model : Models, rows : [Docs -> Rows], held : SUBSET (Roots \X Docs)]
Empty(model) == [model |-> model, rows |-> [d \in Docs |-> NoRow], held |-> {}]

ASSUME NoneAssumption == None \notin Files

HeldUnder(db, root) == {d \in Docs : <<root, d>> \in db.held}

\* Rows no root refers to are deleted with the reference.
Swept(db) ==
  [db EXCEPT !.rows = [d \in Docs |->
     IF \E root \in Roots : <<root, d>> \in db.held THEN @[d] ELSE NoRow]]

\* The fingerprint is that of the file as it is when the row is written.
WriteFile(db, root, d, text) ==
  [db EXCEPT !.rows[d] = [text |-> text, id |-> disk[d]], !.held = @ \cup {<<root, d>>}]

RemoveFile(db, root, d) == Swept([db EXCEPT !.held = @ \ {<<root, d>>}])

\* A row moves with the references of every root; one at the destination is
\* deleted first.
RenameFile(db, old, new) ==
  [db EXCEPT !.rows = [@ EXCEPT ![new] = db.rows[old], ![old] = NoRow],
             !.held = {h \in @ : h[2] \notin {old, new}}
                        \cup {<<root, new>> : root \in {r \in Roots : <<r, old>> \in @}}]

DeleteRoot(db, root) == Swept([db EXCEPT !.held = {h \in @ : h[1] # root}])

MergeRootFrom_EveryRoot(db, source, root, membership) ==
  LET docs == HeldUnder(source, root)
      kept == IF membership = "authoritative" THEN {} ELSE db.held
  IN  Swept([db EXCEPT
        !.held = kept \cup ({root} \X docs),
        !.rows = [d \in Docs |-> IF d \in docs THEN source.rows[d] ELSE @[d]]])
MergeRootFrom(db, source, root, membership) ==
  LET docs == HeldUnder(source, root)
      kept == IF membership = "authoritative" THEN {h \in db.held : h[1] # root} ELSE db.held
  IN  Swept([db EXCEPT
        !.held = kept \cup ({root} \X docs),
        !.rows = [d \in Docs |-> IF d \in docs THEN source.rows[d] ELSE @[d]]])

(***************************************************************************)
(* The directory. What "live" stands for is its file with the write-ahead  *)
(* log beside it, "main" is that file without the log: a commit reaches it *)
(* with a checkpoint, and when the last connection closes. "unlinked" is   *)
(* the file a build still reads although it was deleted; a connection of   *)
(* the context's can outlive its file too ("gone"), but what it reads then *)
(* matters to no other part.                                               *)
(***************************************************************************)
Names == {"live", "main", "backup", "tmp", "unlinked"}

\* A file renamed into the place of the live one brings no log.
InPlace(db) == [dir EXCEPT !.live = db, !.main = db, !.backup = None]

\* recover_interrupted_index_replacement, which every open runs first. A
\* replacement that was renamed into place is whole; RollBackReplacement is
\* about a check that fails all the same.
Recovered_KeepsBackup ==
  IF dir.backup # None /\ dir.live = None THEN InPlace(dir.backup) ELSE dir
Recovered ==
  IF dir.backup = None THEN dir
  ELSE IF dir.live = None THEN InPlace(dir.backup)
  ELSE [dir EXCEPT !.backup = None]

\* The file a connection has open, after the file of one name was renamed to
\* another (which loses the file that had that name) or removed.
Users == {"context", "restore", "build"}
Renamed(from, to) ==
  [u \in Users |-> CASE opened[u] = from -> to [] opened[u] = to -> "gone"
                      [] OTHER -> opened[u]]
Removed(name) == [u \in Users |-> IF opened[u] = name THEN "gone" ELSE opened[u]]

OpenedAfterRecovery ==
  IF dir.backup = None THEN opened
  ELSE IF dir.live = None THEN Renamed("backup", "live") ELSE Removed("backup")

Opens(files, model) == files.live # None /\ files.live.model = model

Idle == [pc |-> "idle"]

\* A transaction on the live database. While somebody has that open, the commit
\* may stay in the log.
InUse(users) ==
  (\E u \in Users : users[u] = "live") \/ (build.pc = "work" /\ build.source = "live")
Committed(files, users, db) ==
  {[files EXCEPT !.live = db, !.main = main] :
     main \in {db} \cup (IF InUse(users) THEN {files.main} ELSE {})}

Places == {"begun", "recorded", "work", "publish", "aside", "bare", "in", "reopen", "return",
           "attach", "attached"}

ISTypeOK ==
  /\ disk \in [Docs -> Versions]
  /\ dir \in [Names -> Files \cup {None}]
  /\ jobs \in Journals
  /\ lastJob \in 0..MaxJobs
  /\ selected \in Models
  /\ opened \in [Users -> {"no", "live", "backup", "gone"}]
  /\ embedder \in BOOLEAN
  /\ watched \in Roots
  /\ loading \in [model : Models, semantic : BOOLEAN, placed : BOOLEAN] \cup {None}
  /\ journalOpen \in BOOLEAN
  /\ build = Idle \/ build \in
       [pc : Places, root : Roots, model : Models, whole : BOOLEAN, job : JobIds,
        source : {"no", "live", "unlinked"}, todo : SUBSET Docs, pend : SUBSET Docs,
        queue : [Docs -> Versions],
        said : [Docs -> Outcomes \cup {"no"}],
        stopped : BOOLEAN, failed : BOOLEAN, ok : BOOLEAN, saved : BOOLEAN]
  /\ flag \in BOOLEAN
  /\ opener \in {"idle", "restore", "finish"}
  /\ deleted \in BOOLEAN
  /\ unclosed \in SUBSET JobIds
  /\ edits \in 0..MaxEdits /\ crashes \in 0..MaxCrashes

\* An earlier session may have left an index of some root.
Left(model, root) ==
  [model |-> model, held |-> {root} \X Under[root],
   rows  |-> [d \in Docs |-> IF d \in Under[root] THEN [text |-> 1, id |-> 1] ELSE NoRow]]

ISInit ==
  /\ disk = [d \in Docs |-> 1]
  /\ \E live \in {None} \cup {Left(model, root) : model \in Models, root \in Roots} :
       dir = [name \in Names |-> IF name \in {"live", "main"} THEN live ELSE None]
  /\ jobs = << >>
  /\ lastJob = 0
  /\ selected \in Models
  /\ opened = [u \in Users |-> "no"] /\ embedder = FALSE
  /\ watched \in Roots /\ loading = None
  /\ journalOpen = FALSE
  /\ build = Idle /\ flag = FALSE
  /\ opener = "idle" /\ deleted = FALSE /\ unclosed = {}
  /\ edits = 0 /\ crashes = 0

(***************************************************************************)
(* Starting a build: of the whole root, of what the root's last job left   *)
(* pending (continue_index_job), or of what it failed on                   *)
(* (retry_failed_documents). The journal is opened on first use and then   *)
(* adopts what a dead process left running. A cancel may have come while   *)
(* the root was walked: the job is begun all the same, and the canceller   *)
(* found none to close.                                                    *)
(***************************************************************************)
Journal_NeverAdopts == jobs
Journal == IF journalOpen THEN jobs ELSE AdoptOrphanedJobs(jobs)

Begin(root, model, scope, whole, continues) ==
  /\ build.pc = "idle"
  /\ lastJob < MaxJobs
  /\ lastJob' = lastJob + 1
  /\ journalOpen' = TRUE
  /\ jobs' = BeginContinuing(Journal, lastJob + 1, root, scope, continues)
  /\ flag' \in BOOLEAN
  /\ unclosed' = IF flag' THEN unclosed \cup {lastJob + 1} ELSE unclosed
  /\ build' = [pc |-> "begun", root |-> root, model |-> model, whole |-> whole,
               job |-> lastJob + 1, source |-> "no", todo |-> scope, pend |-> {},
               queue |-> [d \in Docs |-> 0],
               said |-> [d \in Docs |-> IF d \in scope THEN "Pending" ELSE "no"],
               stopped |-> FALSE, failed |-> FALSE, ok |-> FALSE, saved |-> FALSE]
  /\ UNCHANGED <<disk, dir, selected, opened, embedder, watched, loading, opener, deleted,
                 edits, crashes>>

BuildWhole(root, model) ==
  Begin(root, model, {d \in Under[root] : disk[d] # 0}, TRUE, 0)

BuildRest(root, model, outcome) ==
  /\ JobsOf(Journal, root) # {}
  /\ LET job  == Latest(Journal, root)
         rest == WithOutcome(Journal, job, outcome)
     IN  rest # {} /\ Begin(root, model, rest, FALSE, job)
ContinueJob(root, model) == BuildRest(root, model, "Pending")
RetryFailed(root, model) == BuildRest(root, model, "Failed")

(***************************************************************************)
(* The build. It reports each document's outcome to the journal.           *)
(***************************************************************************)
\* What a step of the build leaves alone besides what it says itself.
Untouched == UNCHANGED <<disk, lastJob, selected, embedder, watched, loading, journalOpen,
                         flag, opener, unclosed, edits, crashes>>
Elsewhere == Untouched /\ UNCHANGED deleted

\* From here on a canceller knows which job it has to close.
RecordJob ==
  /\ build.pc = "begun"
  /\ build' = [build EXCEPT !.pc = "recorded"]
  /\ UNCHANGED <<dir, jobs, opened>> /\ Elsewhere

\* The model cannot be installed or loaded.
InstallFails ==
  /\ build.pc = "recorded"
  /\ build' = [build EXCEPT !.pc = "return"]
  /\ UNCHANGED <<dir, jobs, opened>> /\ Elsewhere

\* A reader that found the backup of an earlier replacement is assumed to be
\* done with it by now. An index that cannot be opened is not reused.
OpenStore ==
  /\ build.pc = "recorded" /\ opener = "idle"
  /\ dir' = [Recovered EXCEPT !.tmp = Empty(build.model)]
  /\ opened' = OpenedAfterRecovery
  /\ \E source \in {"no"} \cup (IF Opens(Recovered, build.model) THEN {"live"} ELSE {}) :
       build' = [build EXCEPT !.pc = "work", !.source = source]
  /\ UNCHANGED jobs /\ Elsewhere

\* The extracted documents that wait for their batch to be embedded.
Queued    == {d \in Docs : build.queue[d] # 0}
BatchFull == Cardinality(Queued) >= BatchTarget
Emptied   == [d \in Docs |-> 0]

\* Raised before a document is looked at, or a batch embedded.
StopSeen ==
  /\ build.pc = "work" /\ flag
  /\ build.todo # {} \/ build.pend # {} \/ Queued # {}
  /\ build' = [build EXCEPT !.stopped = TRUE, !.pc = "publish"]
  /\ UNCHANGED <<dir, jobs, opened>> /\ Elsewhere

\* Pass 1. A row is reused when its fingerprint is the file's.
Reusable(d) ==
  /\ build.source # "no"
  /\ disk[d] # 0
  /\ dir[build.source].rows[d].id = disk[d]

Reuse_OnlyTold(d) ==
  /\ build.pc = "work" /\ ~flag /\ d \in build.todo /\ Reusable(d)
  /\ jobs' = NoteOutcome(jobs, build.job, d, "Reused")
  /\ build' = [build EXCEPT !.todo = @ \ {d}, !.said[d] = "Reused"]
  /\ UNCHANGED <<dir, opened>> /\ Elsewhere
Reuse(d) ==
  /\ build.pc = "work" /\ ~flag /\ d \in build.todo /\ Reusable(d)
  /\ dir' = [dir EXCEPT !.tmp = WriteFile(@, build.root, d, dir[build.source].rows[d].text)]
  /\ jobs' = NoteOutcome(jobs, build.job, d, "Reused")
  /\ build' = [build EXCEPT !.todo = @ \ {d}, !.said[d] = "Reused"]
  /\ UNCHANGED opened /\ Elsewhere

Read(d) ==
  /\ build.pc = "work" /\ ~flag /\ d \in build.todo /\ ~Reusable(d)
  /\ build' = [build EXCEPT !.todo = @ \ {d}, !.pend = @ \cup {d}]
  /\ UNCHANGED <<dir, jobs, opened>> /\ Elsewhere

\* Pass 3. The text is extracted now and written with its batch.

Extracting(d) ==
  build.pc = "work" /\ ~flag /\ build.todo = {} /\ d \in build.pend /\ ~BatchFull

Extract(d) ==
  /\ Extracting(d) /\ disk[d] # 0
  /\ build' = [build EXCEPT !.pend = @ \ {d}, !.queue[d] = disk[d]]
  /\ UNCHANGED <<dir, jobs, opened>> /\ Elsewhere

ExtractYieldsNothing(d) ==
  /\ Extracting(d)
  /\ \E outcome \in IF disk[d] = 0 THEN {"Failed"} ELSE {"Empty", "Failed"} :
       /\ jobs' = NoteOutcome(jobs, build.job, d, outcome)
       /\ build' = [build EXCEPT !.pend = @ \ {d}, !.said[d] = outcome]
  /\ UNCHANGED <<dir, opened>> /\ Elsewhere

Flushing ==
  /\ build.pc = "work" /\ build.todo = {}
  /\ Queued # {}
  /\ BatchFull \/ build.pend = {}

\* Each file of the batch is written on its own; one that is gone fails.
Flush ==
  /\ Flushing /\ ~flag
  /\ LET there == {d \in Queued : disk[d] # 0}
         said  == [d \in Docs |-> IF d \in there THEN "Indexed"
                                  ELSE IF d \in Queued THEN "Failed" ELSE build.said[d]]
         rows  == [d \in Docs |-> IF d \in there THEN [text |-> build.queue[d], id |-> disk[d]]
                                  ELSE dir.tmp.rows[d]]
         held  == dir.tmp.held \cup ({build.root} \X there)
     IN  /\ dir' = [dir EXCEPT !.tmp = [@ EXCEPT !.rows = rows, !.held = held]]
         /\ jobs' = NoteOutcomes(jobs, build.job, Queued, said)
         /\ build' = [build EXCEPT !.queue = Emptied, !.said = said]
  /\ UNCHANGED opened /\ Elsewhere

\* The embedder refuses the batch: for these documents, or for good.
FlushFails ==
  /\ Flushing /\ ~flag
  /\ LET said == [d \in Docs |-> IF d \in Queued THEN "Failed" ELSE build.said[d]]
     IN  /\ jobs' = NoteOutcomes(jobs, build.job, Queued, said)
         /\ \E fatal \in BOOLEAN :
              build' = [build EXCEPT !.queue = Emptied, !.said = said, !.failed = fatal,
                                     !.pc = IF fatal THEN "publish" ELSE @]
  /\ UNCHANGED <<dir, opened>> /\ Elsewhere

\* The worker was killed: the batch ended, and its documents stay pending.
FlushStopped ==
  /\ Flushing
  /\ build' = [build EXCEPT !.stopped = TRUE, !.pc = "publish"]
  /\ UNCHANGED <<dir, jobs, opened>> /\ Elsewhere

LastDocument_DropsTail ==
  /\ build.pc = "work" /\ build.todo = {} /\ build.pend = {}
  /\ build' = [build EXCEPT !.pc = "publish"]
  /\ UNCHANGED <<dir, jobs, opened>> /\ Elsewhere
LastDocument ==
  /\ build.pc = "work" /\ build.todo = {} /\ build.pend = {} /\ Queued = {}
  /\ build' = [build EXCEPT !.pc = "publish"]
  /\ UNCHANGED <<dir, jobs, opened>> /\ Elsewhere

(***************************************************************************)
(* Publication. A build that did not look at every document of the root    *)
(* speaks only for those it finished.                                      *)
(***************************************************************************)
Membership_ForgetsStop == IF build.whole THEN "authoritative" ELSE "additive"
Membership ==
  IF build.stopped \/ build.failed \/ ~build.whole THEN "additive" ELSE "authoritative"

Succeeded == ~build.stopped /\ ~build.failed

NothingToAdd == Membership = "additive" /\ HeldUnder(dir.tmp, build.root) = {}

\* A build without a document to add must still find the index it added to.
PublishNothing ==
  /\ build.pc = "publish" /\ NothingToAdd
  /\ dir' = IF Succeeded THEN [Recovered EXCEPT !.tmp = None, !.unlinked = None]
            ELSE [dir EXCEPT !.tmp = None, !.unlinked = None]
  /\ opened' = IF Succeeded THEN OpenedAfterRecovery ELSE opened
  /\ \E ok \in {FALSE, Succeeded /\ Opens(Recovered, build.model)} :
       build' = [build EXCEPT !.pc = "return", !.source = "no", !.ok = ok]
  /\ UNCHANGED jobs /\ Elsewhere

\* An error of the temporary database, of its checks or of the merge's
\* transaction, or a panic of the thread that builds.
BuildFails ==
  /\ build.pc \in {"work", "publish"}
  /\ build' = [build EXCEPT !.pc = "return", !.source = "no"]
  /\ dir' = [dir EXCEPT !.unlinked = None]
  /\ UNCHANGED <<jobs, opened>> /\ Elsewhere

\* One transaction over the live database. What follows it may fail.
Merge ==
  /\ build.pc = "publish" /\ ~NothingToAdd /\ Opens(Recovered, build.model)
  /\ opened' = OpenedAfterRecovery
  /\ LET merged == MergeRootFrom(Recovered.live, dir.tmp, build.root, Membership)
     IN  dir' \in Committed([Recovered EXCEPT !.tmp = None, !.unlinked = None], opened', merged)
  /\ \E ok \in {FALSE, Succeeded} :
       build' = [build EXCEPT !.pc = "return", !.source = "no", !.saved = TRUE, !.ok = ok]
  /\ deleted' = FALSE
  /\ UNCHANGED jobs /\ Untouched

\* The live database could not be opened: there is none, it is another
\* model's, or whatever else went wrong (it is locked, of another schema,
\* damaged).
BeginReplacement ==
  /\ build.pc = "publish" /\ ~NothingToAdd
  /\ dir' = [Recovered EXCEPT !.unlinked = None]
  /\ opened' = OpenedAfterRecovery
  /\ build' = [build EXCEPT !.pc = "aside", !.source = "no"]
  /\ UNCHANGED jobs /\ Elsewhere

\* The log is deleted under whoever has it open: such a connection goes on
\* with a log of its own, unless all of that is in the file.
RemoveSidecars ==
  /\ build.pc = "aside" /\ dir.backup = None
  /\ dir' = [dir EXCEPT !.live = dir.main]
  /\ \/ opened' = Removed("live")
     \/ dir.live = dir.main /\ UNCHANGED opened
  /\ build' = [build EXCEPT !.pc = "bare"]
  /\ UNCHANGED jobs /\ Elsewhere

MoveAside_Removes ==
  /\ build.pc = "bare"
  /\ dir' = [dir EXCEPT !.live = None, !.main = None]
  /\ opened' = Removed("live")
  /\ build' = [build EXCEPT !.pc = "in"]
  /\ UNCHANGED jobs /\ Elsewhere
MoveAside ==
  /\ build.pc = "bare"
  /\ dir' = [dir EXCEPT !.live = None, !.main = None, !.backup = dir.main]
  /\ opened' = IF dir.live = dir.main THEN Renamed("live", "backup") ELSE Removed("live")
  /\ build' = [build EXCEPT !.pc = "in"]
  /\ UNCHANGED jobs /\ Elsewhere

MoveIn ==
  /\ build.pc = "in"
  /\ dir' = [dir EXCEPT !.live = dir.tmp, !.main = dir.tmp, !.tmp = None]
  /\ opened' = Removed("live")
  /\ build' = [build EXCEPT !.pc = "reopen", !.saved = TRUE]
  /\ deleted' = FALSE
  /\ UNCHANGED jobs /\ Untouched

\* The second rename fails: the first one is undone.
MoveInFails ==
  /\ build.pc = "in"
  /\ IF dir.backup # None
     THEN dir' = InPlace(dir.backup) /\ opened' = Renamed("backup", "live")
     ELSE UNCHANGED <<dir, opened>>
  /\ build' = [build EXCEPT !.pc = "return"]
  /\ UNCHANGED jobs /\ Elsewhere

Reopen ==
  /\ build.pc = "reopen"
  /\ dir' = Recovered
  /\ opened' = OpenedAfterRecovery
  /\ \E ok \in {FALSE, Succeeded /\ Opens(Recovered, build.model)} :
       build' = [build EXCEPT !.pc = "return", !.ok = ok]
  /\ UNCHANGED jobs /\ Elsewhere

(***************************************************************************)
(* The end of the task: a cancelled build tidies, a finished one is opened *)
(* and attached (finish_build_index), and the job is closed. A canceller   *)
(* that comes first has settled the build and closed its job, if that was  *)
(* recorded; one that comes later changes nothing here.                    *)
(***************************************************************************)
Cancelled(state) ==
  /\ build.pc \notin {"idle", "attach", "attached"} /\ ~flag
  /\ flag' = TRUE
  /\ IF build.pc = "begun"
     THEN UNCHANGED jobs /\ unclosed' = unclosed \cup {build.job}
     ELSE jobs' = Finish(jobs, build.job, state) /\ UNCHANGED unclosed
  /\ UNCHANGED <<disk, dir, lastJob, selected, opened, embedder, watched, loading,
                 journalOpen, build, opener, deleted, edits, crashes>>
Cancel_UnknownState == Cancelled("Stopped")
Cancel == Cancelled("Cancelled")

Ended == build.pc = "return" /\ build' = Idle
TaskLeaves == UNCHANGED <<disk, lastJob, loading, journalOpen, flag, opener, deleted, edits,
                          crashes>>
NotAttached == UNCHANGED <<selected, embedder, watched, unclosed>> /\ TaskLeaves

EndCancelled ==
  /\ Ended /\ flag
  /\ dir' = [dir EXCEPT !.tmp = None]
  /\ UNCHANGED <<jobs, opened>> /\ NotAttached

EndFailed ==
  /\ Ended /\ ~flag /\ ~build.ok
  /\ jobs' = Finish(jobs, build.job, "Failed")
  /\ UNCHANGED <<dir, opened>> /\ NotAttached

\* What was published cannot be opened, or is gone again by now.
EndUnattached ==
  /\ Ended /\ ~flag /\ build.ok
  /\ dir' = Recovered
  /\ opened' = OpenedAfterRecovery
  /\ jobs' = Finish(jobs, build.job, "Failed")
  /\ NotAttached

\* The embedder and the index have a lock each.
AttachEmbedder ==
  /\ build.pc = "return" /\ ~flag /\ build.ok /\ Opens(Recovered, build.model)
  /\ dir' = Recovered
  /\ opened' = [OpenedAfterRecovery EXCEPT !["build"] = "live"]
  /\ embedder' = TRUE
  /\ build' = [build EXCEPT !.pc = "attach"]
  /\ UNCHANGED <<jobs, selected, watched, unclosed>> /\ TaskLeaves

AttachIndex ==
  /\ build.pc = "attach"
  /\ opened' = [opened EXCEPT !["context"] = opened["build"], !["build"] = "no"]
  /\ watched' = build.root
  /\ build' = [build EXCEPT !.pc = "attached"]
  /\ UNCHANGED <<dir, jobs, selected, embedder, unclosed>> /\ TaskLeaves

\* The settings are written, then the job is closed.
EndAttached ==
  /\ build.pc = "attached" /\ build' = Idle
  /\ selected' = build.model
  /\ jobs' = Finish(jobs, build.job, "Completed")
  /\ UNCHANGED <<dir, opened, embedder, watched, unclosed>> /\ TaskLeaves

\* The task panics after its build returned. Its row stays as it is, unless a
\* cancel comes before the next start and before the task claimed its end.
Panic ==
  /\ build.pc \in {"return", "attach", "attached"}
  /\ crashes < MaxCrashes
  /\ crashes' = crashes + 1
  /\ build' = Idle
  /\ opened' = [opened EXCEPT !["build"] = "no"]
  /\ jobs' \in {jobs} \cup (IF build.pc = "return" /\ ~flag
                            THEN {Finish(jobs, build.job, "Cancelled")} ELSE {})
  /\ unclosed' = unclosed \cup {build.job}
  /\ UNCHANGED <<disk, dir, lastJob, selected, embedder, watched, loading, journalOpen, flag,
                 opener, deleted, edits>>

(***************************************************************************)
(* The rest of the context.                                                *)
(***************************************************************************)
NoDeletion == UNCHANGED <<disk, lastJob, flag, opener, unclosed, edits, crashes>>
BuildAside == NoDeletion /\ UNCHANGED deleted

\* Reading the index back: activate_semantic_from_disk with an embedder,
\* activate_index_from_disk without. Loading takes many awaits; only the second
\* looks again before it installs what it loaded.
RestoreLoads(semantic) ==
  /\ loading = None
  /\ opened["context"] = "no" \/ (semantic /\ ~embedder)
  /\ Opens(Recovered, selected)
  /\ dir' = Recovered
  /\ opened' = [OpenedAfterRecovery EXCEPT !["restore"] = "live"]
  /\ loading' = [model |-> selected, semantic |-> semantic, placed |-> FALSE]
  /\ UNCHANGED <<jobs, selected, embedder, watched, journalOpen, build>> /\ BuildAside

\* The embedder and the index have a lock each.
RestoreEmbedder ==
  /\ loading # None /\ loading.semantic /\ ~loading.placed
  /\ embedder' = TRUE
  /\ loading' = [loading EXCEPT !.placed = TRUE]
  /\ UNCHANGED <<dir, jobs, selected, opened, watched, journalOpen, build>> /\ BuildAside

RestoreInstalls ==
  /\ loading # None /\ (loading.semantic => loading.placed)
  /\ loading' = None
  /\ IF loading.semantic \/ opened["context"] = "no"
     THEN opened' = [opened EXCEPT !["context"] = opened["restore"], !["restore"] = "no"]
     ELSE opened' = [opened EXCEPT !["restore"] = "no"]
  /\ selected' = IF loading.semantic THEN loading.model ELSE selected
  /\ UNCHANGED <<dir, jobs, embedder, watched, journalOpen, build>> /\ BuildAside

\* The watcher's updates go to the file the context has open.
Watched(d) ==
  opened["context"] \in {"live", "backup"} /\ embedder /\ d \in Under[watched]
ContextDb == dir[opened["context"]]
Updates(db) ==
  /\ IF opened["context"] = "live" THEN dir' \in Committed(dir, opened, db)
     ELSE dir' = [dir EXCEPT !.backup = db]
  /\ UNCHANGED <<jobs, selected, opened, embedder, watched, loading, journalOpen, build>>
  /\ BuildAside

WatchWrite(d) ==
  /\ Watched(d) /\ disk[d] # 0
  /\ ContextDb.rows[d].id # disk[d] \/ <<watched, d>> \notin ContextDb.held
  /\ Updates(WriteFile(ContextDb, watched, d, disk[d]))

WatchRemove(d) ==
  /\ Watched(d) /\ disk[d] = 0 /\ <<watched, d>> \in ContextDb.held
  /\ Updates(RemoveFile(ContextDb, watched, d))

\* A file that is gone was matched with one that is there by its fingerprint in
\* the metadata cache (DirectoryUpdates); the index is not asked.
WatchRename(old, new) ==
  /\ Watched(new) /\ disk[old] = 0 /\ disk[new] # 0
  /\ ContextDb.rows[old] # ContextDb.rows[new]
  /\ Updates(RenameFile(ContextDb, old, new))

\* delete_index of one root: its coverage, then its history.
DeleteCoverage(root) ==
  /\ Recovered.live # None
  /\ HeldUnder(Recovered.live, root) # {} \/ JobsOf(Journal, root) # {}
  /\ opened' = OpenedAfterRecovery
  /\ dir' \in Committed(Recovered, opened', DeleteRoot(Recovered.live, root))
  /\ journalOpen' = TRUE
  /\ jobs' = ForgetRoot(Journal, root)
  /\ UNCHANGED <<selected, embedder, watched, loading, build>> /\ BuildAside

\* delete_index of everything: the index is detached, its file removed without
\* a recovery, and the history cleared. A build goes on reading the file.
DeleteAll ==
  /\ dir.live # None
  /\ dir' = [dir EXCEPT !.live = None, !.main = None,
               !.unlinked = IF build.pc = "work" /\ build.source = "live" THEN dir.live ELSE @]
  /\ build' = IF build.pc = "work" /\ build.source = "live"
              THEN [build EXCEPT !.source = "unlinked"] ELSE build
  /\ opened' = [Removed("live") EXCEPT !["context"] = "no"] /\ embedder' = FALSE
  /\ journalOpen' = TRUE /\ jobs' = << >>
  /\ deleted' = TRUE
  /\ UNCHANGED <<selected, watched, loading>> /\ NoDeletion

\* With no file to remove it fails half way: the index is detached and the
\* history stays.
DeleteMissing ==
  /\ dir.live = None /\ opened["context"] # "no"
  /\ opened' = [opened EXCEPT !["context"] = "no"] /\ embedder' = FALSE
  /\ UNCHANGED <<dir, jobs, selected, watched, loading, journalOpen, build>> /\ BuildAside

\* A reader of the index (coverage, status) recovers first: it looks at what
\* exists, and acts on it later.
ReaderAside == UNCHANGED <<disk, jobs, lastJob, selected, embedder, watched, loading, journalOpen,
                           build, flag, deleted, unclosed, edits, crashes>>

OpenerLooks ==
  /\ opener = "idle" /\ dir.backup # None
  /\ opener' = IF dir.live = None THEN "restore" ELSE "finish"
  /\ UNCHANGED <<dir, opened>> /\ ReaderAside

OpenerActs ==
  /\ opener # "idle"
  /\ opener' = "idle"
  /\ dir' = IF opener = "restore" /\ dir.backup # None THEN InPlace(dir.backup)
            ELSE [dir EXCEPT !.backup = None]
  /\ opened' = IF dir.backup = None THEN opened
               ELSE IF opener = "restore" THEN Renamed("backup", "live") ELSE Removed("backup")
  /\ ReaderAside

\* Or it cannot check the replacement it finds and goes back to the backup.
RollBackReplacement ==
  /\ dir.live # None /\ dir.backup # None
  /\ dir' = InPlace(dir.backup)
  /\ opened' = Renamed("backup", "live")
  /\ UNCHANGED opener /\ ReaderAside

Edit(d) ==
  /\ edits < MaxEdits
  /\ edits' = edits + 1
  /\ \E version \in {0, edits + 2} :
       version # disk[d] /\ disk' = [disk EXCEPT ![d] = version]
  /\ UNCHANGED <<dir, jobs, lastJob, selected, opened, embedder, watched, loading, journalOpen,
                 build, flag, opener, deleted, unclosed, crashes>>

\* The files and the databases stay as they are.
Crash ==
  /\ crashes < MaxCrashes
  /\ crashes' = crashes + 1
  /\ dir' = [dir EXCEPT !.unlinked = None]
  /\ opened' = [u \in Users |-> "no"] /\ embedder' = FALSE /\ loading' = None
  /\ journalOpen' = FALSE /\ build' = Idle /\ flag' = FALSE /\ opener' = "idle"
  /\ unclosed' = {}
  /\ watched' \in Roots
  /\ UNCHANGED <<disk, jobs, lastJob, selected, deleted, edits>>

Publishing ==
  \/ PublishNothing \/ BuildFails \/ Merge \/ BeginReplacement
  \/ RemoveSidecars \/ MoveAside \/ MoveIn \/ MoveInFails \/ Reopen

BuildStep ==
  \/ RecordJob \/ InstallFails \/ OpenStore \/ StopSeen \/ LastDocument
  \/ \E d \in Docs : Reuse(d) \/ Read(d) \/ Extract(d) \/ ExtractYieldsNothing(d)
  \/ Flush \/ FlushFails \/ FlushStopped
  \/ Publishing
  \/ EndCancelled \/ EndFailed \/ EndUnattached
  \/ AttachEmbedder \/ AttachIndex \/ EndAttached

ISNext ==
  \/ \E root \in Roots, model \in Models :
       BuildWhole(root, model) \/ ContinueJob(root, model) \/ RetryFailed(root, model)
  \/ BuildStep
  \/ Cancel \/ Panic
  \/ \E semantic \in BOOLEAN : RestoreLoads(semantic)
  \/ RestoreEmbedder \/ RestoreInstalls
  \/ \E root \in Roots : DeleteCoverage(root)
  \/ DeleteAll \/ DeleteMissing
  \/ \E d \in Docs : WatchWrite(d) \/ WatchRemove(d) \/ Edit(d)
  \/ \E old, new \in Docs : WatchRename(old, new)
  \/ OpenerLooks \/ OpenerActs \/ RollBackReplacement
  \/ Crash

ISSpec == ISInit /\ [][ISNext]_vars

(***************************************************************************)
(* Properties.                                                             *)
(***************************************************************************)
\* A build that merges into the index drops a document of its root only when it
\* looked at every document and settled this one without text (or the document
\* was not on disk when the root was walked): a stopped, failed or partial build
\* takes no coverage away (merge_root_from, RootMembership). A build that could
\* not open the index replaces it, and then keeps only what it holds itself.
OnlyVerdictsDrop ==
  [][\A root \in Roots, d \in Docs :
       /\ build.pc = "publish" /\ build'.pc \notin {"idle", "publish"}
       /\ dir.live # None /\ dir'.live # None
       /\ <<root, d>> \in dir.live.held /\ <<root, d>> \notin dir'.live.held
       => root = build.root /\ build.said[d] \in {"Empty", "Failed", "no"}]_vars

\* What a build reported as indexed or reused is in the index at the moment it
\* publishes, also when it was stopped or failed half way.
SavedIsHeld ==
  [][build # Idle /\ build' # Idle /\ ~build.saved /\ build'.saved =>
       \A d \in Docs : build.said[d] \in {"Reused", "Indexed"} =>
          /\ <<build.root, d>> \in dir'.live.held
          /\ dir'.live.rows[d] # NoRow]_vars

\* The index disappears only when all of it is deleted: through merges,
\* replacements, failed renames, recoveries and crashes one copy remains
\* (recover_interrupted_index_replacement).
OnlyDeletionLosesIndex ==
  [][Recovered.live # None => Recovered'.live # None \/ deleted']_vars

\* A replacement never finds the backup of an earlier one in its way.
NoLeftoverBackup == build.pc = "aside" => dir.backup = None

\* A job that is recorded as completed left no document pending, its own or
\* one it inherited (IndexJobJournal, has_remaining_work).
CompletedIsWhole ==
  \A j \in DOMAIN jobs : jobs[j].state = "Completed" => WithOutcome(jobs, j, "Pending") = {}

\* Once the journal is open, a row is recorded as running only for the build of
\* this process that nobody cancelled, or for one whose row has no one to close
\* it: it was cancelled before its job was recorded, or its task panicked. What
\* a dead process left running was adopted (adopt_orphaned_jobs).
RunningIsMine ==
  journalOpen => \A j \in DOMAIN jobs :
    jobs[j].state = "Running" => \/ build # Idle /\ build.job = j /\ ~flag
                                \/ j \in unclosed

(***************************************************************************)
(* Whatever its files go through, the store is one index that changes in   *)
(* whole steps.                                                            *)
(***************************************************************************)
Atomic == INSTANCE AtomicIndex WITH
  index    <- Recovered.live,
  filed    <- Recovered.main,
  previous <- IF dir.live # None THEN dir.backup ELSE None,
  fresh    <- dir.tmp
AtomicSpec == Atomic!Spec
=============================================================================
