# Wilkes: a TLA+ verification project

Wilkes is a desktop and server application that searches a directory of
documents: by text, by meaning (an embedding index) and by generated answers.
Its models run in separate worker processes that a supervisor starts, feeds and
kills; index builds take minutes to hours, can be cancelled, and publish a
SQLite database that searches read meanwhile. This directory models the parts of
that machinery where interleavings, kills, cancels and panics decide whether the
program is right, checks them with TLC on small instances and proves the core
safety properties with TLAPS for instances of every size.

Sources are cited as `crates/...` paths below `src/`.

## 1. Inventory

| Component | State it keeps | Operations | What is hard |
|---|---|---|---|
| **Worker supervision** `crates/core/src/worker/{manager,runtime,residency}.rs`, `process/` | per manager: seal flag, active process slot and pid, command channel (32); per loop: deferred commands, its own process, its permit; one semaphore per worker kind | `send`, `request_shutdown`, `seal`, `unseal`, `live_pid`; the loop's submit, restart, serve, clear, idle timeout; supervisor restart after a panic | stops from any thread against the loop's own clear; permits across workspaces; full channels; panics |
| **Worker pipe protocol** `process/unix.rs`, `crates/worker/src/main.rs`, `generate/worker.rs`, `worker/embedder.rs` | reply channels, the request in flight, stdin/stdout pipes, the worker's line queue, cancel flag and event queue | submit, listen, cancel, drop; forward, drain; dispatch, decode, complete | a cancel that names no request; a dropped receiver; two writers of one stdout |
| **Index build lifecycle** `crates/api/src/context.rs` | `embed_task`, `embed_cancel_in_progress`, seals, `BuildSettlement`, the job's row, the attached index | `start_build_index`, `start_download_model`, `cancel_embed`, the build and download tasks, watch, audit, `clear_embed_task`, `shutdown`, `delete_index` | start/cancel/end races; two parties announcing one verdict; late cleanups |
| **Index build and publication** `core/src/embed/index/db.rs` | live, temporary and backup databases; a row and a fingerprint per document, `root_files` per root | build passes and batches, additive or authoritative merge, replacement, recovery on open, in-place updates, deletion | crashes between renames; partial builds; roots that nest; readers that recover meanwhile; shared temporary files |
| **Index job journal** `core/src/embed/index/job.rs` | jobs, documents with stage and outcome | begin, continue, note, finish, adopt, forget, prune | orphaned jobs, continuation of an interrupted one, a journal deleted under a running build |
| **Directory watcher, semantic updater** `core/src/directory_watcher.rs`, `embed/index/semantic_updater.rs` | the debounced events, one task per batch, the metadata cache's fingerprints | classify, detect renames, re-key, remove, re-embed | batches run concurrently, against an index that may have been replaced; a rename is recognised by a cache that lags |
| **Topic tree cache and labels** `context.rs`, `embed/cluster.rs` | cached trees, the index revision, a build lock, cancel tokens | build, invalidate, cancel, label | stale results installed late; requests queued behind one lock |
| **Session restore** `context.rs`, `startup.rs` | saved settings | restore index and embedder | partial failure |
| **Completion** `core/src/completion.rs` | session steering, suppressed hits, caches | run, feedback, cancel | feedback of an earlier record applied later |
| **Acquisition, metadata cache, catalogue** `core/src/{acquire.rs,metadata/,catalogue/}` | the files of a root, fingerprinted entries, a mirror of each catalogue | download to a root, look up, replace a mirror's records | two downloads of one name, stale entries |
| **Workspace registry and relocation** `api/src/workspace.rs`, `workspace/relocation.rs` | the registry, a manifest and a directory per workspace, the active context and the others that are open, the plan of an adoption | start up, adopt an old library, create, ensure, open, switch, delete, restore | a startup cut short anywhere; operations that await a context's shutdown; directory and registry written one after the other |
| **Search** `core/src/search/` | none of its own | grep, semantic, hybrid fusion | cancellation; ranking |
| **Research store, integrations, agent/MCP, HTTP server, desktop shell, UI stores** | their own records and view state | handlers over the components above | late responses in the UI |
| **Extraction, inference engines, generation tasks, downloads, Python sidecar** | caches | data processing | out of a model checker's reach |

How they interact. Every open workspace is an `AppContext` with three
`WorkerManager`s (embed, generate, recognize). A build task calls the embedder
and recognizer, which submit to their managers and block on a reply channel; a
manager's loop writes one request at a time to its worker's stdin and forwards
the events it reads. All contexts of the process share one semaphore per worker
kind. `cancel_embed` raises the build's flag, seals and kills the managers'
workers, so that the build's requests are answered `Gone`, settles the build on
the task's behalf and leaves a watch and an audit behind. The index a finished
build publishes is attached to the context, where searches, the watcher and the
topic cache read it. The workspace manager owns the contexts: it brings up the
active one at startup, opens others on demand and closes them when a workspace is
switched to, deleted or replaced.

`PROJECT.json` lists the components with their status, the map from definitions
to source lines, and every hazard with the line where it bites.

## 2. Modules

| Module | Role |
|---|---|
| `WorkerManager` | managers of one worker kind, their loops, the permits they share, the processes and the shutdowns |
| `RequestService` | what the managers promise their callers: the abstract specification `WorkerManager` implements |
| `GenerationStream` | one live worker's pipes, its callers and their cancels |
| `BuildLifecycle` | builds and downloads of one context: start, end, cancel, watch, audit |
| `JobJournal` | the index job journal, as operators on a journal |
| `IndexStore` | the index on disk: a build's passes, publication, recovery, updates, deletion, restore, crashes; EXTENDS `JobJournal` |
| `AtomicIndex` | what the files amount to, one index that changes in whole steps: the abstract specification `IndexStore` implements |
| `TopicCache` | the cached topic tree, its revision and the requests for it |
| `DirectoryUpdates` | the watcher's batches against a live index that is replaced meanwhile; EXTENDS `TopicCache` and implements it |
| `LibraryAdoption` | startup: the registry, and the adoption of the library of an older release |
| `Workspaces` | the workspace manager and its contexts; EXTENDS `LibraryAdoption` |
| `BuildCallers` | `BuildLifecycle` under patient callers, who wait for a cancelled operation to wind down, or impatient ones; EXTENDS it |
| `MCWorkerManager`, `MCGenerationStream`, `MCBuildLifecycle`, `MCBuildCallers`, `MCIndexStore`, `MCLiveIndex`, `MCWorkspaces` | small instances for TLC |
| `WorkerManager_proofs`, `BuildLifecycle_proofs`, `GenerationStream_proofs`, `DirectoryUpdates_proofs` (with `TopicCache`'s), `IndexStore_proofs`, `IndexContents_proofs`, `LibraryAdoption_proofs`, `Workspaces_proofs` | the theorems |

Operators with a suffix (`Stop_Clones`, `Defer_Drops`, ...) stand before the
action they vary: they are the plausible bugs each property is shown to catch,
and no specification uses them.

### WorkerManager

`Submit`, `Seal`, `Unseal` and `RequestShutdown` are the handle's functions, on
any thread; `Stop` is `WorkerManager::stop`, with its detached shutdown
(`killers`) and its `try_send` that a full or closed channel drops. The loop's
place in the code is `pc`: `next` (in `next_command`), `clear` (awaiting its own
roof knock), `permit` (awaiting the semaphore), `spawn`, `write` and `serve` (in
`send_request`), and `panicked` until the supervisor restarts it. Steps between
two awaits are one action, `clear_active_worker` included; each await is a
boundary where every other actor may run. `NeedsRestart` is the process kind
(Rust worker or Python sidecar): within one manager that is all
`should_restart_worker` looks at. `slot` (which a stop takes) and `local` (what
the loop believes) are the two copies of the session the code keeps; that they
may disagree is where its hard behaviour lies.

A process is `up`, `eof` (its stdin closed) or `gone`. `WorkerDies` is the
operating system's. `Panic` drops what dropping the loop's future drops: its
permit, its queues, the session it was shutting down (killed on drop), but not
the session in the slot.

Abstractions: model hot swaps inside a process, `SetTimeout`, the status record,
the count of replacements and the end of the loop when its last handle goes are
left out. A request is submitted at most once and a process is used at most
once. `bornSealed`, `stops` and `panics` are history; `MaxFaults` bounds stops,
seals and panics together.

### RequestService

A request accepted by a manager waits in its queue, is begun in order, one at a
time, served while at most `Residents` are, and answered once. The queue is the
set of the requests waiting and `ahead` their order: those that were accepted
before a request and have not left. `WorkerManager` implements it under the
mapping at its end: a manager's `Line` is its deferred commands followed by its
channel, its queue are the requests in the line, where a shutdown is nobody's
request, and one request is ahead of another if it stands before it.

### GenerationStream

Callers submit, listen, cancel after a token (`sink(..).is_break()`), or drop
their receiver; the loop delivers cancels at once and defers requests; the
worker's stdin thread raises the flag and queues requests, the main thread lowers
the flag at dispatch and decodes; a printer task writes what is queued in
`event_tx`. `DecodePanics` is the path on which `main` writes the error itself:
a `JoinError` of the blocking decode, or any handler that returns an error.
Reply channels are unbounded in the model: a caller that listens always drains
its own, and the loop waits for nothing else of it. The worker and the manager
stay alive; their deaths are `WorkerManager`'s. A request's line is written in two
steps, because the pipe may be full (`unix.rs:161-174`): `BeginWrite` takes the stdin
lock, and the line is whole, and can be read, after `FinishWrite`. In between the loop
may take a command from its channel. One that is a cancel asks for the same lock
inside an arm of the `select!` that polls the write (`runtime.rs:419-431`), so that
from then on nobody polls the write: `write` is `stuck` and the loop takes no further
step. `cut` and `exposed` are history.

### BuildLifecycle

One record per operation of its start call (`start`), its task (`task`), its
cancel (`cancel`) and the audit left behind (`audit`); the context's state is
`handle` (`embed_task`), `cancelling` (`embed_cancel_in_progress`), `sealed` and
`attached`. A start is three steps, check, spawn, register, because awaits and
other threads come between them; a cancel is three, take, raise, settle, because
it runs on another thread than the task. `Calls` says how far callers wait:

- `concurrent`: not at all. Tauri commands and HTTP handlers run concurrently.
- `serial`: until every earlier start or cancel has returned (no run needs this
  one: it is between the others).
- `patient`: also until a cancelled task and its watch have ended. Nothing in
  the interface tells a caller when that is.

Abstractions: the three stores of `clear_embed_task` are one step (readers treat
either of the first two as busy); the flag, token and seals a cancel raises are
one step; closing a job in the journal succeeds, opening it may fail (the code
has a branch for that); the build future returns `ok` or `err` at any time.

`BuildCallers` decides once whether callers are patient and then takes the steps
of the instance of `BuildLifecycle` they call for, so that one run asks both
questions.

### JobJournal and IndexStore

A database file is a model of vectors, a row per document (the version its text
was extracted from and the version its fingerprint was taken of: the code hashes
the file when it writes the row, not when it reads the text) and `held`, the
table `root_files`. `dir` maps the names in the index directory to such files.
Two of them are the live index: `live` is what a connection reads, the file with its
write-ahead log, and `main` the file alone, which is what is renamed. A commit
reaches `main` at once or stays in the log while somebody has the database open
(`Committed`); a later checkpoint is the same as having it reach the file at the
commit. `opened` says which name each connection outside the build still refers
to after renames and removals, because an open SQLite connection follows the file
and not the name.

`BuildWhole`, `ContinueJob` and `RetryFailed` start a build of a root, of what
its last job left pending, or of what it failed on: `Begin` is `begin_job`, and
`RecordJob`, a step later, lets a canceller know the job. A cancel that came before
finds no job to close. `OpenStore` opens the index to reuse rows from, or fails to.
`Reuse`, `Read`, `Extract`, `Flush` and `LastDocument` are the build's passes;
`StopSeen`, `FlushStopped`, `FlushFails` and `BuildFails` its early ends.
`Membership` decides whether it speaks for the whole root. `Merge` is one SQLite
transaction. A build that cannot open the live index, for whatever reason, replaces
it, also when it was stopped, failed or had only part of the root:
`BeginReplacement`, `RemoveSidecars` (the log is deleted, and with it what was not
in the file), `MoveAside`, `MoveIn` and `Reopen`, with a crash possible between
any two. `Recovered` is what opening the index makes of the directory first.
`OpenerLooks` and `OpenerActs` are a reader's recovery, which looks and acts in two
steps, and `RollBackReplacement` one whose check of the new file fails.

`AttachEmbedder`, `AttachIndex` and `EndAttached` are `finish_build_index`: embedder
and index have a lock each. The other `End...` are the task's other ends, `Cancel`
the canceller that settles it, and `Panic` a task that panics after its build
returned. `RestoreLoads`, `RestoreEmbedder` and `RestoreInstalls` read an index back
at startup or on demand, `Watch...` are the in-place updates (a rename changes the
rows of every root), `Delete...` the three outcomes of `delete_index`, `Crash` the
end of the process. `unclosed` is history: the jobs of this process whose row has no
one to close it.

Assumptions: one build runs at a time (`BuildLifecycle` says when that is so); a
reader that found a backup has finished with it before the next build opens the
store (`OpenStore`'s guard), since without it a recovery that decided to restore
may act after the next replacement; files are compared by version, so a
fingerprint never collides.

### AtomicIndex

What the files amount to: the `index` the next opener finds, what of it is `filed`,
that is in its file and not in a log only, and the `previous` one while a replacement
is not settled. A build's database takes the index's place whole (`Replace`, of any
model); or one root's share of the index changes, or a row is renamed in every root
(`Update`); the log may be lost to a replacement (`LoseLog`); the previous index is
settled or comes back.

### TopicCache and DirectoryUpdates

`TopicCache` keeps of the index only how many changes it went through and of a
tree how many of those it surely holds. `Bump` and `Clear` are the two steps of
`invalidate_topic_tree_cache`; a request loads the revision, looks at the slot,
queues for the build lock, looks again, clones the index handle, clusters, and
installs only if the revision is still the one it began with, or starts over.

`DirectoryUpdates` has the files on disk, the events the debouncer has not
delivered, the fingerprints of the metadata cache (`known`), the rows of each index
file, and a record per running batch. The rows of the context's index have three
writers: the watcher's batches; builds of the same model, which merge into the file
the context reads and may then end without being attached (`BuildMerges`); and the
replacement or deletion (`Attach`, `Detach`), which may leave the file or bring
another. `Deliver` sorts what it
reports by what is on disk at that time. `Detect`, `Rekey`, `Remove`, `DropGone`,
`Prepare` and `Write` follow `process_directory_change`: a batch works on the
index it took in `TakeIndex` whatever is attached later. Every operation of a batch may
fail, and is then logged and left at that: the look-up, the re-keying and the removal
in either store, the extraction, the write (`Detect`, `Rekey`, `Remove`, `Skip`,
`WriteFails`); or the batch as a whole (`Drop`: `activate_root` fails, no index or
embedder is there, the task panics). `unsure` is history: it names the files whose row
may be wrong for one of the reasons the comment of `QuietIsCurrent` lists.

### LibraryAdoption and Workspaces

`LAInit` is every library an older release can have left: no library, or entries
in the data directory, the configuration directory or both, roots in the
settings, and possibly an adoption that a release without upload paths had begun.
`start` is where the startup is and what it read; each of its writes is an action
of its own and `Stop` may come between any two, as a crash or as an error that
ends the startup. Uploaded documents are one of the entries, and the other
stores, the settings and the manifest name them by path (`stale`, `roots`).

`Workspaces` adds the manager. A task is an operation under way: `Create`,
`EnsureManagedWorkspace` and `EnsureSpace` write a manifest and then the registry
(`Register`) under the registry lock only; `Switch`, `Delete` and `Restore` take
`switch_lock` (`Locks`) and hold it across the shutdown of the context they close
(`closing`, ended by `ShutdownEnds`). `ContextFor` opens a context for a workspace
that is not active and `Import` fills its index. One owner application has one
managed corpus, with projections into one embedding space, and one backup, of the
corpus 0.

## 3. Runs

| Run | Instance | Shows |
|---|---|---|
| `worker_safety` | 2 managers, 3 requests (1 sidecar), 2 processes, channel 2, 1 permit, 2 faults (1,595,128 states) | `TypeOK`; `PermitFollowsWorker`: a loop holds a permit exactly while it starts, serves or stops a worker; `ResidentWorkers`: living workers are bounded over the managers, but for those a detached shutdown is ending and orphans of panics; `NoLeakedWorker`: every living process is used, stoppable or being ended; `OneShutdownEach`; `RequestsConserved`: a waiting request is in one place, an answered one in none; `SealAdmitsAtMostOne`; `ServiceSpec`: the refinement |
| `worker_live` | 2 managers, 2 requests, 2 processes, channel 1, 2 faults | `EverySubmitAnswered`, `SealDrains` |
| `streams` | 2 requests, 3 tokens, channel 2, 1 panic | `OwnStream`, `PipeAtBoundary` (no panic so far); `CutOnlyWhatWaited`: a cancel never reaches a request submitted after it; `StuckByStaleCancel`: the loop waits for itself only over a cancel posted by another caller while the request being written was waiting; `EveryStreamEnds`, panics included, unless the loop is stuck |
| `build_callers` | 2 builds with overlapping calls, or 1 build with another or a download and patient callers; 1 panic (1,211,477 states) | `TypeOK`, `SettledOnce`, `CancelledNeverAttached`, `JournalAgrees`, `CancelEnds` of both kinds of caller; `PatientRunOneAtATime`, `PatientCanCancel` |
| `index_store` | 2 documents, nested roots, 2 models, 2 jobs, history 1, batches of 2, 1 edit, 1 crash or panic (2,147,819 states) | `ISTypeOK`; `NoLeftoverBackup`; `OnlyDeletionLosesIndex`: a copy of the index survives everything but its deletion; `OnlyVerdictsDrop`: a merge takes coverage away only where the build found no text; `SavedIsHeld`: what was reported indexed is published; `CompletedIsWhole`; `RunningIsMine`: a row is running for the build under way, or for one nobody is left to close; `AtomicSpec`: the refinement |
| `live_index` | 2 files, 2 batches, 2 topic requests, 3 revisions, 2 index files, 2 changes or merges (1,236,083 states) | `DUTypeOK`; `QuietIsCurrent`: once events and batches are over the rows are what is on disk, but for the reasons it names; `TreeIsFresh`: no tree is served that misses a change made before the invalidation its request found; `EveryTopicAnswered` |
| `workspaces` | libraries of 2 entries, 3 workspaces besides the backup's, 2 tasks, 2 crashes (1,563,036 states) | `WSTypeOK`; `NeverSplit` and `AdoptsWhole`: an old library ends up wholly in one workspace; `StartsAgain`: after any crash the application comes up; `OneContextEach`; `NamesManifests`: a registered workspace has its manifest |
| `worker_permit` | as `worker_safety`, 1 fault | refutes `PermitUntilDeath` |
| `stale_cancel` | 2 requests, no panic | refutes `CutOnlyOnRequest` |
| `residue` | 2 requests, 1 panic | refutes `NoResidue` |
| `open_job` | 1 build | refutes `EndedJobIsClosed` |
| `lost_active` | as `workspaces` | refutes `RegistryLoads` |

Why the bounds are enough.

- *Workers.* Two managers are what a permit is shared by; three requests give a
  queue behind a request in flight, one of them of the other process kind, which
  forces a restart; two processes give a worker and its replacement, or one of
  each manager. A channel of one or two fills, so dropped stops and cancels
  happen. Two faults are a stop with its seal or a panic, in any pair. A panic
  with an orphan left in the slot, and its replacement at the next spawn, needs
  one panic and two processes.
- *Streams.* Two requests are a request and the next one on the same pipe, which
  is all `send_request`'s boundary is about, and all it takes for a cancel of the one
  to find the other being written. A cancel that a full channel drops
  costs nothing here but tokens nobody hears, since a decode ends by itself after its
  last token: `EveryStreamEnds` says that it ends, not how soon.
- *Builds.* Two builds are one cancelled and the next one; one download suffices
  because downloads leave no settlement behind.
- *Index.* Two documents and a batch of two give a full batch, a partly filled
  one, and a document that is settled while the other is pending. `r2` is below
  `r1`, so a row is held by both, by one, or by none. Two models give the merge
  and the replacement. Two jobs with a history of one give a continuation and a
  pruned row. `EitherCase` splits the instance in three: both roots and both models,
  with one build beside what an earlier session left; no build, and documents that
  change; or the outer root and one model, with up to two builds and a change, a
  crash or a panic. What the cases have in common, that a row is shared between roots
  while documents change, the merge and the deletion treat row by row. A log with
  commits that are not in the file occurs in the first two, where there is one root
  or no build. A crash in the middle of a replacement, its recovery by a reader
  during the next build, and a restore that loaded before a replacement and installs
  during it all fit into these. The theorems of section 5 have none of these bounds.
- *Live index.* Two files are a rename's two ends, and one renamed over the
  other; two changes are a rename and an edit of either end; two batches are the
  split of one rename's events. `EitherCase` asks separately for the updates
  alone, with merges, as long as one file is sure; with one file, for a change or a
  merge beside one request or beside a replacement; and with that file unchanged for
  both requests beside replacements that keep its row: a request touches the index
  only through the revision, the cache and the count of changes, and
  `ImplementsTopicCache` is proved without bounds. Two invalidations let a request
  lose two trees and build a third; a third one is for the batches.
- *Workspaces.* Two entries are uploads and one store that refers to them. Two
  crashes interrupt an adoption and its continuation. Operations that take
  `switch_lock` exclude each other, and those that create workspaces differ only
  in the registry lock they take per step, so one task of each sort is all that
  overlaps (`TwoSorts`). Three workspaces besides the backed-up corpus are the
  first one, a corpus and its projection.

Symmetry is used in safety runs only. A state constraint (`EitherCase`,
`CasesNext`) narrows a run to the cases above; in `live_index` a behaviour that
leaves the constraint is not followed, so that `EveryTopicAnswered` is a
statement about those that stay. No run checks for deadlock: a context in which
everything was asked for and answered is idle, a process that used up its
crashes may stay down, and a request that nobody makes need not come.

### What the five refutations say

1. **A permit may be released before its worker is dead** (`worker_permit`). A
   stop takes the session from the slot; the loop's `clear_active_worker` finds
   the slot empty, does not wait, and drops the permit while the detached
   shutdown is still in its grace. Another workspace's worker starts beside it.
   `ResidentWorkers` is what does hold: only those shutdowns, and the orphan of a
   loop that panicked, are beside the workers the permits are for.
2. **A cancel may cut the next request** (`stale_cancel`). A cancel carries no
   request. Posted as its request ends and delivered after the next one was
   dispatched, it stops that one. `CutOnlyWhatWaited` is what does hold: the
   victim was already waiting when the cancel was posted.
3. **A panicking decode leaves a residue** (`residue`). `main` prints the error
   directly while tokens are still queued for the printer task; the host takes
   the error for the request's end and the next request reads the tokens.
   Without a panic `OwnStream` holds.
4. **A cancel can leave a job open** (`open_job`). Settling before
   `record_job` closes nothing, and the task no longer may.
5. **A restore can unregister the active workspace** (`lost_active`).
   `restore_managed_workspace` replaces the first managed workspace of the
   application by the backup, which has another id, without asking whether it is
   the active one, as `delete` does. The registry it writes names an active
   workspace that is not in its list; `load_registry` refuses it from then on, at
   the next operation and at every later startup. `OnlyRestoresUnlist` (section 5)
   proves that no other step leads there.

### What was seen and is no property of a run

Each of these is reachable in the models, or was met while reading; no document
of the repository promises otherwise, or the model leaves the effect out.

- *Builds.* A start whose caller does not wait for the last cancel's watch may be
  wiped from `embed_task` by the watch's late `clear_embed_task`
  (`context.rs:8333`); `PatientCanCancel` holds of the others. Two starts that both
  pass the busy check run two builds. An audit that seals after the build's end
  leaves the seal on until the next clear.
- *Index.* The fingerprint of a row is taken when it is written (`db.rs:7249`), so
  a document that changes between its extraction and its batch has old text under
  the new fingerprint and is reused ever after. A
  crash before publication leaves a journal that says `Indexed` of documents no
  index has, and a continuation skips them. A merge writes a row it extracted
  earlier over a newer one of the watcher's, and nothing is invalidated for it until the
  build is attached, which a stopped or failed one never is. Retrying the failures of
  a stopped job forgets what that job had pending. Two builds would share
  `semantic_index.db.tmp`.
- *Replacement.* A build replaces the index on any error of opening it
  (`db.rs:5277-5286`), of its own model too, and also when it was stopped, failed half
  way or had a part of the root only: what it did not reach and other roots' coverage
  are gone then, where `db.rs:4960` says of a stopped build that the documents "it
  never reached keep whatever coverage they already had". `OnlyVerdictsDrop` is about
  merges. The log is deleted before the rename (`db.rs:5298`), so commits that were
  not in the file yet are lost (`LoseLog`), and the copy that `OnlyDeletionLosesIndex`
  keeps is the file without them.
- *Recovery.* `RollBackReplacement` takes a check of the new index that fails, for
  instance because the file is locked, for an incomplete replacement, and goes back
  to the old index although the build has been told it published. Left out are errors
  of recovery's own renames and removals, two openers of which one rolls back while
  the other restores, a log that is made anew between its removal and the rename,
  and what a connection whose log was deleted writes on a later checkpoint.
- *Searches.* The context keeps embedder and index under a lock each, both are stored
  one after the other (`context.rs:7955-7956`, `8807-8809`), and readers clone
  them separately; a download sets the embedder alone (`context.rs:8262`, not
  modelled). A query may thus be embedded by one model and looked up in an index of
  another. No property of the pair holds, and none is stated.
- *Panics.* A task that panics after its build returned leaves its row `Running`
  (`unclosed`). One that panics while its build's blocking thread runs would leave
  that thread running, which is not modelled.
- *Cancels.* A cancel that reaches the loop while it writes the next request's line
  makes it wait for the stdin lock its own write holds, if that write is pending at
  the time: a line longer than what the pipe has room for, or a task that used up its
  turn. Neither the request nor any later one is answered then, although
  `runtime.rs:409-411` means the channel to be served meanwhile. A stop kills the
  worker, but it waits for the same lock afterwards (`unix.rs:91`), and the loop stays
  where it is. `StuckByStaleCancel` bounds what leads there, `EveryStreamEnds` excepts
  it, and `EverySubmitAnswered` is about a manager without cancels: `WorkerManager`
  has none.
- *Restore.* `activate_semantic_from_disk` installs what it loaded without
  looking whether a build attached something since.
- *Watcher.* Two batches may hold the same file, and the older one may write last.
  The metadata cache may recognise a rename whose source the index never had. An
  `activate_root` that fails drops its batch with nothing but a log entry
  (`context.rs:5619-5627`), and no later batch makes up for it.
- *Acquisition.* A download checks that no other file has its name and writes
  later (`acquire.rs`); of two downloads at once the second replaces the first.
- *Topics.* Invalidation precedes the change, so a tree built between the two
  stays cached although it misses the change; `TreeIsFresh` says what is kept.
- *Workspaces.* A restore removes the directory it replaces before the copy is
  verified: if that fails, the registry names a workspace without manifest, and
  listing, deleting and ensuring stop at it (`torn`). Its check that the corpus is
  empty and an import that has the context already do not exclude each other, and
  an index it cannot read counts as empty. `ensure_managed_space` reads its
  parent before a deletion of it and writes a projection after. A library whose
  entries are all in the configuration directory, without roots in the settings,
  is not recognised.

## 4. Fairness

Weak fairness on each loop, task and detached shutdown: tokio schedules what is
ready. The write of a request goes on while the loop polls it, as the worker's stdin
thread keeps reading. A served request ends, because the worker answers or dies; a worker whose
stdin is closed exits or is killed after its grace. `Acquire` is strongly fair:
tokio's semaphore is first in, first out, so a manager that waits is admitted if
permits keep being released, and they are since an idle worker is cleared at its
timeout. Nothing forces a submit, a stop, a seal, a start, a cancel, a death or a
panic. `Unseal` is not fair either, so `SealDrains` is about seals that stay.

`LiveSpec` has weak fairness of each topic request's steps and of nothing else:
batches, replacements and cancels may stop anywhere. Weak fairness is enough for
the build lock because a request that waits is passed over only as often as the
other one wins, and revisions are bounded.

`Workspaces`' fairness is that of `StartUp` alone: the user starts the application
again and its startup runs by itself. `StartsAgain` excepts the states startup
refuses: an entry that exists in two places, and a registry that does not load.

`IndexStore` has no liveness property: a build is as slow as its embedder.

## 5. Proofs

All theorems are about the specification modules, for constants of every size
under their named assumptions.

`WorkerManager_proofs`, for any managers, requests and processes, any capacity
and any bound on the faults (`ConstantsAssumption`):

- `TypeCorrect`: `Spec => []TypeOK`.
- `PermitsFollow`: `Spec => []PermitFollowsWorker`. Not inductive alone: whether a
  loop at `clear` holds a permit depends on what it is closing. `LoopInv` adds
  `LoopShape`, which fixes `cur`, `local` and `closing` for each place of the loop.
- `ResidencyBounded`: at most `Residents` permits are held, by the permits changing
  by one release or by one admission below the bound (`PermitsChange`).
- `NoWorkerLeaks` and `ShutDownOnce`, together from `ProcInv`: the slot, if it names a
  process while the loop has one, names the same (`SlotShape`); what a loop or a
  shutdown holds was born (`HeldAreBorn`); and the two properties. Each is needed for the
  other: that no one else holds a process is why ending it leaks nothing.
- `WorkersBounded`: `ResidentWorkers`, from the invariants above: a living worker
  that no detached shutdown holds and no panic left behind is the one its
  manager uses or is shutting down, that manager has a permit, and no two workers
  have the same.
- `SealAdmitsOne`: from `SealInv`, a start under a seal is counted only in a
  loop that was past the check when the seal was raised.
- `RequestsAreConserved`: `RequestsConserved`, from `LineInv`: a caller waits
  exactly while its request stands in a line or is handled, and it stands at one
  index of one line and is then handled by nobody. The property counts places;
  `LineInv` says which two places may not be taken at once, which a step can keep.
  What a step does to the lines is said once (`NextLineStep`: they stay, one grows
  by one command at its end, one loses its first, one command moves from the
  channel to the deferred ones and so keeps its place, one line is dropped), and
  each of these keeps `LineInv`.
- `KeepsTheService`: `Spec => ServiceSpec`. Each of those effects is a step of
  `RequestService` or a stutter under the mapping, given `Handling` (the loop
  has a request in `cur` wherever the mapping shows one served) and
  `ResidencyBounded`, which is the guard of `Serve`.

`BuildLifecycle_proofs`, for any builds and downloads, any callers and any number
of panics (`LifecycleAssumption`):

- `TypeCorrect`: `Spec => []TypeOK`.
- `SettlementOnce`, `CancelledStaysOut` and `JournalTold`: `SettledOnce`,
  `CancelledNeverAttached` and `JournalAgrees`, all from `SettleInv` (theorem
  `Settlement`). None of the three is inductive: that the task is silent when the
  canceller spoke depends on who holds the claim. `TaskShape` says what a task
  has done by where it is, `ClaimShape` what has been said by whether it is
  settled and by whom (a settlement that is not the task's is the canceller's, and
  then the flag is up, so the task never attaches), `VerdictShape` what a verdict
  leaves in the journal. A step belongs to one operation (`Others`), so the
  invariant of each is kept if a step keeps its own (`StepKeeps`).
- `CallersImplementLifecycle`: `CallersSpec => Spec`, whichever callers
  `BuildCallers` has; so `CallersSettled`, the four properties above of both kinds
  of caller. `PatientNextSteps` shows that an instance with patient callers takes
  steps of the lifecycle whose starts and cancels wait.
- `PatientOneAtATime` and `PatientCancelReaches`: `PatientRunOneAtATime` and
  `PatientCanCancel`, from `ContextHeldOnce`. What is running is not enough for an
  invariant: an operation *holds* the context (`Holds`) from its call's check over
  its task to the end of its cancel, `PatientInv` says that one operation does at a
  time, and that the handle is its own unless it is not registered yet or is
  already being cancelled. A start is admitted when nothing holds the context
  (`Free`), which is what a patient caller's check amounts to.

`GenerationStream_proofs`, for any requests, channel capacity, length of a
generation and number of panics (`StreamAssumption`), from `GSInvariant`:

- `StreamsAreOwn` and `BoundaryIsClean`: `OwnStream` and `PipeAtBoundary`.
  `PipesInv` holds even when decodes panic: a request stands in the queues at most
  once, and before it owns the pipes (`QueueInv`); then it is on the worker's
  stdin, in its queue or being decoded, or its terminal event is in the pipe, and
  never two of these (`CustodyInv`). While no decode has panicked `StreamInv`
  adds what the pipe holds: `Pipe`, the printer's events after those written,
  continues what the caller was told (`Said`), token by token, and has the
  terminal event last (`Stream`). Passing an event from one stage to the
  next leaves `Pipe`, or `Said`, as it was (`Moved`).
- `CutsWhatWaited`: `CutOnlyWhatWaited`, panics included. `CancelInv` follows each
  cancel: every request ahead of it in the channel or on the worker's stdin, and
  every deferred one, was posted before it (`CancelsReach`), and the flag, when it
  is up during a decode, was raised by such a cancel.
- `StuckOnStale`: `StuckByStaleCancel`, from `WriteInv`: until its line is written
  nobody has heard of a request, so its own caller has not cancelled, and a cancel
  that is in the channel by then found the request waiting (`CancelInv`).

`IndexStore_proofs`, for any documents, roots, models, jobs, batches, edits and
crashes (`JournalAssumption`, `StoreAssumption`, `NoneAssumption`):

- `StoreTypeCorrect` and `ReplacementUnobstructed`: `ISTypeOK` and
  `NoLeftoverBackup`, from `StoreInv`. `FilesInv` says by the build's place which
  of the live, backup and temporary files exist, when a reader may be in the middle
  of a recovery, and that a reader which decided to drop the backup still finds a
  live file, or everything was deleted; and a live index has a file, with or without
  its log.
- `LostByDeletionOnly`: `OnlyDeletionLosesIndex`, step by step from `StoreInv`.
- `RunningMine` and `CompletedWhole`: `RunningIsMine` and `CompletedIsWhole`.
  `JournalInv` adds that no row is newer than `lastJob`, and `TaskInv` that a build's
  own row, as long as it is there, has nothing pending but what the build still has
  in `todo`, `pend` or its queue, which is empty when it succeeds. Of the rows that
  are still running without a build `RunningMine` says whose they are: a build's that
  was cancelled between `begin_job` and `record_job`, or whose task panicked.

`IndexContents_proofs`, from the same assumptions:

- `SavedHeld`, `VerdictsOnly` and `ImplementsAtomicIndex` (`ISSpec => AtomicSpec`).
  `ContentsInv` relates contents of files: the live file, with and without its log,
  and the backup have no row of a document that no root holds (`Tidied`); the
  temporary file holds what the build said it holds (`TmpFilled`); what the build has
  not settled is still before it (`PendingLeft`). Lemmas named `...Effect` state what
  a commit, a recovery, a replacement or a deletion does to the abstract index, as a
  step of `AtomicIndex` or as a stutter; those named `ContentsOf...` have a step for
  each action, and the refinement is their sum. That a rename is a step of the
  abstract index rests on `RenameMoves`, that a merge is on `Merging`.

`DirectoryUpdates_proofs` (`TopicAssumption`, `UpdatesAssumption`; finitely many
files):

- `ServedIsFresh` (`TreeIsFresh` of `TopicCache` by itself) from `CacheInv`,
  whose part `NewEnough` bounds below what a tree built at a revision holds: a
  request that cloned the index did so after it loaded its revision.
- `UpdatesTypeCorrect`: `DUTypeOK`; `ImplementsTopicCache`: a batch or a
  replacement changes the cache by steps of `TopicCache` only, so that
  `UpdatesServeFresh` follows from `ServedIsFresh`.
- `QuietCurrent`: `QuietIsCurrent`, from `Committed` (what a batch has prepared
  or re-keyed is accounted for), `WritesLive` (a batch that does not write to the
  live file leaves its files unsure) and `Current`, the property with its reasons.
  Merges, dropped batches and failed operations are steps of the specification like
  any other, each with a lemma or a case of its own that says for which files they
  make the row unsure, and that no other row changes.

`LibraryAdoption_proofs` and `Workspaces_proofs`, for any entries, workspaces,
tasks and crashes (`AdoptionAssumption`, `NoneIsNoId`, `NoneIsNoPlan`,
`NoneIsNoTask`, `NoneIsNoManifest`):

- `SplitOverNone` and `AdoptedAsAWhole`: `NeverSplit` and `AdoptsWhole`.
  `AdoptionInv` has four parts: the registry comes last, so that until it exists
  everything is still reached through the plan (`RegistryLast`); each entry of the
  first library is in one place or in the plan's workspace (`EntriesKept`); roots
  are in the settings, the plan or the manifest, by the right path
  (`RootsKept`); and what a startup has in memory agrees with the plan
  (`AdoptionKnows`). Manager steps keep it because they leave the library's files
  alone (`ManagerKeeps`).
- `ServedOnce`: `OneContextEach`. `ContextsInv` adds that a task past its decision
  holds `switch_lock`, so at most one context is being closed, and that a task
  about to install a workspace has retired its other context. One lemma,
  `TaskMoves`, covers every step of a task.

- `RegistryTypeCorrect` and `RegisteredHaveManifests`: `WSTypeOK`, with no id
  registered twice, and `NamesManifests`, from `ManifestsInvariant`. Neither is
  inductive: that appending an id repeats none, and that the manifest is there
  when it is appended, was decided steps earlier. `TaskInv` says what a task at
  each place knows of its workspaces (one about to be registered has its manifest
  and is not registered; those being erased no longer are), `OwnDraft` that no
  other task is about to register or erase it, and `RegistryInv` and `MakingInv`
  that every id in use was handed out (`made`), so that a new one is fresh.
- `OnlyRestoresUnlist`: the one step that makes a loadable registry unloadable is
  a restore's registration in the place of the active workspace; no switch,
  deletion or crash, in any order, is. Its invariant `ListedInv` says that a
  decision taken under `switch_lock` is still true at the write it leads to: what
  a switch installs is registered, and what a deletion removes is not active.

Only model-checked, because liveness under fairness is out of the prover's reach:
`EverySubmitAnswered`, `SealDrains`, `EveryStreamEnds`, `CancelEnds`,
`EveryTopicAnswered` and `StartsAgain`. Every other property of a passing run is
a theorem here. The specifications proved about have no fairness; those of the
runs imply them. The five refuted properties are TLC's.

## 6. Not modelled

Within the modelled parts: model hot swaps, `SetTimeout` and status of a worker;
vectors, full-text backfill and schema migrations of the index; progress and
stages of a job; directories that appear as a whole and the watcher's restart;
label tasks and the second cache slot of a document's own tree; renaming and
listing workspaces, verification of backups, `shutdown_all`. Two builds at once
are in `BuildLifecycle` but not on disk.

Left out as a whole: Windows' process code (its protocol is the same, its pipes
are threads); model loading and the resident map of a worker; embeddings,
ranking, extraction, inference, network clients, parsers of manifests and model
output, and the user interface. They are most of the lines of the repository and
nearly all data processing: the map covers about three lines in a hundred, those
of the code whose steps interleave, fail or resume. See `PROJECT.json` for each
component.

## 7. What is left

1. Acquisition: two downloads that look for the same name and then write it, a
   write cut short, and the retry that finds what is left (`acquire.rs`).
2. Two builds over one temporary file, composed with the cancel's clean-up.
3. Late responses in the user interface's search and topic stores.
4. Label tasks over a topic tree that is replaced.
5. Proofs: every safety property has its theorem; what is left to prove comes with
   the components above.
