--------------------------- MODULE DirectoryUpdates ---------------------------
(***************************************************************************)
(* The directory watcher and the semantic updater: changes of files on     *)
(* disk reach the index in debounced batches, each handled by a task of    *)
(* its own (crates/core/src/directory_watcher.rs,                          *)
(* crates/core/src/embed/index/semantic_updater.rs,                        *)
(* process_directory_change_for_semantic in crates/api/src/context.rs).    *)
(* A build merges its documents into the same index meanwhile, and when it *)
(* is finished, or an index deleted, the context's is replaced; topic tree *)
(* requests read it. Replacements and batches invalidate TopicCache.       *)
(*                                                                         *)
(* A file's content is its version, which is also its fingerprint: every   *)
(* change makes a new one and a rename keeps it. 0 is a file, or a row,    *)
(* that does not exist.                                                    *)
(***************************************************************************)
EXTENDS TopicCache, FiniteSets

CONSTANTS
  Files,
  Batches,
  MaxHandles,  \* bound: files an index is kept in, one after the other
  MaxChanges   \* bound: changes of files on disk and merges of builds

ASSUME UpdatesAssumption ==
  /\ IsFiniteSet(Files) /\ Nobody \notin Files
  /\ MaxChanges \in Nat /\ MaxHandles \in Nat \ {0}

VARIABLES
  disk,
  changes,   \* how many there were
  events,    \* the files the debouncer has still to report
  known,     \* the metadata cache: the fingerprint it has of each file
  opened,    \* the rows in the index files so far
  live,      \* the file of the context's index, 0 when it has none
  replacing, \* a build or a deletion between invalidation and store
  batch,     \* the tasks
  unsure     \* auxiliary: the files whose row may be wrong for a known reason

onDisk     == <<disk, changes, events>>
updateVars == <<disk, changes, events, known, opened, live, replacing, batch, unsure>>
liveVars   == <<rev, clearing, slot, holder, request, cancelled, written, invalidated,
                disk, changes, events, known, opened, live, replacing, batch, unsure>>

Versions == 0..(MaxChanges + Cardinality(Files))
Handles  == 1..MaxHandles

Renames == [old : Files, new : Files, content : Versions]
BatchPcs == {"idle", "index", "bump", "clear", "detect", "rekey", "remove", "files", "write"}
Resting  == [pc |-> "idle", changed |-> {}, removed |-> {}, renames |-> {}, index |-> 0,
             file |-> Nobody, text |-> 0]

\* What a batch has still to deal with.
Ahead(b) ==
  batch[b].changed \cup batch[b].removed \cup {r.old : r \in batch[b].renames}
                   \cup ({batch[b].file} \cap Files)

DUTypeOK ==
  /\ TCTypeOK
  /\ disk \in [Files -> Versions] /\ changes \in 0..MaxChanges
  /\ events \in SUBSET Files
  /\ known \in [Files -> Versions]
  /\ opened \in [Handles -> [Files -> Versions]]
  /\ live \in 0..MaxHandles
  /\ replacing \in {"no", "bumped", "cleared"}
  /\ batch \in [Batches -> [pc : BatchPcs, changed : SUBSET Files, removed : SUBSET Files,
                            renames : SUBSET Renames, index : 0..MaxHandles,
                            file : Files \cup {Nobody}, text : Versions]]
  /\ unsure \in SUBSET Files

\* Files differ.
FirstVersion ==
  CHOOSE version \in [Files -> 1..Cardinality(Files)] :
    \A f, g \in Files : version[f] = version[g] => f = g

\* The index is up to date with what is on disk; some files the context listed,
\* which puts them into the metadata cache.
DUInit ==
  /\ TCInit
  /\ \E there \in SUBSET Files :
       disk = [f \in Files |-> IF f \in there THEN FirstVersion[f] ELSE 0]
  /\ changes = 0 /\ events = {}
  /\ \E listed \in SUBSET Files :
       known = [f \in Files |-> IF f \in listed THEN disk[f] ELSE 0]
  /\ opened = [h \in Handles |-> IF h = 1 THEN disk ELSE [f \in Files |-> 0]]
  /\ live = 1 /\ replacing = "no"
  /\ batch = [b \in Batches |-> Resting]
  /\ unsure = {}

(***************************************************************************)
(* The disk, and the listing of files.                                     *)
(***************************************************************************)
Disturb(touched) ==
  /\ changes < MaxChanges
  /\ changes' = changes + 1
  /\ events' = events \cup touched
  /\ UNCHANGED <<known, opened, live, replacing, batch, unsure>> /\ UNCHANGED topicVars

WriteOnDisk(f) ==
  /\ disk' = [disk EXCEPT ![f] = Cardinality(Files) + changes + 1]
  /\ Disturb({f})

DeleteOnDisk(f) ==
  /\ disk[f] # 0
  /\ disk' = [disk EXCEPT ![f] = 0]
  /\ Disturb({f})

RenameOnDisk(f, g) ==
  /\ f # g /\ disk[f] # 0
  /\ disk' = [disk EXCEPT ![f] = 0, ![g] = disk[f]]
  /\ Disturb({f, g})

List(f) ==
  /\ disk[f] # 0 /\ known[f] # disk[f]
  /\ known' = [known EXCEPT ![f] = disk[f]]
  /\ UNCHANGED onDisk /\ UNCHANGED <<opened, live, replacing, batch, unsure>>
  /\ UNCHANGED topicVars

(***************************************************************************)
(* A batch. The debouncer sorts what it reports by what is on disk then;   *)
(* a file another batch still has ahead of it is reported all the same.    *)
(***************************************************************************)
BatchAside == UNCHANGED <<disk, changes, live, replacing>>

Deliver(b, reported) ==
  /\ batch[b].pc = "idle" /\ reported # {}
  /\ events' = events \ reported
  /\ batch' = [batch EXCEPT ![b] =
       [Resting EXCEPT !.pc = "index", !.changed = {f \in reported : disk[f] # 0},
                       !.removed = {f \in reported : disk[f] = 0}]]
  /\ unsure' = (unsure \ reported) \cup {f \in reported : \E a \in Batches : f \in Ahead(a)}
  /\ UNCHANGED <<known, opened>> /\ BatchAside /\ UNCHANGED topicVars

TakeIndex(b) ==
  /\ batch[b].pc = "index" /\ live # 0
  /\ batch' = [batch EXCEPT ![b].pc = "bump", ![b].index = live]
  /\ UNCHANGED <<events, known, opened, unsure>> /\ BatchAside /\ UNCHANGED topicVars

\* The batch is dropped: semantic search is not preferred, no model or no index
\* is there, the root cannot be activated, or the task panics.
Drop(b) ==
  /\ batch[b].pc \in {"index", "detect", "rekey", "remove", "files", "write"}
  /\ batch' = [batch EXCEPT ![b] = Resting]
  /\ unsure' = unsure \cup Ahead(b)
  /\ UNCHANGED <<events, known, opened>> /\ BatchAside /\ UNCHANGED topicVars

BatchBumps(b) ==
  /\ batch[b].pc = "bump" /\ Bump
  /\ batch' = [batch EXCEPT ![b].pc = "clear"]
  /\ UNCHANGED <<events, known, opened, unsure>> /\ BatchAside

BatchClears(b) ==
  /\ batch[b].pc = "clear" /\ Clear
  /\ batch' = [batch EXCEPT ![b].pc = "detect"]
  /\ UNCHANGED <<events, known, opened, unsure>> /\ BatchAside

\* The one file that is gone and had the fingerprint the changed file has now.
RenameSources(new) == {old \in Files \ {new} : known[old] = disk[new] /\ disk[old] = 0}
DetectRenames(changed) ==
  {[old |-> CHOOSE old \in RenameSources(new) : TRUE, new |-> new, content |-> disk[new]] :
     new \in {f \in changed : disk[f] # 0 /\ Cardinality(RenameSources(f)) = 1}}

\* A look-up that fails finds none.
Detect(b) ==
  /\ batch[b].pc = "detect"
  /\ \E renames \in SUBSET DetectRenames(batch[b].changed) :
       batch' = [batch EXCEPT ![b].renames = renames,
                              ![b].pc = IF renames = {} THEN "remove" ELSE "rekey"]
  /\ UNCHANGED <<events, known, opened, unsure>> /\ BatchAside /\ UNCHANGED topicVars

\* Both stores key what they have of the old path by the new one, also when
\* that is nothing or something else than what was matched.
Rekeyed_Copies(store, renames) ==
  [f \in Files |->
     IF \E r \in renames : r.new = f THEN store[(CHOOSE r \in renames : r.new = f).old]
     ELSE store[f]]
Rekeyed(store, renames) ==
  [f \in Files |->
     IF \E r \in renames : r.new = f THEN store[(CHOOSE r \in renames : r.new = f).old]
     ELSE IF \E r \in renames : r.old = f THEN 0 ELSE store[f]]

\* A re-keying that fails is logged: the index keeps the failed ones as they
\* were, the metadata cache the stale ones.
Rekey(b) ==
  /\ batch[b].pc = "rekey"
  /\ LET renames == batch[b].renames
         rows    == opened[batch[b].index]
     IN  \E failed, stale \in SUBSET renames :
           /\ opened' = [opened EXCEPT ![batch[b].index] = Rekeyed(rows, renames \ failed)]
           /\ known' = Rekeyed(known, renames \ stale)
           /\ batch' = [batch EXCEPT ![b].pc = "remove", ![b].renames = {},
                                     ![b].changed = @ \ {r.new : r \in renames},
                                     ![b].removed = @ \ {r.old : r \in renames}]
           /\ unsure' = unsure \cup {r.old : r \in failed} \cup {r.new : r \in failed}
                          \cup {r.new : r \in {x \in renames : rows[x.old] # x.content}}
  /\ Change
  /\ UNCHANGED events /\ BatchAside

\* What was reported as removed is removed, whether it is back or not; a removal
\* that fails is logged.
Without(store, gone) == [f \in Files |-> IF f \in gone THEN 0 ELSE store[f]]
Remove(b) ==
  /\ batch[b].pc = "remove"
  /\ LET gone == batch[b].removed
     IN  /\ \E failed, stale \in SUBSET gone :
              /\ opened' = [opened EXCEPT ![batch[b].index] = Without(@, gone \ failed)]
              /\ known' = Without(known, gone \ stale)
              /\ unsure' = unsure \cup failed
         /\ batch' = [batch EXCEPT ![b].pc = "files", ![b].removed = {}]
         /\ IF gone = {} THEN UNCHANGED topicVars ELSE Change
  /\ UNCHANGED events /\ BatchAside

\* handle_event: a file that is gone by now is removed; any other is extracted
\* and embedded without the lock of the index, and written with it.
DropGone(b, f) ==
  /\ batch[b].pc = "files" /\ f \in batch[b].changed /\ disk[f] = 0
  /\ opened' = [opened EXCEPT ![batch[b].index][f] = 0]
  /\ batch' = [batch EXCEPT ![b].changed = @ \ {f}]
  /\ Change
  /\ UNCHANGED <<events, known, unsure>> /\ BatchAside

Prepare(b, f) ==
  /\ batch[b].pc = "files" /\ f \in batch[b].changed /\ disk[f] # 0
  /\ batch' = [batch EXCEPT ![b].pc = "write", ![b].changed = @ \ {f}, ![b].file = f,
                            ![b].text = disk[f]]
  /\ UNCHANGED <<events, known, opened, unsure>> /\ BatchAside /\ UNCHANGED topicVars

\* It is no file, or one that cannot be opened or extracted; or its removal fails.
Skip(b, f) ==
  /\ batch[b].pc = "files" /\ f \in batch[b].changed
  /\ batch' = [batch EXCEPT ![b].changed = @ \ {f}]
  /\ unsure' = unsure \cup {f}
  /\ UNCHANGED <<events, known, opened>> /\ BatchAside /\ UNCHANGED topicVars

\* The file is read once more for its digest.
Write(b) ==
  /\ batch[b].pc = "write"
  /\ IF disk[batch[b].file] = 0
     THEN UNCHANGED <<opened, topicVars>>
     ELSE opened' = [opened EXCEPT ![batch[b].index][batch[b].file] = batch[b].text] /\ Change
  /\ batch' = [batch EXCEPT ![b].pc = "files", ![b].file = Nobody, ![b].text = 0]
  /\ UNCHANGED <<events, known, unsure>> /\ BatchAside

WriteFails(b) ==
  /\ batch[b].pc = "write"
  /\ batch' = [batch EXCEPT ![b].pc = "files", ![b].file = Nobody, ![b].text = 0]
  /\ unsure' = unsure \cup ({batch[b].file} \cap Files)
  /\ UNCHANGED <<events, known, opened>> /\ BatchAside /\ UNCHANGED topicVars

EndBatch(b) ==
  /\ batch[b].pc = "files" /\ batch[b].changed = {}
  /\ batch' = [batch EXCEPT ![b] = Resting]
  /\ UNCHANGED <<events, known, opened, unsure>> /\ BatchAside /\ UNCHANGED topicVars

(***************************************************************************)
(* finish_build_index puts an index in the context, delete_index takes it  *)
(* out, or puts in what is left of it. The batches that run keep the       *)
(* handle they took, which reads the same file when it was not replaced.   *)
(***************************************************************************)
ReplaceAside == UNCHANGED <<disk, changes, events, known, batch>>

\* A build of the same model works on the file of the context's index. It read
\* its documents some time ago, and what it merges it invalidates nothing for:
\* it may then be stopped or fail, and is not attached.
BuildMerges(rows) ==
  /\ live # 0 /\ changes < MaxChanges
  /\ changes' = changes + 1
  /\ opened' = [opened EXCEPT ![live] = rows]
  /\ unsure' = unsure \cup {f \in Files : rows[f] # opened[live][f]}
  /\ Change /\ UNCHANGED <<disk, events, known, live, replacing, batch>>

ReplaceBumps ==
  /\ replacing = "no" /\ Bump
  /\ replacing' = "bumped"
  /\ UNCHANGED <<opened, live, unsure>> /\ ReplaceAside

ReplaceClears ==
  /\ replacing = "bumped" /\ Clear
  /\ replacing' = "cleared"
  /\ UNCHANGED <<opened, live, unsure>> /\ ReplaceAside

\* Another file, or the one the context had. A build did not read every document.
Attach_CountsTwice(file, rows) ==
  /\ replacing = "cleared"
  /\ live' = live + 2
  /\ opened' = [opened EXCEPT ![file] = rows]
  /\ unsure' = Files
  /\ replacing' = "no" /\ Change /\ ReplaceAside
Attach(file, rows) ==
  /\ replacing = "cleared"
  /\ live' = file
  /\ opened' = [opened EXCEPT ![file] = rows]
  /\ unsure' = Files
  /\ replacing' = "no" /\ Change /\ ReplaceAside

Detach ==
  /\ replacing = "cleared" /\ live # 0
  /\ live' = 0
  /\ replacing' = "no" /\ Change /\ UNCHANGED <<opened, unsure>> /\ ReplaceAside

BatchStep(b) ==
  \/ TakeIndex(b) \/ Drop(b) \/ BatchBumps(b) \/ BatchClears(b) \/ Detect(b)
  \/ Rekey(b) \/ Remove(b)
  \/ \E f \in Files : DropGone(b, f) \/ Prepare(b, f) \/ Skip(b, f)
  \/ Write(b) \/ WriteFails(b) \/ EndBatch(b)

DUNext ==
  \/ \E f \in Files : WriteOnDisk(f) \/ DeleteOnDisk(f) \/ List(f)
  \/ \E f, g \in Files : RenameOnDisk(f, g)
  \/ \E b \in Batches, reported \in SUBSET events : Deliver(b, reported)
  \/ \E b \in Batches : BatchStep(b)
  \/ \E rows \in [Files -> 0..(Cardinality(Files) + changes)] : BuildMerges(rows)
  \/ ReplaceBumps \/ ReplaceClears \/ Detach
  \/ \E file \in Handles, kept \in SUBSET Files :
       Attach(file, [f \in Files |-> IF f \in kept THEN disk[f] ELSE 0])
  \/ UNCHANGED updateVars /\ \E r \in Requests : RequestStep(r) \/ CancelRequest(r)

DUSpec == DUInit /\ [][DUNext]_liveVars

\* Tasks of the runtime run on, and its lock is handed to those that wait. A tree
\* build neither fails by itself for ever nor has to.
LiveSpec == DUSpec /\ \A r \in Requests : WF_liveVars(UNCHANGED updateVars /\ RequestStep(r))

(***************************************************************************)
(* Properties.                                                             *)
(***************************************************************************)
\* Once nothing is ahead of a file any more, neither an event nor a batch, its
\* row is its content: no order of edits, deletions, renames, splits of the
\* events into batches and re-keyings loses one (process_directory_change). It
\* takes one of these, since its last event was delivered, to be wrong:
\*   - two batches had the file at once;
\*   - its batch was dropped (Drop), or its extraction, write, removal or
\*     re-keying failed;
\*   - it was taken for renamed when the index had not what the cache knew;
\*   - a build merged another text of it, or the context's index was replaced.
QuietIsCurrent ==
  live # 0 =>
    \A f \in Files \ unsure :
      f \in events \/ (\E b \in Batches : f \in Ahead(b)) \/ opened[live][f] = disk[f]
=============================================================================
