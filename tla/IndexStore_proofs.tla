--------------------------- MODULE IndexStore_proofs ---------------------------
(***************************************************************************)
(* Proofs about IndexStore, for any documents, roots, models and bounds:   *)
(* it is well typed, a replacement finds no backup in its way, the index   *)
(* is lost by deletion only, and the journal says of a running and of a    *)
(* completed job what is true of it.                                       *)
(***************************************************************************)
EXTENDS IndexStore, TLAPS

Databases == Files \cup {None}
Tasks ==
  [pc : Places, root : Roots, model : Models, whole : BOOLEAN, job : JobIds,
   source : {"no", "live", "unlinked"}, todo : SUBSET Docs, pend : SUBSET Docs,
   queue : [Docs -> Versions],
   said : [Docs -> Outcomes \cup {"no"}],
   stopped : BOOLEAN, failed : BOOLEAN, ok : BOOLEAN, saved : BOOLEAN]

(***************************************************************************)
(* The inductive invariant about files. From the moment a build has opened *)
(* the store until it moves the live index aside there is no backup, so    *)
(* that nobody recovers: a reader that will delete the backup looked       *)
(* before or after, when there was a live index beside it.                 *)
(***************************************************************************)
Filling == {"work", "publish", "aside", "bare"}

FilesInv ==
  /\ build.pc \in Filling => dir.backup = None /\ opener = "idle"
  /\ build.pc \in Filling \cup {"in"} => dir.tmp # None
  /\ build.pc = "in" => dir.live = None \/ dir.backup = None
  /\ opener = "finish" =>
       build.pc \notin Filling \cup {"in"} /\ (dir.live # None \/ deleted)
  /\ \A u \in Users : opened[u] \in {"live", "backup"} => dir[opened[u]] # None
  /\ build.pc = "work" /\ build.source # "no" => dir[build.source] # None

StoreInv == ISTypeOK /\ FilesInv /\ (dir.main = None <=> dir.live = None)

(***************************************************************************)
(* What the operators on databases and directories return.                 *)
(***************************************************************************)
LEMMA VersionsIn == 0 \in Versions /\ 1 \in Versions /\ NoRow \in Rows
BY StoreAssumption DEF Versions, NoRow, Rows

LEMMA EmptyIsDatabase == ASSUME NEW model \in Models PROVE Empty(model) \in Files
BY VersionsIn DEF Empty, Files

LEMMA SweptIsDatabase == ASSUME NEW db \in Files PROVE Swept(db) \in Files
<1> DEFINE rows == [d \in Docs |-> IF \E root \in Roots : <<root, d>> \in db.held
                                   THEN db.rows[d] ELSE NoRow]
<1>1. rows \in [Docs -> Rows] BY VersionsIn DEF Files
<1>2. Swept(db) = [db EXCEPT !.rows = rows] BY DEF Swept
<1> HIDE DEF rows
<1> QED BY <1>1, <1>2 DEF Files

LEMMA WriteFileIsDatabase ==
  ASSUME disk \in [Docs -> Versions], NEW db \in Files, NEW root \in Roots, NEW d \in Docs,
         NEW text \in Versions
  PROVE  WriteFile(db, root, d, text) \in Files
<1> DEFINE rows == [db.rows EXCEPT ![d] = [text |-> text, id |-> disk[d]]]
           held == db.held \cup {<<root, d>>}
<1>1. [text |-> text, id |-> disk[d]] \in Rows BY DEF Rows
<1>2. rows \in [Docs -> Rows] BY <1>1 DEF Files
<1>3. held \in SUBSET (Roots \X Docs) BY DEF Files
<1>4. WriteFile(db, root, d, text) = [db EXCEPT !.rows = rows, !.held = held]
  BY DEF WriteFile, Files
<1> HIDE DEF rows, held
<1> QED BY <1>2, <1>3, <1>4 DEF Files

LEMMA RemovedIsDatabase ==
  ASSUME NEW db \in Files, NEW root \in Roots, NEW d \in Docs
  PROVE  RemoveFile(db, root, d) \in Files
<1>1. [db EXCEPT !.held = @ \ {<<root, d>>}] \in Files BY DEF Files
<1> QED BY <1>1, SweptIsDatabase DEF RemoveFile

LEMMA RenamedIsDatabase ==
  ASSUME NEW db \in Files, NEW old \in Docs, NEW new \in Docs
  PROVE  RenameFile(db, old, new) \in Files
<1> DEFINE rows  == [db.rows EXCEPT ![new] = db.rows[old], ![old] = NoRow]
           rest  == {h \in db.held : h[2] \notin {old, new}}
           moved == {<<root, new>> : root \in {r \in Roots : <<r, old>> \in db.held}}
           held  == rest \cup moved
<1>1. rows \in [Docs -> Rows] BY VersionsIn DEF Files
<1>2. held \in SUBSET (Roots \X Docs)
  <2>1. db.held \in SUBSET (Roots \X Docs) BY DEF Files
  <2>2. rest \in SUBSET (Roots \X Docs) BY <2>1
  <2>3. moved \in SUBSET (Roots \X Docs)
    <3>1. \A root \in Roots : <<root, new>> \in Roots \X Docs OBVIOUS
    <3> QED BY <3>1, Zenon
  <2> HIDE DEF rest, moved
  <2> QED BY <2>2, <2>3
<1>3. RenameFile(db, old, new) = [db EXCEPT !.rows = rows, !.held = held]
  BY DEF RenameFile, Files
<1> HIDE DEF rows, held
<1> QED BY <1>1, <1>2, <1>3 DEF Files

LEMMA DeleteRootIsDatabase ==
  ASSUME NEW db \in Files, NEW root \in Roots
  PROVE  DeleteRoot(db, root) \in Files
<1>1. [db EXCEPT !.held = {h \in @ : h[1] # root}] \in Files BY DEF Files
<1> QED BY <1>1, SweptIsDatabase DEF DeleteRoot

LEMMA MergedIsDatabase ==
  ASSUME NEW db \in Files, NEW source \in Files, NEW root \in Roots, NEW membership
  PROVE  MergeRootFrom(db, source, root, membership) \in Files
<1> DEFINE docs == HeldUnder(source, root)
           kept == IF membership = "authoritative" THEN {h \in db.held : h[1] # root}
                                                   ELSE db.held
           held == kept \cup ({root} \X docs)
           rows == [d \in Docs |-> IF d \in docs THEN source.rows[d] ELSE db.rows[d]]
<1>1. held \in SUBSET (Roots \X Docs) BY DEF HeldUnder, Files
<1>2. rows \in [Docs -> Rows] BY DEF Files
<1>3. [db EXCEPT !.held = held, !.rows = rows] \in Files
  <2> HIDE DEF held, rows
  <2> QED BY <1>1, <1>2 DEF Files
<1> QED BY <1>3, SweptIsDatabase DEF MergeRootFrom

\* A recovery keeps an index where there is one, and leaves no backup.
LEMMA Recovery ==
  ASSUME dir \in [Names -> Databases]
  PROVE  /\ Recovered \in [Names -> Databases]
         /\ Recovered.backup = None
         /\ Recovered.live # None <=> dir.live # None \/ dir.backup # None
         /\ Recovered.tmp = dir.tmp /\ Recovered.unlinked = dir.unlinked
         /\ dir.live # None => Recovered.live = dir.live /\ Recovered.main = dir.main
         /\ dir.live = None /\ dir.backup # None =>
              Recovered.live = dir.backup /\ Recovered.main = dir.backup
         /\ dir.backup = None => Recovered = dir
         /\ (dir.main = None <=> dir.live = None) =>
              (Recovered.main = None <=> Recovered.live = None)
BY DEF Recovered, InPlace, Names, Databases

\* A transaction on the live database is one.
LEMMA Committing ==
  ASSUME NEW files \in [Names -> Databases], NEW users, NEW db \in Files,
         files.main = None <=> files.live = None,
         NEW next \in Committed(files, users, db), files.live # None
  PROVE  /\ next \in [Names -> Databases]
         /\ next.live = db /\ next.main \in {db, files.main} /\ next.main # None
         /\ next.backup = files.backup /\ next.tmp = files.tmp
         /\ next.unlinked = files.unlinked
<1>1. PICK main \in {db, files.main} : next = [files EXCEPT !.live = db, !.main = main]
  BY DEF Committed
<1>2. db # None BY NoneAssumption
<1> QED BY <1>1, <1>2 DEF Names, Databases

Opening == [Users -> {"no", "live", "backup", "gone"}]

LEMMA ConnectionsKept ==
  ASSUME opened \in Opening
  PROVE  /\ OpenedAfterRecovery \in Opening
         /\ Renamed("live", "backup") \in Opening /\ Renamed("backup", "live") \in Opening
         /\ Removed("live") \in Opening /\ Removed("backup") \in Opening
BY DEF OpenedAfterRecovery, Renamed, Removed, Opening

\* No connection is left to a file that a recovery took away.
LEMMA RecoveryKeepsOpen ==
  ASSUME dir \in [Names -> Databases], opened \in Opening,
         \A u \in Users : opened[u] \in {"live", "backup"} => dir[opened[u]] # None
  PROVE  \A u \in Users :
           OpenedAfterRecovery[u] \in {"live", "backup"} => Recovered[OpenedAfterRecovery[u]] # None
BY DEF OpenedAfterRecovery, Recovered, InPlace, Renamed, Removed, Names, Databases, Opening

(***************************************************************************)
(* What the operators on journals return.                                  *)
(***************************************************************************)
LEMMA JournalRows ==
  ASSUME NEW journal \in Journals
  PROVE  DOMAIN journal \in SUBSET JobIds /\ journal \in [DOMAIN journal -> Job]
BY DEF Journals

LEMMA RowsAreJournal ==
  ASSUME NEW ids \in SUBSET JobIds, NEW journal \in [ids -> Job]
  PROVE  journal \in Journals
BY DEF Journals

\* A job begins with its scope pending and nothing else; older rows stay or go.
LEMMA Beginning ==
  ASSUME NEW journal \in Journals, NEW id \in JobIds, id \notin DOMAIN journal,
         NEW root \in Roots, NEW scope \in SUBSET Docs, NEW continues
  PROVE  LET begun == BeginContinuing(journal, id, root, scope, continues)
         IN  /\ begun \in Journals
             /\ DOMAIN begun \subseteq DOMAIN journal \cup {id}
             /\ \A j \in DOMAIN begun : j # id => begun[j] = journal[j]
             /\ id \in DOMAIN begun =>
                  begun[id].state = "Running" /\ WithOutcome(begun, id, "Pending") = scope
<1> DEFINE before == Inherited(journal, continues, scope)
           job    == [root |-> root, state |-> "Running",
                      docs |-> [d \in Docs |-> IF d \in scope THEN "Pending" ELSE before[d]]]
           more   == [j \in DOMAIN journal \cup {id} |-> IF j = id THEN job ELSE journal[j]]
           begun  == BeginContinuing(journal, id, root, scope, continues)
<1>1. \A d \in Docs : before[d] \in Verdicts \cup {"no"} BY DEF Inherited
<1>2. job \in Job BY <1>1 DEF Job, JobStates, Closed, Outcomes
<1>3. /\ job.state = "Running"
      /\ \A d \in Docs : job.docs[d] = "Pending" <=> d \in scope
  BY <1>1 DEF Verdicts
<1> HIDE DEF job
<1>4. PICK ids \in SUBSET (DOMAIN journal \cup {id}) : begun = [j \in ids |-> more[j]]
  BY DEF BeginContinuing, Pruned, Restrict, job
<1>5. \A j \in ids : begun[j] = IF j = id THEN job ELSE journal[j] BY <1>4
<1>6. begun \in [ids -> Job] BY <1>2, <1>4, <1>5, JournalRows
<1>7. ids \in SUBSET JobIds BY JournalRows
<1> QED BY <1>3, <1>5, <1>6, <1>7, RowsAreJournal DEF WithOutcome

StateOf(journal, j) == journal[j].state

\* Only rows of the job's batch change, and none becomes pending.
LEMMA Noting ==
  ASSUME NEW journal \in Journals, NEW id, NEW batch \in SUBSET Docs, NEW said,
         \A d \in batch : said[d] \in Verdicts
  PROVE  /\ NoteOutcomes(journal, id, batch, said) \in Journals
         /\ DOMAIN NoteOutcomes(journal, id, batch, said) = DOMAIN journal
         /\ \A j \in DOMAIN journal :
              StateOf(NoteOutcomes(journal, id, batch, said), j) = StateOf(journal, j)
         /\ \A j \in DOMAIN journal :
              LET pending == WithOutcome(NoteOutcomes(journal, id, batch, said), j, "Pending")
              IN  /\ pending \subseteq WithOutcome(journal, j, "Pending")
                  /\ j = id => pending \cap batch = {}
<1> DEFINE docs(j) == [d \in Docs |-> IF d \in batch /\ journal[j].docs[d] # "no"
                                      THEN said[d] ELSE journal[j].docs[d]]
           noted   == NoteOutcomes(journal, id, batch, said)
<1>1. journal \in [DOMAIN journal -> Job] /\ DOMAIN journal \in SUBSET JobIds BY JournalRows
<1>2. \A j \in DOMAIN journal : docs(j) \in [Docs -> Outcomes \cup {"no"}]
  BY <1>1 DEF Job, Outcomes
<1>3. noted = [j \in DOMAIN journal |->
                 IF j # id THEN journal[j] ELSE [journal[j] EXCEPT !.docs = docs(j)]]
  BY <1>1 DEF NoteOutcomes, Job
<1>4. ASSUME NEW j \in DOMAIN journal, NEW d \in Docs
      PROVE  docs(j)[d] = "Pending" <=> journal[j].docs[d] = "Pending" /\ d \notin batch
  BY <1>1 DEF Verdicts
<1> HIDE DEF docs, noted
<1>5. ASSUME NEW j \in DOMAIN journal
      PROVE  /\ noted[j] \in Job /\ noted[j].state = journal[j].state
             /\ noted[j].docs = IF j = id THEN docs(j) ELSE journal[j].docs
  BY <1>1, <1>2, <1>3 DEF Job
<1>6. noted \in [DOMAIN journal -> Job] BY <1>3, <1>5
<1>7. noted \in Journals BY <1>1, <1>6, RowsAreJournal
<1>8. ASSUME NEW j \in DOMAIN journal
      PROVE  /\ WithOutcome(noted, j, "Pending") \subseteq WithOutcome(journal, j, "Pending")
             /\ j = id => WithOutcome(noted, j, "Pending") \cap batch = {}
  BY <1>4, <1>5 DEF WithOutcome
<1> QED BY <1>3, <1>5, <1>7, <1>8 DEF noted, StateOf

LEMMA Finishing ==
  ASSUME NEW journal \in Journals, NEW id, NEW state \in Closed
  PROVE  LET closed == Finish(journal, id, state)
         IN  /\ closed \in Journals /\ DOMAIN closed = DOMAIN journal
             /\ \A j \in DOMAIN journal :
                  /\ closed[j].state = IF j = id THEN state ELSE journal[j].state
                  /\ closed[j].docs = journal[j].docs
<1>1. journal \in [DOMAIN journal -> Job] /\ DOMAIN journal \in SUBSET JobIds BY JournalRows
<1>2. Finish(journal, id, state) \in [DOMAIN journal -> Job]
  BY <1>1 DEF Finish, Job, JobStates
<1> QED BY <1>1, <1>2, RowsAreJournal DEF Finish, Job

LEMMA Adopting ==
  ASSUME NEW journal \in Journals
  PROVE  LET adopted == AdoptOrphanedJobs(journal)
         IN  /\ adopted \in Journals /\ DOMAIN adopted = DOMAIN journal
             /\ \A j \in DOMAIN journal :
                  /\ adopted[j].state = IF journal[j].state = "Running" THEN "Interrupted"
                                        ELSE journal[j].state
                  /\ adopted[j].docs = journal[j].docs
<1>1. journal \in [DOMAIN journal -> Job] /\ DOMAIN journal \in SUBSET JobIds BY JournalRows
<1>2. AdoptOrphanedJobs(journal) \in [DOMAIN journal -> Job]
  BY <1>1 DEF AdoptOrphanedJobs, Job, JobStates, Closed
<1> QED BY <1>1, <1>2, RowsAreJournal DEF AdoptOrphanedJobs, Job

LEMMA Forgetting ==
  ASSUME NEW journal \in Journals, NEW root
  PROVE  LET rest == ForgetRoot(journal, root)
         IN  /\ rest \in Journals /\ DOMAIN rest \subseteq DOMAIN journal
             /\ \A j \in DOMAIN rest : rest[j] = journal[j]
<1>1. journal \in [DOMAIN journal -> Job] /\ DOMAIN journal \in SUBSET JobIds BY JournalRows
<1>2. PICK ids \in SUBSET DOMAIN journal : ForgetRoot(journal, root) = [j \in ids |-> journal[j]]
  BY DEF ForgetRoot, Restrict
<1>3. ForgetRoot(journal, root) \in [ids -> Job] BY <1>1, <1>2
<1> QED BY <1>1, <1>2, <1>3, RowsAreJournal

(***************************************************************************)
(* Types, a few variables at a time.                                       *)
(***************************************************************************)
LEMMA StoreInitially == ISInit => StoreInv
<1> SUFFICES ASSUME ISInit PROVE StoreInv OBVIOUS
<1>1. ASSUME NEW model \in Models, NEW root \in Roots PROVE Left(model, root) \in Files
  <2> DEFINE rows == [d \in Docs |-> IF d \in Under[root] THEN [text |-> 1, id |-> 1] ELSE NoRow]
  <2>0. [text |-> 1, id |-> 1] \in Rows BY VersionsIn DEF Rows
  <2>1. rows \in [Docs -> Rows] BY <2>0, VersionsIn
  <2>2. {root} \X Under[root] \in SUBSET (Roots \X Docs) BY StoreAssumption
  <2>3. Left(model, root) = [model |-> model, held |-> {root} \X Under[root], rows |-> rows]
    BY DEF Left
  <2> HIDE DEF rows
  <2> QED BY <2>1, <2>2, <2>3 DEF Files
<1>2. PICK live \in Databases : dir = [name \in Names |-> IF name \in {"live", "main"} THEN live ELSE None]
  <2>1. ASSUME NEW live \in {None} \cup {Left(model, root) : model \in Models, root \in Roots}
        PROVE  live \in Databases
    BY <1>1 DEF Databases
  <2> QED BY <2>1 DEF ISInit
<1>3. dir \in [Names -> Databases] /\ dir.backup = None /\ dir.main = dir.live
  BY <1>1, <1>2 DEF Databases, Names
<1>4. jobs \in Journals
  <2>1. jobs = [j \in {} |-> j] BY DEF ISInit
  <2>2. {} \in SUBSET JobIds OBVIOUS
  <2>3. jobs \in [{} -> Job] BY <2>1
  <2> QED BY <2>2, <2>3, RowsAreJournal
<1>5. disk \in [Docs -> Versions] BY VersionsIn DEF ISInit
<1>6. build.pc = "idle" BY DEF ISInit, Idle
<1>7. ISTypeOK
  <2>1. lastJob \in 0..MaxJobs /\ edits \in 0..MaxEdits /\ crashes \in 0..MaxCrashes
    BY StoreAssumption, JournalAssumption DEF ISInit
  <2>2. opened \in [Users -> {"no", "live", "backup", "gone"}] BY DEF ISInit
  <2>3. /\ selected \in Models /\ embedder = FALSE /\ watched \in Roots /\ loading = None
        /\ journalOpen = FALSE /\ build = Idle /\ flag = FALSE /\ opener = "idle"
        /\ deleted = FALSE /\ unclosed = {}
    BY DEF ISInit
  <2> QED BY <1>3, <1>4, <1>5, <2>1, <2>2, <2>3 DEF ISTypeOK, Databases
<1>8. FilesInv BY <1>6 DEF ISInit, FilesInv, Filling
<1> QED BY <1>3, <1>7, <1>8 DEF StoreInv

\* The settings, the context and the bounds.
LEMMA TypeOfContext ==
  ASSUME ISTypeOK, [ISNext]_vars
  PROVE  /\ disk' \in [Docs -> Versions]
         /\ selected' \in Models
         /\ embedder' \in BOOLEAN
         /\ watched' \in Roots
         /\ loading' \in [model : Models, semantic : BOOLEAN, placed : BOOLEAN] \cup {None}
         /\ flag' \in BOOLEAN /\ opener' \in {"idle", "restore", "finish"}
         /\ deleted' \in BOOLEAN
         /\ unclosed' \in SUBSET JobIds
         /\ edits' \in 0..MaxEdits /\ crashes' \in 0..MaxCrashes
<1> USE DEF ISTypeOK
<1>1. ASSUME NEW root \in Roots, NEW model \in Models,
             BuildWhole(root, model) \/ ContinueJob(root, model) \/ RetryFailed(root, model)
      PROVE  UNCHANGED <<disk, selected, embedder, watched, loading, opener, deleted, edits, crashes>>
             /\ flag' \in BOOLEAN /\ unclosed' \in SUBSET JobIds
  <2>1. lastJob < MaxJobs /\ flag' \in BOOLEAN
        /\ unclosed' = IF flag' THEN unclosed \cup {lastJob + 1} ELSE unclosed
    BY <1>1 DEF BuildWhole, ContinueJob, RetryFailed, BuildRest, Begin
  <2>2. lastJob + 1 \in JobIds BY <2>1, JournalAssumption DEF JobIds
  <2>3. unclosed' \in SUBSET JobIds BY <2>1, <2>2
  <2> QED
    BY <1>1, <2>1, <2>3 DEF BuildWhole, ContinueJob, RetryFailed, BuildRest, Begin
<1>2. ASSUME NEW d \in Docs, Reuse(d) \/ Read(d) \/ Extract(d) \/ ExtractYieldsNothing(d)
      PROVE  UNCHANGED <<disk, selected, embedder, watched, loading, flag, opener, deleted,
                         unclosed, edits, crashes>>
  BY <1>2 DEF Reuse, Read, Extract, ExtractYieldsNothing, Elsewhere, Untouched
<1>3. CASE RecordJob \/ InstallFails \/ OpenStore \/ StopSeen \/ LastDocument \/ Flush
             \/ FlushFails \/ FlushStopped \/ Publishing
  BY <1>3 DEF RecordJob, InstallFails, OpenStore, StopSeen, LastDocument, Flush, FlushFails,
     FlushStopped, Publishing, PublishNothing, BuildFails, Merge, BeginReplacement,
     RemoveSidecars, MoveAside, MoveIn, MoveInFails, Reopen, Elsewhere, Untouched
<1>4. CASE EndCancelled \/ EndFailed \/ EndUnattached \/ AttachEmbedder
  BY <1>4 DEF EndCancelled, EndFailed, EndUnattached, AttachEmbedder, NotAttached, TaskLeaves
<1>5. CASE AttachIndex \/ EndAttached
  <2>1. build.root \in Roots /\ build.model \in Models
    BY <1>5 DEF AttachIndex, EndAttached, Idle
  <2> QED BY <1>5, <2>1 DEF AttachIndex, EndAttached, TaskLeaves
<1>6. CASE Cancel \/ Panic
  <2>1. build.job \in JobIds BY <1>6 DEF Cancel, Cancelled, Panic, Idle
  <2>2. unclosed' \in SUBSET JobIds BY <1>6, <2>1 DEF Cancel, Cancelled, Panic
  <2>3. crashes' \in 0..MaxCrashes BY <1>6, StoreAssumption DEF Cancel, Cancelled, Panic
  <2> QED BY <1>6, <2>2, <2>3 DEF Cancel, Cancelled, Panic
<1>7. ASSUME NEW semantic \in BOOLEAN, RestoreLoads(semantic)
      PROVE  /\ UNCHANGED <<disk, selected, embedder, watched, flag, opener, deleted, unclosed,
                            edits, crashes>>
             /\ loading' \in [model : Models, semantic : BOOLEAN, placed : BOOLEAN]
  BY <1>7 DEF RestoreLoads, BuildAside, NoDeletion
<1>8. CASE RestoreEmbedder \/ RestoreInstalls
  BY <1>8 DEF RestoreEmbedder, RestoreInstalls, BuildAside, NoDeletion
<1>9. ASSUME NEW root \in Roots, DeleteCoverage(root)
      PROVE  UNCHANGED <<disk, selected, embedder, watched, loading, flag, opener, deleted,
                         unclosed, edits, crashes>>
  BY <1>9 DEF DeleteCoverage, BuildAside, NoDeletion
<1>10. CASE DeleteAll \/ DeleteMissing
  BY <1>10 DEF DeleteAll, DeleteMissing, BuildAside, NoDeletion
<1>11. ASSUME NEW d \in Docs, NEW old \in Docs,
              WatchWrite(d) \/ WatchRemove(d) \/ WatchRename(old, d)
       PROVE  UNCHANGED <<disk, selected, embedder, watched, loading, flag, opener, deleted,
                          unclosed, edits, crashes>>
  BY <1>11 DEF WatchWrite, WatchRemove, WatchRename, Updates, BuildAside, NoDeletion
<1>12. ASSUME NEW d \in Docs, Edit(d)
       PROVE  /\ disk' \in [Docs -> Versions] /\ edits' \in 0..MaxEdits
              /\ UNCHANGED <<selected, embedder, watched, loading, flag, opener, deleted,
                             unclosed, crashes>>
  <2>1. PICK version \in {0, edits + 2} : disk' = [disk EXCEPT ![d] = version] BY <1>12 DEF Edit
  <2>2. version \in Versions BY <1>12, StoreAssumption DEF Edit, Versions
  <2>3. disk' \in [Docs -> Versions] BY <2>1, <2>2
  <2>4. edits' \in 0..MaxEdits BY <1>12, StoreAssumption DEF Edit
  <2> QED BY <1>12, <2>3, <2>4 DEF Edit
<1>13. CASE OpenerLooks \/ OpenerActs \/ RollBackReplacement
  BY <1>13 DEF OpenerLooks, OpenerActs, RollBackReplacement, ReaderAside
<1>14. CASE Crash
  <2>1. crashes' \in 0..MaxCrashes BY <1>14, StoreAssumption DEF Crash
  <2> QED BY <1>14, <2>1 DEF Crash
<1>15. CASE UNCHANGED vars BY <1>15 DEF vars
<1> QED
  BY <1>1, <1>2, <1>3, <1>4, <1>5, <1>6, <1>7, <1>8, <1>9, <1>10, <1>11, <1>12, <1>13, <1>14,
     <1>15 DEF ISNext, BuildStep

\* What a build is begun with: nothing else than its scope and what it continues.
LEMMA BuildsBegin ==
  ASSUME ISTypeOK, NEW root \in Roots, NEW model \in Models,
         BuildWhole(root, model) \/ ContinueJob(root, model) \/ RetryFailed(root, model)
  PROVE  \E scope \in SUBSET Docs, whole \in BOOLEAN : \E continues :
           Begin(root, model, scope, whole, continues)
<1>1. CASE BuildWhole(root, model)
  <2>1. {d \in Under[root] : disk[d] # 0} \in SUBSET Docs BY StoreAssumption
  <2> QED BY <1>1, <2>1 DEF BuildWhole
<1>2. ASSUME NEW outcome, BuildRest(root, model, outcome)
      PROVE  \E scope \in SUBSET Docs, whole \in BOOLEAN : \E continues :
               Begin(root, model, scope, whole, continues)
  <2> DEFINE job  == Latest(Journal, root)
             rest == WithOutcome(Journal, job, outcome)
  <2>1. rest \in SUBSET Docs BY DEF WithOutcome
  <2>2. Begin(root, model, rest, FALSE, job) BY <1>2 DEF BuildRest
  <2> QED BY <2>1, <2>2
<1> QED BY <1>1, <1>2 DEF ContinueJob, RetryFailed

LEMMA TypeOfTask ==
  ASSUME ISTypeOK, BuildStep
  PROVE  build' = Idle \/ build' \in Tasks
<1>1. build \in Tasks \/ build.pc = "idle" BY DEF ISTypeOK, Tasks, Idle
<1>2. disk \in [Docs -> Versions] BY DEF ISTypeOK
<1>3. 0 \in Versions BY VersionsIn
<1>4. CASE RecordJob \/ InstallFails \/ StopSeen \/ LastDocument \/ FlushStopped \/ BuildFails
             \/ BeginReplacement \/ RemoveSidecars \/ MoveAside \/ MoveIn \/ MoveInFails
  <2>1. build \in Tasks
    BY <1>1, <1>4 DEF RecordJob, InstallFails, StopSeen, LastDocument, FlushStopped, Flushing,
       BuildFails, BeginReplacement, RemoveSidecars, MoveAside, MoveIn, MoveInFails
  <2>2. CASE RecordJob \/ InstallFails \/ MoveInFails
    BY <2>1, <2>2 DEF RecordJob, InstallFails, MoveInFails, Tasks, Places
  <2>3. CASE StopSeen \/ FlushStopped BY <2>1, <2>3 DEF StopSeen, FlushStopped, Tasks, Places
  <2>4. CASE LastDocument \/ RemoveSidecars \/ MoveAside
    BY <2>1, <2>4 DEF LastDocument, RemoveSidecars, MoveAside, Tasks, Places
  <2>5. CASE BuildFails BY <2>1, <2>5 DEF BuildFails, Tasks, Places
  <2>6. CASE BeginReplacement BY <2>1, <2>6 DEF BeginReplacement, Tasks, Places
  <2>7. CASE MoveIn BY <2>1, <2>7 DEF MoveIn, Tasks, Places
  <2> QED BY <1>4, <2>2, <2>3, <2>4, <2>5, <2>6, <2>7
<1>5. CASE PublishNothing \/ Merge \/ Reopen
  <2>1. build \in Tasks BY <1>1, <1>5 DEF PublishNothing, Merge, Reopen
  <2>2. CASE PublishNothing
    <3>1. PICK ok \in BOOLEAN :
            build' = [build EXCEPT !.pc = "return", !.source = "no", !.ok = ok]
      BY <2>2 DEF PublishNothing, Succeeded
    <3> QED BY <2>1, <3>1 DEF Tasks, Places
  <2>3. CASE Merge
    <3>1. PICK ok \in BOOLEAN :
            build' = [build EXCEPT !.pc = "return", !.source = "no", !.saved = TRUE, !.ok = ok]
      BY <2>3 DEF Merge, Succeeded
    <3> QED BY <2>1, <3>1 DEF Tasks, Places
  <2>4. CASE Reopen
    <3>1. PICK ok \in BOOLEAN : build' = [build EXCEPT !.pc = "return", !.ok = ok]
      BY <2>4 DEF Reopen, Succeeded
    <3> QED BY <2>1, <3>1 DEF Tasks, Places
  <2> QED BY <1>5, <2>2, <2>3, <2>4
<1>6. CASE OpenStore
  <2>1. build \in Tasks BY <1>1, <1>6 DEF OpenStore
  <2>2. PICK source \in {"no", "live", "unlinked"} :
          build' = [build EXCEPT !.pc = "work", !.source = source]
    BY <1>6 DEF OpenStore
  <2> QED BY <2>1, <2>2 DEF Tasks, Places
<1>7. ASSUME NEW d \in Docs, Reuse(d) \/ Read(d) \/ ExtractYieldsNothing(d)
      PROVE  build' \in Tasks
  <2>1. build \in Tasks BY <1>1, <1>7 DEF Reuse, Read, ExtractYieldsNothing, Extracting
  <2>2. CASE Reuse(d) BY <2>1, <2>2 DEF Reuse, Tasks, Outcomes, Verdicts
  <2>3. CASE Read(d) BY <2>1, <2>3 DEF Read, Tasks
  <2>4. CASE ExtractYieldsNothing(d)
    <3>1. PICK outcome \in {"Empty", "Failed"} :
            build' = [build EXCEPT !.pend = @ \ {d}, !.said[d] = outcome]
      BY <2>4 DEF ExtractYieldsNothing
    <3> QED BY <2>1, <3>1 DEF Tasks, Outcomes, Verdicts
  <2> QED BY <1>7, <2>2, <2>3, <2>4
<1>8. ASSUME NEW d \in Docs, Extract(d) PROVE build' \in Tasks
  <2>1. build \in Tasks BY <1>1, <1>8 DEF Extract, Extracting
  <2>2. build' = [build EXCEPT !.pend = @ \ {d}, !.queue[d] = disk[d]] BY <1>8 DEF Extract
  <2>3. [build.queue EXCEPT ![d] = disk[d]] \in [Docs -> Versions] BY <1>2, <2>1 DEF Tasks
  <2> QED BY <2>1, <2>2, <2>3 DEF Tasks
<1>9. CASE Flush \/ FlushFails
  <2>1. build \in Tasks BY <1>1, <1>9 DEF Flush, FlushFails, Flushing
  <2>2. PICK said \in [Docs -> Outcomes \cup {"no"}], failed \in BOOLEAN, pc \in Places :
          build' = [build EXCEPT !.queue = Emptied, !.said = said, !.failed = failed, !.pc = pc]
    <3>1. CASE Flush
      <4> DEFINE there == {d \in Queued : disk[d] # 0}
                 said  == [d \in Docs |-> IF d \in there THEN "Indexed"
                                  ELSE IF d \in Queued THEN "Failed" ELSE build.said[d]]
      <4>1. said \in [Docs -> Outcomes \cup {"no"}] BY <2>1 DEF Tasks, Outcomes, Verdicts
      <4>2. build' = [build EXCEPT !.queue = Emptied, !.said = said] BY <3>1 DEF Flush
      <4>3. build.failed \in BOOLEAN /\ build.pc \in Places BY <2>1 DEF Tasks
      <4> HIDE DEF said
      <4>4. build' = [build EXCEPT !.queue = Emptied, !.said = said, !.failed = build.failed,
                                   !.pc = build.pc]
        BY <2>1, <4>2 DEF Tasks
      <4> QED BY <4>1, <4>3, <4>4
    <3>2. CASE FlushFails
      <4> DEFINE said == [d \in Docs |-> IF d \in Queued THEN "Failed" ELSE build.said[d]]
      <4>1. said \in [Docs -> Outcomes \cup {"no"}] BY <2>1 DEF Tasks, Outcomes, Verdicts
      <4>2. PICK fatal \in BOOLEAN :
              build' = [build EXCEPT !.queue = Emptied, !.said = said, !.failed = fatal,
                                     !.pc = IF fatal THEN "publish" ELSE @]
        BY <3>2 DEF FlushFails
      <4>3. (IF fatal THEN "publish" ELSE build.pc) \in Places BY <2>1 DEF Tasks, Places
      <4> HIDE DEF said
      <4> QED BY <4>1, <4>2, <4>3
    <3> QED BY <1>9, <3>1, <3>2
  <2>3. Emptied \in [Docs -> Versions] BY <1>3 DEF Emptied
  <2> QED BY <2>1, <2>2, <2>3 DEF Tasks
<1>10. CASE EndCancelled \/ EndFailed \/ EndUnattached \/ EndAttached
  BY <1>10 DEF EndCancelled, EndFailed, EndUnattached, EndAttached, Ended
<1>11. CASE AttachEmbedder \/ AttachIndex
  <2>1. build \in Tasks BY <1>1, <1>11 DEF AttachEmbedder, AttachIndex
  <2> QED BY <1>11, <2>1 DEF AttachEmbedder, AttachIndex, Tasks, Places
<1> QED
  BY <1>4, <1>5, <1>6, <1>7, <1>8, <1>9, <1>10, <1>11 DEF BuildStep, Publishing

LEMMA TypeOfBuild ==
  ASSUME ISTypeOK, [ISNext]_vars
  PROVE  build' = Idle \/ build' \in Tasks
<1> DEFINE Typed == build' = Idle \/ build' \in Tasks
<1>1. UNCHANGED build => Typed BY DEF ISTypeOK, Tasks
<1>2. ASSUME NEW root \in Roots, NEW model \in Models,
             BuildWhole(root, model) \/ ContinueJob(root, model) \/ RetryFailed(root, model)
      PROVE  Typed
  <2>1. PICK scope \in SUBSET Docs, whole \in BOOLEAN : \E continues :
          Begin(root, model, scope, whole, continues)
    BY <1>2, BuildsBegin
  <2>2. lastJob + 1 \in JobIds BY <2>1, JournalAssumption DEF Begin, ISTypeOK, JobIds
  <2>3. [d \in Docs |-> 0] \in [Docs -> Versions] BY VersionsIn
  <2>4. [d \in Docs |-> IF d \in scope THEN "Pending" ELSE "no"] \in [Docs -> Outcomes \cup {"no"}]
    BY DEF Outcomes
  <2> QED BY <2>1, <2>2, <2>3, <2>4 DEF Begin, Tasks, Places
<1>3. CASE DeleteAll
  <2>1. CASE build.pc = "work" /\ build.source = "live"
    <3>1. build \in Tasks BY <2>1 DEF ISTypeOK, Tasks, Idle
    <3> QED BY <1>3, <2>1, <3>1 DEF DeleteAll, Tasks
  <2>2. CASE ~(build.pc = "work" /\ build.source = "live")
    BY <1>1, <1>3, <2>2 DEF DeleteAll
  <2> QED BY <2>1, <2>2
<1>4. CASE Crash \/ Panic BY <1>4 DEF Crash, Panic
<1>5. CASE Cancel \/ RestoreEmbedder \/ RestoreInstalls \/ DeleteMissing \/ OpenerLooks
             \/ OpenerActs \/ RollBackReplacement \/ UNCHANGED vars
  BY <1>1, <1>5 DEF Cancel, Cancelled, RestoreEmbedder, RestoreInstalls, DeleteMissing,
     OpenerLooks, OpenerActs, RollBackReplacement, ReaderAside, vars
<1>6. ASSUME NEW semantic \in BOOLEAN, RestoreLoads(semantic) PROVE Typed
  BY <1>1, <1>6 DEF RestoreLoads
<1>7. ASSUME NEW root \in Roots, DeleteCoverage(root) PROVE Typed
  BY <1>1, <1>7 DEF DeleteCoverage
<1>8. ASSUME NEW d \in Docs, NEW old \in Docs,
             WatchWrite(d) \/ WatchRemove(d) \/ WatchRename(old, d) \/ Edit(d)
      PROVE  Typed
  BY <1>1, <1>8 DEF WatchWrite, WatchRemove, WatchRename, Updates, Edit
<1> QED
  BY <1>2, <1>3, <1>4, <1>5, <1>6, <1>7, <1>8, TypeOfTask DEF ISNext

(***************************************************************************)
(* The journal. Its invariant: what is pending in the row of the build     *)
(* that runs is what the build has still to settle, a build that will      *)
(* succeed has settled everything before it publishes, and no id is given  *)
(* out twice (AUTOINCREMENT), so that a row the build notes in is its own. *)
(***************************************************************************)
Unsettled == build.todo \cup build.pend \cup Queued
AllSettled == Unsettled = {}

TaskInv ==
  /\ journalOpen /\ build.job <= lastJob
  /\ build.job \in DOMAIN jobs => WithOutcome(jobs, build.job, "Pending") \subseteq Unsettled
  /\ build.pc \in {"publish", "aside", "bare", "in", "reopen"} /\ Succeeded => AllSettled
  /\ build.ok => AllSettled /\ build.pc \in {"return", "attach", "attached"}
  /\ build.pc \in {"attach", "attached"} => build.ok /\ ~flag

JournalTyped == jobs \in Journals /\ lastJob \in 0..MaxJobs /\ journalOpen \in BOOLEAN

JournalInv ==
  /\ \A j \in DOMAIN jobs : j <= lastJob
  /\ build # Idle => TaskInv
  /\ RunningIsMine /\ CompletedIsWhole

JournalKept == JournalTyped' /\ JournalInv'

LEMMA JournalInitially == ISInit => JournalInv
<1> SUFFICES ASSUME ISInit PROVE JournalInv OBVIOUS
<1>1. DOMAIN jobs = {} /\ build = Idle BY DEF ISInit
<1> QED BY <1>1 DEF JournalInv, RunningIsMine, CompletedIsWhole

\* The journal an operation of this process finds has no row of a dead one running.
LEMMA JournalOpened ==
  ASSUME ISTypeOK, JournalInv
  PROVE  /\ Journal \in Journals /\ DOMAIN Journal = DOMAIN jobs
         /\ \A j \in DOMAIN jobs :
              /\ Journal[j].docs = jobs[j].docs
              /\ Journal[j].state = "Running" => jobs[j].state = "Running" /\ journalOpen
              /\ Journal[j].state = "Completed" => jobs[j].state = "Completed"
<1>1. jobs \in Journals BY DEF ISTypeOK
<1>2. CASE journalOpen BY <1>1, <1>2 DEF Journal
<1>3. CASE ~journalOpen BY <1>1, <1>3, Adopting DEF Journal
<1> QED BY <1>2, <1>3

LEMMA JournalOfBegin ==
  ASSUME ISTypeOK, JournalInv, NEW root \in Roots, NEW model \in Models,
         BuildWhole(root, model) \/ ContinueJob(root, model) \/ RetryFailed(root, model)
  PROVE  JournalKept
<1>0. PICK scope \in SUBSET Docs, whole \in BOOLEAN :
        \E continues : Begin(root, model, scope, whole, continues)
  BY BuildsBegin
<1>1. PICK continues : Begin(root, model, scope, whole, continues) BY <1>0
<1> DEFINE id == lastJob + 1
<1>2. /\ lastJob < MaxJobs /\ lastJob \in Nat /\ id \in JobIds /\ lastJob' = id /\ id \in 0..MaxJobs
  BY <1>1, JournalAssumption DEF Begin, ISTypeOK, JobIds
<1>3. DOMAIN jobs \subseteq JobIds /\ \A j \in DOMAIN jobs : j <= lastJob
  BY JournalRows DEF ISTypeOK, JournalInv
<1>4. id \notin DOMAIN Journal BY <1>2, <1>3, JournalOpened DEF JobIds
<1>5. jobs' = BeginContinuing(Journal, id, root, scope, continues) /\ journalOpen' = TRUE
      /\ unclosed \subseteq unclosed' /\ (flag' => id \in unclosed')
  BY <1>1 DEF Begin
<1> HIDE DEF id
<1>6. /\ jobs' \in Journals /\ DOMAIN jobs' \subseteq DOMAIN jobs \cup {id}
      /\ \A j \in DOMAIN jobs' : j # id => jobs'[j] = Journal[j]
      /\ id \in DOMAIN jobs' =>
           jobs'[id].state = "Running" /\ WithOutcome(jobs', id, "Pending") = scope
  BY <1>2, <1>4, <1>5, JournalOpened, Beginning
<1>7. /\ build = Idle
      /\ build'.pc = "begun" /\ build'.job = id /\ build'.todo = scope /\ build'.ok = FALSE
  BY <1>1 DEF Begin, ISTypeOK, Places, id
<1>8. JournalTyped' BY <1>2, <1>5, <1>6 DEF JournalTyped
<1>9. \A j \in DOMAIN jobs' : j <= lastJob'
  <2>1. \A j \in DOMAIN jobs : j \in Nat BY <1>3, JournalAssumption DEF JobIds
  <2>2. id = lastJob + 1 BY DEF id
  <2> QED BY <1>2, <1>3, <1>6, <2>1, <2>2
<1>10. TaskInv'
  <2>1. id <= id BY <1>2, JournalAssumption DEF JobIds
  <2> QED BY <1>2, <1>5, <1>6, <1>7, <2>1 DEF TaskInv, Unsettled
<1>11. RunningIsMine'
  <2>1. build' # Idle BY <1>7 DEF Idle
  <2>2. ASSUME NEW j \in DOMAIN jobs', jobs'[j].state = "Running" PROVE j = id \/ j \in unclosed'
    BY <1>5, <1>6, <1>7, <2>2, JournalOpened DEF JournalInv, RunningIsMine
  <2> QED BY <1>5, <1>7, <2>1, <2>2 DEF RunningIsMine
<1>12. CompletedIsWhole'
  BY <1>6, JournalOpened DEF CompletedIsWhole, WithOutcome, JournalInv
<1> QED BY <1>8, <1>9, <1>10, <1>11, <1>12 DEF JournalKept, JournalInv

\* A step of the build that notes nothing keeps its id and what is unsettled, and
\* settles everything before it publishes as a success.
LEMMA JournalOfSilence ==
  ASSUME ISTypeOK, JournalInv, build # Idle, build' # Idle,
         UNCHANGED <<jobs, lastJob, journalOpen, flag, unclosed>>, build'.job = build.job,
         Unsettled \subseteq Unsettled',
         (build.pc \in {"publish", "aside", "bare", "in", "reopen"} /\ Succeeded)' => AllSettled',
         build'.ok => AllSettled' /\ build'.pc \in {"return", "attach", "attached"},
         build'.pc \in {"attach", "attached"} => build'.ok /\ ~flag
  PROVE  JournalKept
<1>1. JournalTyped' BY DEF JournalTyped, ISTypeOK
<1>2. TaskInv' BY DEF TaskInv, JournalInv
<1>3. RunningIsMine' BY DEF RunningIsMine, JournalInv
<1>4. CompletedIsWhole' BY DEF CompletedIsWhole, WithOutcome, JournalInv
<1> QED BY <1>1, <1>2, <1>3, <1>4 DEF JournalKept, JournalInv

\* A step that notes a batch settles it.
LEMMA JournalOfNote ==
  ASSUME ISTypeOK, JournalInv, build # Idle, build' # Idle,
         UNCHANGED <<lastJob, journalOpen, flag, unclosed>>, build'.job = build.job,
         NEW batch \in SUBSET Docs, NEW said, \A d \in batch : said[d] \in Verdicts,
         jobs' = NoteOutcomes(jobs, build.job, batch, said),
         Unsettled \ batch \subseteq Unsettled',
         (build.pc \in {"publish", "aside", "bare", "in", "reopen"} /\ Succeeded)' => AllSettled',
         build'.pc \notin {"attach", "attached"}, ~build'.ok
  PROVE  JournalKept
<1>1. /\ jobs' \in Journals /\ DOMAIN jobs' = DOMAIN jobs
      /\ \A j \in DOMAIN jobs : StateOf(jobs', j) = StateOf(jobs, j)
      /\ \A j \in DOMAIN jobs :
           /\ WithOutcome(jobs', j, "Pending") \subseteq WithOutcome(jobs, j, "Pending")
           /\ j = build.job => WithOutcome(jobs', j, "Pending") \cap batch = {}
  <2>1. jobs \in Journals BY DEF ISTypeOK
  <2>2. jobs' \in Journals /\ DOMAIN jobs' = DOMAIN jobs BY <2>1, Noting
  <2>3. \A j \in DOMAIN jobs : StateOf(jobs', j) = StateOf(jobs, j)
    <3>1. \A j \in DOMAIN jobs :
            StateOf(NoteOutcomes(jobs, build.job, batch, said), j) = StateOf(jobs, j)
      BY <2>1, Noting
    <3> QED BY <3>1
  <2>4. \A j \in DOMAIN jobs :
          /\ WithOutcome(jobs', j, "Pending") \subseteq WithOutcome(jobs, j, "Pending")
          /\ j = build.job => WithOutcome(jobs', j, "Pending") \cap batch = {}
    BY <2>1, Noting
  <2> QED BY <2>2, <2>3, <2>4
<1>2. JournalTyped' BY <1>1 DEF JournalTyped, ISTypeOK
<1>3. TaskInv'
  <2>1. build'.job \in DOMAIN jobs' =>
          WithOutcome(jobs', build'.job, "Pending")
            \subseteq WithOutcome(jobs, build.job, "Pending") \ batch
    BY <1>1
  <2>2. TaskInv BY DEF JournalInv
  <2> QED BY <1>1, <2>1, <2>2 DEF TaskInv
<1>4. RunningIsMine' BY <1>1 DEF RunningIsMine, JournalInv, StateOf
<1>5. CompletedIsWhole'
  <2>1. \A j \in DOMAIN jobs :
          WithOutcome(jobs, j, "Pending") = {} => WithOutcome(jobs', j, "Pending") = {}
    BY <1>1
  <2>2. \A j \in DOMAIN jobs' : WithOutcome(jobs, j, "Pending")' = WithOutcome(jobs', j, "Pending")
    BY DEF WithOutcome
  <2> QED BY <1>1, <2>1, <2>2 DEF CompletedIsWhole, JournalInv, StateOf
<1> QED BY <1>1, <1>2, <1>3, <1>4, <1>5 DEF JournalKept, JournalInv

LEMMA JournalOfBuild == ASSUME ISTypeOK, JournalInv, BuildStep PROVE JournalKept
<1> USE DEF Elsewhere, Untouched
<1>1. build = Idle \/ (build \in Tasks /\ build # Idle)
  <2>1. \A t \in Tasks : t # Idle
    <3>1. Idle.pc = "idle" BY DEF Idle
    <3>2. \A t \in Tasks : t.pc # "idle" BY DEF Tasks, Places
    <3> QED BY <3>1, <3>2
  <2>2. build = Idle \/ build \in Tasks BY DEF ISTypeOK, Tasks
  <2> QED BY <2>1, <2>2
<1>2. build # Idle => TaskInv BY DEF JournalInv
<1>3. CASE RecordJob \/ InstallFails \/ OpenStore \/ StopSeen \/ FlushStopped \/ LastDocument
  <2>1. build \in Tasks /\ build.pc \in {"begun", "recorded", "work"}
    <3>1. build.pc \in {"begun", "recorded", "work"}
      BY <1>3 DEF RecordJob, InstallFails, OpenStore, StopSeen, FlushStopped, Flushing,
         LastDocument
    <3> QED BY <1>1, <3>1 DEF Idle
  <2>2. /\ build'.job = build.job /\ build'.todo = build.todo /\ build'.pend = build.pend
        /\ build'.queue = build.queue /\ build'.ok = build.ok
        /\ \/ build'.pc \in {"recorded", "return", "work"} \/ build'.stopped
           \/ build.todo = {} /\ build.pend = {} /\ Queued = {}
    <3>1. CASE RecordJob \/ InstallFails BY <2>1, <3>1 DEF RecordJob, InstallFails, Tasks
    <3>2. CASE OpenStore
      <4>1. PICK source : build' = [build EXCEPT !.pc = "work", !.source = source]
        BY <3>2 DEF OpenStore
      <4> QED BY <2>1, <4>1 DEF Tasks
    <3>3. CASE StopSeen \/ FlushStopped BY <2>1, <3>3 DEF StopSeen, FlushStopped, Tasks
    <3>4. CASE LastDocument BY <2>1, <3>4 DEF LastDocument, Tasks
    <3> QED BY <1>3, <3>1, <3>2, <3>3, <3>4
  <2>0. build'.pc \in {"recorded", "return", "work", "publish"}
    <3>1. OpenStore => \E source : build' = [build EXCEPT !.pc = "work", !.source = source]
      BY DEF OpenStore
    <3> QED
      BY <1>3, <2>1, <3>1 DEF RecordJob, InstallFails, StopSeen, FlushStopped, LastDocument, Tasks
  <2>3. build # Idle /\ build' # Idle BY <2>0, <2>1 DEF Idle
  <2>4. UNCHANGED <<jobs, lastJob, journalOpen, flag, unclosed>>
    BY <1>3 DEF RecordJob, InstallFails, OpenStore, StopSeen, FlushStopped, LastDocument
  <2>5. Unsettled' = Unsettled BY <2>2 DEF Unsettled, Queued
  <2>6. ~build.ok BY <1>2, <2>1, <2>3 DEF TaskInv
  <2>7. (build.pc \in {"publish", "aside", "bare", "in", "reopen"} /\ Succeeded)' => AllSettled'
    BY <2>2, <2>5 DEF AllSettled, Succeeded, Unsettled
  <2> QED BY <2>0, <2>2, <2>3, <2>4, <2>5, <2>6, <2>7, JournalOfSilence
<1>4. CASE Publishing
  <2>1. /\ build \in Tasks /\ build.pc \in {"work", "publish", "aside", "bare", "in", "reopen"}
        /\ build.pc = "work" => BuildFails
        /\ UNCHANGED <<jobs, lastJob, journalOpen, flag, unclosed>>
    BY <1>1, <1>4 DEF Publishing, PublishNothing, BuildFails, Merge, BeginReplacement,
       RemoveSidecars, MoveAside, MoveIn, MoveInFails, Reopen, Idle
  <2>2. /\ build'.job = build.job /\ build'.todo = build.todo /\ build'.pend = build.pend
        /\ build'.queue = build.queue
        /\ build'.stopped = build.stopped /\ build'.failed = build.failed
        /\ build'.pc \in {"aside", "bare", "in", "reopen", "return"}
        /\ BuildFails => build'.pc = "return" /\ ~build'.ok
        /\ build'.ok => Succeeded /\ build'.pc = "return"
    <3>1. ~build.ok BY <1>2, <2>1 DEF TaskInv, Idle
    <3>0. BuildFails => build'.pc = "return" /\ ~build'.ok
      BY <2>1, <3>1 DEF BuildFails, Tasks
    <3>2. CASE PublishNothing
      <4>1. PICK ok \in {FALSE, Succeeded /\ Opens(Recovered, build.model)} :
              build' = [build EXCEPT !.pc = "return", !.source = "no", !.ok = ok]
        BY <3>2 DEF PublishNothing
      <4>2. build.pc = "publish" BY <3>2 DEF PublishNothing
      <4> QED BY <2>1, <3>0, <3>1, <4>1, <4>2 DEF Tasks
    <3>3. CASE Merge
      <4>1. PICK ok \in {FALSE, Succeeded} :
              build' = [build EXCEPT !.pc = "return", !.source = "no", !.saved = TRUE, !.ok = ok]
        BY <3>3 DEF Merge
      <4> QED BY <2>1, <3>0, <3>1, <4>1 DEF Tasks, Succeeded
    <3>4. CASE Reopen
      <4>1. PICK ok \in {FALSE, Succeeded /\ Opens(Recovered, build.model)} :
              build' = [build EXCEPT !.pc = "return", !.ok = ok]
        BY <3>4 DEF Reopen
      <4>2. build.pc = "reopen" BY <3>4 DEF Reopen
      <4> QED BY <2>1, <3>0, <3>1, <4>1, <4>2 DEF Tasks
    <3>5. CASE BuildFails BY <2>1, <3>0, <3>1, <3>5 DEF BuildFails, Tasks
    <3>6. CASE BeginReplacement \/ RemoveSidecars \/ MoveAside \/ MoveIn \/ MoveInFails
      BY <2>1, <3>0, <3>1, <3>6 DEF BeginReplacement, RemoveSidecars, MoveAside, MoveIn, MoveInFails,
         Tasks
    <3> QED BY <1>4, <3>2, <3>3, <3>4, <3>5, <3>6 DEF Publishing
  <2>3. build # Idle /\ build' # Idle BY <2>1, <2>2 DEF Idle
  <2>4. Unsettled' = Unsettled BY <2>2 DEF Unsettled, Queued
  <2>5. build.pc # "work" /\ Succeeded => AllSettled BY <1>2, <2>1, <2>3 DEF TaskInv
  <2> QED BY <2>1, <2>2, <2>3, <2>4, <2>5, JournalOfSilence DEF Succeeded, AllSettled
<1>5. ASSUME NEW d \in Docs, Read(d) \/ Extract(d) PROVE JournalKept
  <2>1. /\ build \in Tasks /\ build.pc = "work"
        /\ UNCHANGED <<jobs, lastJob, journalOpen, flag, unclosed>>
    BY <1>1, <1>5 DEF Read, Extract, Extracting, Idle
  <2>2. /\ build'.job = build.job /\ build'.pc = "work" /\ build'.ok = build.ok
        /\ Unsettled \subseteq Unsettled'
    <3>1. CASE Read(d) BY <2>1, <3>1 DEF Read, Tasks, Unsettled, Queued
    <3>2. CASE Extract(d) BY <2>1, <3>2 DEF Extract, Tasks, Unsettled, Queued
    <3> QED BY <1>5, <3>1, <3>2
  <2>3. build # Idle /\ build' # Idle BY <2>1, <2>2 DEF Idle
  <2>4. ~build.ok BY <1>2, <2>1, <2>3 DEF TaskInv
  <2> QED BY <2>1, <2>2, <2>3, <2>4, JournalOfSilence
<1>6. ASSUME NEW d \in Docs, Reuse(d) \/ ExtractYieldsNothing(d) PROVE JournalKept
  <2>1. /\ build \in Tasks /\ build.pc = "work"
        /\ UNCHANGED <<lastJob, journalOpen, flag, unclosed>>
    <3>1. CASE Reuse(d) BY <1>1, <3>1 DEF Reuse, Idle
    <3>2. CASE ExtractYieldsNothing(d)
      BY <1>1, <3>2 DEF ExtractYieldsNothing, Extracting, Idle
    <3> QED BY <1>6, <3>1, <3>2
  <2>2. PICK outcome \in {"Reused", "Empty", "Failed"} :
          /\ jobs' = NoteOutcome(jobs, build.job, d, outcome)
          /\ \/ build' = [build EXCEPT !.todo = @ \ {d}, !.said[d] = outcome]
             \/ build' = [build EXCEPT !.pend = @ \ {d}, !.said[d] = outcome]
    BY <1>6 DEF Reuse, ExtractYieldsNothing
  <2>3. /\ build'.job = build.job /\ build'.pc = "work" /\ build'.ok = build.ok
        /\ Unsettled \ {d} \subseteq Unsettled'
    <3>1. CASE build' = [build EXCEPT !.todo = @ \ {d}, !.said[d] = outcome]
      <4>1. /\ build'.job = build.job /\ build'.pc = "work" /\ build'.ok = build.ok
            /\ build'.todo = build.todo \ {d} /\ build'.pend = build.pend
            /\ build'.queue = build.queue
        BY <2>1, <3>1 DEF Tasks
      <4> QED BY <4>1 DEF Unsettled, Queued
    <3>2. CASE build' = [build EXCEPT !.pend = @ \ {d}, !.said[d] = outcome]
      <4>1. /\ build'.job = build.job /\ build'.pc = "work" /\ build'.ok = build.ok
            /\ build'.todo = build.todo /\ build'.pend = build.pend \ {d}
            /\ build'.queue = build.queue
        BY <2>1, <3>2 DEF Tasks
      <4> QED BY <4>1 DEF Unsettled, Queued
    <3> QED BY <2>2, <3>1, <3>2
  <2>4. build # Idle /\ build' # Idle BY <2>1, <2>3 DEF Idle
  <2>5. ~build.ok BY <1>2, <2>1, <2>4 DEF TaskInv
  <2> DEFINE said == [x \in {d} |-> outcome]
  <2>6. jobs' = NoteOutcomes(jobs, build.job, {d}, said) BY <2>2 DEF NoteOutcome
  <2>7. \A x \in {d} : said[x] \in Verdicts BY DEF Verdicts
  <2>8. {d} \in SUBSET Docs OBVIOUS
  <2> HIDE DEF said
  <2> QED BY <2>1, <2>3, <2>4, <2>5, <2>6, <2>7, <2>8, JournalOfNote
<1>7. CASE Flush \/ FlushFails
  <2>1. /\ build \in Tasks /\ build.pc = "work"
        /\ UNCHANGED <<lastJob, journalOpen, flag, unclosed>>
    <3>1. CASE Flush BY <1>1, <3>1 DEF Flush, Flushing, Idle
    <3>2. CASE FlushFails BY <1>1, <3>2 DEF FlushFails, Flushing, Idle
    <3> QED BY <1>7, <3>1, <3>2
  <2>2. PICK said :
          /\ \A d \in Queued : said[d] \in Verdicts
          /\ jobs' = NoteOutcomes(jobs, build.job, Queued, said)
          /\ build'.job = build.job /\ build'.todo = build.todo /\ build'.pend = build.pend
          /\ build'.queue = Emptied /\ build'.ok = build.ok
          /\ build'.pc = "work" \/ (build'.pc = "publish" /\ build'.failed)
    <3>1. CASE Flush
      <4> DEFINE there == {d \in Queued : disk[d] # 0}
                 said  == [d \in Docs |-> IF d \in there THEN "Indexed"
                                  ELSE IF d \in Queued THEN "Failed" ELSE build.said[d]]
      <4>1. \A d \in Queued : said[d] \in Verdicts BY DEF Verdicts, Queued
      <4>2. /\ jobs' = NoteOutcomes(jobs, build.job, Queued, said)
            /\ build' = [build EXCEPT !.queue = Emptied, !.said = said]
        BY <3>1 DEF Flush
      <4> HIDE DEF said
      <4>3. /\ build'.job = build.job /\ build'.todo = build.todo /\ build'.pend = build.pend
            /\ build'.queue = Emptied /\ build'.ok = build.ok /\ build'.pc = "work"
        BY <2>1, <4>2 DEF Tasks
      <4> QED BY <4>1, <4>2, <4>3
    <3>2. CASE FlushFails
      <4> DEFINE said == [d \in Docs |-> IF d \in Queued THEN "Failed" ELSE build.said[d]]
      <4>1. \A d \in Queued : said[d] \in Verdicts BY DEF Verdicts, Queued
      <4>2. PICK fatal \in BOOLEAN :
              /\ jobs' = NoteOutcomes(jobs, build.job, Queued, said)
              /\ build' = [build EXCEPT !.queue = Emptied, !.said = said, !.failed = fatal,
                                        !.pc = IF fatal THEN "publish" ELSE @]
        BY <3>2 DEF FlushFails
      <4> HIDE DEF said
      <4>3. /\ build'.job = build.job /\ build'.todo = build.todo /\ build'.pend = build.pend
            /\ build'.queue = Emptied /\ build'.ok = build.ok
            /\ build'.pc = "work" \/ (build'.pc = "publish" /\ build'.failed)
        BY <2>1, <4>2 DEF Tasks
      <4> QED BY <4>1, <4>2, <4>3
    <3> QED BY <1>7, <3>1, <3>2
  <2>3. build # Idle /\ build' # Idle BY <2>1, <2>2 DEF Idle
  <2>4. ~build.ok BY <1>2, <2>1, <2>3 DEF TaskInv
  <2>5. Unsettled \ Queued \subseteq Unsettled' BY <2>2 DEF Unsettled
  <2>6. Queued \in SUBSET Docs BY DEF Queued
  <2> QED BY <2>1, <2>2, <2>3, <2>4, <2>5, <2>6, JournalOfNote DEF Succeeded
<1>8. CASE EndCancelled \/ EndFailed \/ EndUnattached \/ EndAttached
  <2>1. build \in Tasks /\ build.pc \in {"return", "attached"} /\ TaskInv
    BY <1>1, <1>2, <1>8 DEF EndCancelled, EndFailed, EndUnattached, EndAttached, Ended, Idle
  <2>2. build' = Idle /\ UNCHANGED <<lastJob, journalOpen, flag, unclosed>>
    BY <1>8 DEF EndCancelled, EndFailed, EndUnattached, EndAttached, Ended, TaskLeaves, NotAttached
  <2>3. jobs \in Journals BY DEF ISTypeOK
  <2>4. CASE flag /\ UNCHANGED jobs
    BY <2>2, <2>4 DEF JournalKept, JournalTyped, JournalInv, RunningIsMine, CompletedIsWhole,
       WithOutcome, ISTypeOK
  <2>5. ASSUME ~flag, NEW state \in Closed, jobs' = Finish(jobs, build.job, state),
               state = "Completed" => build.ok
        PROVE  JournalKept
    <3>1. /\ jobs' \in Journals /\ DOMAIN jobs' = DOMAIN jobs
          /\ \A j \in DOMAIN jobs :
               /\ jobs'[j].state = IF j = build.job THEN state ELSE jobs[j].state
               /\ jobs'[j].docs = jobs[j].docs
      BY <2>3, <2>5, Finishing
    <3>2. RunningIsMine'
      BY <2>2, <3>1 DEF RunningIsMine, JournalInv, Closed
    <3>3. CompletedIsWhole'
      <4>1. state = "Completed" /\ build.job \in DOMAIN jobs
              => WithOutcome(jobs, build.job, "Pending") = {}
        BY <2>1, <2>5 DEF TaskInv, AllSettled
      <4> QED BY <3>1, <4>1 DEF CompletedIsWhole, WithOutcome, JournalInv
    <3> QED BY <2>2, <3>1, <3>2, <3>3 DEF JournalKept, JournalTyped, JournalInv, ISTypeOK
  <2>6. EndAttached => ~flag /\ build.ok BY <2>1 DEF EndAttached, TaskInv
  <2> QED
    BY <1>8, <2>4, <2>5, <2>6 DEF EndCancelled, EndFailed, EndUnattached, EndAttached, Closed
<1>9. CASE AttachEmbedder \/ AttachIndex
  <2>1. /\ build \in Tasks /\ build # Idle /\ build.ok /\ ~flag
        /\ UNCHANGED <<jobs, lastJob, journalOpen, flag, unclosed>>
    <3>1. build.pc \in {"return", "attach"} BY <1>9 DEF AttachEmbedder, AttachIndex
    <3>2. build \in Tasks /\ build # Idle BY <1>1, <3>1 DEF Idle
    <3>3. build.ok /\ ~flag BY <1>2, <1>9, <3>2 DEF AttachEmbedder, AttachIndex, TaskInv
    <3> QED BY <1>9, <3>2, <3>3 DEF AttachEmbedder, AttachIndex, TaskLeaves
  <2>2. /\ build'.job = build.job /\ build'.todo = build.todo /\ build'.pend = build.pend
        /\ build'.queue = build.queue /\ build'.ok /\ build'.pc \in {"attach", "attached"}
    BY <1>9, <2>1 DEF AttachEmbedder, AttachIndex, Tasks
  <2>3. build' # Idle BY <2>2 DEF Idle
  <2>4. Unsettled' = Unsettled BY <2>2 DEF Unsettled, Queued
  <2>5. AllSettled BY <1>2, <2>1 DEF TaskInv
  <2> QED BY <2>1, <2>2, <2>3, <2>4, <2>5, JournalOfSilence DEF AllSettled
<1> QED BY <1>3, <1>4, <1>5, <1>6, <1>7, <1>8, <1>9 DEF BuildStep

\* A canceller closes the row of the build if that is recorded, a panic leaves it to
\* nobody, a deletion takes rows away, and a crash leaves them to whoever opens the
\* journal next.
LEMMA JournalOfContext ==
  ASSUME ISTypeOK, JournalInv,
         Cancel \/ Panic \/ DeleteAll \/ Crash \/ \E root \in Roots : DeleteCoverage(root)
  PROVE  JournalKept
<1>1. jobs \in Journals /\ lastJob \in 0..MaxJobs BY DEF ISTypeOK
<1>2. /\ \A j \in DOMAIN jobs : j <= lastJob
      /\ build # Idle => TaskInv
      /\ RunningIsMine /\ CompletedIsWhole
  BY DEF JournalInv
<1>3. ASSUME build # Idle, UNCHANGED <<lastJob, journalOpen>>,
             UNCHANGED build \/ build' = Idle,
             build'.pc \in {"attach", "attached"} => ~flag',
             NEW state \in Closed \ {"Completed"},
             \/ jobs' = Finish(jobs, build.job, state) /\ unclosed \subseteq unclosed'
             \/ jobs' = jobs /\ unclosed' = unclosed \cup {build.job}
      PROVE  JournalKept
  <2>1. /\ jobs' \in Journals /\ DOMAIN jobs' = DOMAIN jobs
        /\ \A j \in DOMAIN jobs :
             /\ jobs'[j].state = jobs[j].state \/ (j = build.job /\ jobs'[j].state = state)
             /\ jobs'[j].docs = jobs[j].docs
             /\ jobs'[j].state = "Running" /\ j = build.job => j \in unclosed'
    <3>1. CASE jobs' = Finish(jobs, build.job, state)
      BY <1>1, <3>1, Finishing DEF Closed
    <3>2. CASE jobs' = jobs /\ unclosed' = unclosed \cup {build.job} BY <1>1, <3>2
    <3> QED BY <1>3, <3>1, <3>2
  <2>2. unclosed \subseteq unclosed' BY <1>3
  <2>3. build' # Idle => TaskInv'
    <3>1. \A j \in DOMAIN jobs : WithOutcome(jobs', j, "Pending") = WithOutcome(jobs, j, "Pending")
      BY <2>1 DEF WithOutcome
    <3>2. UNCHANGED build => Unsettled' = Unsettled BY DEF Unsettled, Queued
    <3> QED BY <1>2, <1>3, <2>1, <3>1, <3>2 DEF TaskInv, AllSettled, Succeeded
  <2>4. RunningIsMine'
    <3>1. state # "Running" BY DEF Closed
    <3> QED BY <1>2, <1>3, <2>1, <2>2, <3>1 DEF RunningIsMine
  <2>5. CompletedIsWhole' BY <1>2, <1>3, <2>1 DEF CompletedIsWhole, WithOutcome
  <2>6. JournalTyped' BY <1>1, <1>3, <2>1 DEF JournalTyped, ISTypeOK
  <2> QED BY <1>2, <1>3, <2>1, <2>3, <2>4, <2>5, <2>6 DEF JournalKept, JournalInv
<1>6. CASE Cancel
  <2>1. /\ build # Idle /\ UNCHANGED <<lastJob, journalOpen, build>>
        /\ build.pc \notin {"attach", "attached"}
        /\ \/ jobs' = Finish(jobs, build.job, "Cancelled") /\ unclosed' = unclosed
           \/ jobs' = jobs /\ unclosed' = unclosed \cup {build.job}
    BY <1>6 DEF Cancel, Cancelled, Idle
  <2>2. "Cancelled" \in Closed \ {"Completed"} BY DEF Closed
  <2> QED BY <1>3, <2>1, <2>2
<1>7. CASE Panic
  <2>1. /\ build # Idle /\ UNCHANGED <<lastJob, journalOpen>> /\ build' = Idle
        /\ jobs' = Finish(jobs, build.job, "Cancelled") \/ jobs' = jobs
        /\ unclosed' = unclosed \cup {build.job}
    BY <1>7 DEF Panic, Idle
  <2>2. "Cancelled" \in Closed \ {"Completed"} BY DEF Closed
  <2>3. build'.pc \notin {"attach", "attached"} BY <2>1 DEF Idle
  <2> QED BY <1>3, <2>1, <2>2, <2>3
<1>4. ASSUME NEW root \in Roots, DeleteCoverage(root) PROVE JournalKept
  <2>1. /\ jobs' = ForgetRoot(Journal, root) /\ journalOpen' = TRUE
        /\ UNCHANGED <<build, lastJob, flag, unclosed>>
    BY <1>4 DEF DeleteCoverage, BuildAside, NoDeletion
  <2>2. /\ jobs' \in Journals /\ DOMAIN jobs' \subseteq DOMAIN jobs
        /\ \A j \in DOMAIN jobs' : jobs'[j] = Journal[j]
    BY <2>1, JournalOpened, Forgetting
  <2>3. \A j \in DOMAIN jobs' : WithOutcome(jobs', j, "Pending") = WithOutcome(jobs, j, "Pending")
    BY <2>2, JournalOpened DEF WithOutcome
  <2>4. build # Idle => TaskInv'
    <3>1. Unsettled' = Unsettled BY <2>1 DEF Unsettled, Queued
    <3> QED BY <1>2, <2>1, <2>2, <2>3, <3>1 DEF TaskInv, AllSettled, Succeeded
  <2>5. RunningIsMine' BY <1>2, <2>1, <2>2, JournalOpened DEF RunningIsMine
  <2>6. CompletedIsWhole' BY <1>2, <2>2, JournalOpened DEF CompletedIsWhole, WithOutcome
  <2>7. JournalTyped' BY <1>1, <2>1, <2>2 DEF JournalTyped
  <2> QED BY <1>2, <2>1, <2>2, <2>4, <2>5, <2>6, <2>7 DEF JournalKept, JournalInv
<1>5. CASE DeleteAll \/ Crash
  <2>1. /\ journalOpen' \in BOOLEAN /\ UNCHANGED lastJob
        /\ DeleteAll => jobs' = << >> /\ journalOpen' = TRUE /\ UNCHANGED flag
        /\ Crash => jobs' = jobs /\ journalOpen' = FALSE /\ build' = Idle
    BY <1>5 DEF DeleteAll, Crash, NoDeletion
  <2>2. CASE Crash
    BY <1>1, <1>2, <2>1, <2>2 DEF JournalKept, JournalTyped, JournalInv, RunningIsMine,
       CompletedIsWhole, WithOutcome
  <2>3. CASE DeleteAll
    <3>1. DOMAIN jobs' = {} BY <2>1, <2>3
    <3>2. jobs' \in Journals
      <4>1. jobs' \in [{} -> Job] BY <2>1, <2>3
      <4>2. {} \in SUBSET JobIds OBVIOUS
      <4> QED BY <4>1, <4>2, RowsAreJournal
    <3>3. ASSUME build' # Idle PROVE TaskInv'
      <4>1. build # Idle => build \in Tasks BY DEF ISTypeOK, Tasks
      <4>2. /\ build # Idle /\ build'.job = build.job /\ build'.todo = build.todo
            /\ build'.pend = build.pend /\ build'.queue = build.queue /\ build'.ok = build.ok
            /\ build'.pc = build.pc /\ build'.stopped = build.stopped
            /\ build'.failed = build.failed
        <5>1. CASE build.pc = "work" /\ build.source = "live"
          <6>1. build # Idle BY <5>1 DEF Idle
          <6>2. build' = [build EXCEPT !.source = "unlinked"] BY <2>3, <5>1 DEF DeleteAll
          <6> QED BY <4>1, <6>1, <6>2 DEF Tasks
        <5>2. CASE ~(build.pc = "work" /\ build.source = "live")
          <6>1. build' = build BY <2>3, <5>2 DEF DeleteAll
          <6> QED BY <3>3, <6>1
        <5> QED BY <5>1, <5>2
      <4>3. Unsettled' = Unsettled BY <4>2 DEF Unsettled, Queued
      <4> QED BY <1>2, <2>1, <2>3, <3>1, <4>2, <4>3 DEF TaskInv, AllSettled, Succeeded
    <3> QED
      BY <1>1, <2>1, <2>3, <3>1, <3>2, <3>3
      DEF JournalKept, JournalTyped, JournalInv, RunningIsMine, CompletedIsWhole
  <2> QED BY <1>5, <2>2, <2>3
<1> QED BY <1>4, <1>5, <1>6, <1>7

LEMMA JournalAlways == ASSUME ISTypeOK, JournalInv, [ISNext]_vars PROVE JournalKept
<1>1. ASSUME UNCHANGED <<jobs, lastJob, journalOpen, build, flag, unclosed>> PROVE JournalKept
  <2>1. JournalTyped' BY <1>1 DEF JournalTyped, ISTypeOK
  <2>2. TaskInv => TaskInv' BY <1>1 DEF TaskInv, Unsettled, AllSettled, Queued, Succeeded, WithOutcome
  <2>3. RunningIsMine' /\ CompletedIsWhole'
    BY <1>1 DEF RunningIsMine, CompletedIsWhole, WithOutcome, JournalInv
  <2> QED BY <1>1, <2>1, <2>2, <2>3 DEF JournalKept, JournalInv
<1>2. CASE RestoreEmbedder \/ RestoreInstalls \/ DeleteMissing \/ OpenerLooks \/ OpenerActs
             \/ RollBackReplacement \/ UNCHANGED vars
  BY <1>1, <1>2 DEF RestoreEmbedder, RestoreInstalls, DeleteMissing, OpenerLooks, OpenerActs,
     RollBackReplacement, ReaderAside, BuildAside, NoDeletion, vars
<1>3. ASSUME NEW semantic \in BOOLEAN, RestoreLoads(semantic) PROVE JournalKept
  BY <1>1, <1>3 DEF RestoreLoads, BuildAside, NoDeletion
<1>4. ASSUME NEW d \in Docs, NEW old \in Docs,
             WatchWrite(d) \/ WatchRemove(d) \/ WatchRename(old, d) \/ Edit(d)
      PROVE  JournalKept
  BY <1>1, <1>4 DEF WatchWrite, WatchRemove, WatchRename, Updates, Edit, BuildAside, NoDeletion
<1> QED
  BY <1>2, <1>3, <1>4, JournalOfBegin, JournalOfBuild, JournalOfContext DEF ISNext

(***************************************************************************)
(* Files and the connections to them.                                      *)
(***************************************************************************)
HasIndex == dir.live # None \/ dir.backup # None

FilesTyped ==
  /\ dir \in [Names -> Databases] /\ (dir.main = None <=> dir.live = None)
  /\ opened \in Opening
FilesKept  == FilesTyped' /\ FilesInv' /\ (HasIndex => HasIndex' \/ deleted')

OpenExists == \A u \in Users : opened[u] \in {"live", "backup"} => dir[opened[u]] # None

LEMMA FilesFacts ==
  ASSUME StoreInv
  PROVE  /\ FilesTyped /\ OpenExists /\ (build = Idle \/ build \in Tasks)
         /\ \A n \in Names : dir[n] # None => dir[n] \in Files
         /\ disk \in [Docs -> Versions]
BY DEF StoreInv, ISTypeOK, FilesInv, FilesTyped, OpenExists, Databases, Opening, Tasks

\* The backup is renamed into the place of the live file.
LEMMA PuttingInPlace ==
  ASSUME FilesTyped, OpenExists, dir.backup # None,
         dir' = InPlace(dir.backup), opened' = Renamed("backup", "live")
  PROVE  /\ FilesTyped' /\ OpenExists' /\ HasIndex'
         /\ dir'.live # None /\ dir'.backup = None /\ dir'.tmp = dir.tmp
         /\ dir'.unlinked = dir.unlinked
<1>1. dir.backup \in Databases /\ None \in Databases BY DEF FilesTyped, Databases, Names
<1>2. /\ dir' \in [Names -> Databases] /\ dir'.live = dir.backup /\ dir'.main = dir.backup
      /\ dir'.backup = None /\ dir'.tmp = dir.tmp /\ dir'.unlinked = dir.unlinked
  BY <1>1 DEF InPlace, FilesTyped, Names
<1>3. opened' \in Opening BY ConnectionsKept DEF FilesTyped
<1>4. OpenExists' BY <1>2 DEF OpenExists, FilesTyped, Renamed, Opening
<1> QED BY <1>2, <1>3, <1>4 DEF FilesTyped, HasIndex

\* The steps of a build that write no file but may end its work.
LEMMA FilesOfSilence ==
  ASSUME StoreInv, UNCHANGED <<dir, opened, opener, deleted>>,
         \/ {build.pc, build'.pc} \subseteq {"idle", "begun", "recorded", "return", "attach",
                                           "attached"}
         \/ build.pc = "work" /\ build'.pc = "publish"
         \/ build.pc = "work" /\ build'.pc = "work" /\ build'.source = build.source
  PROVE  FilesKept
<1>1. FilesTyped' BY FilesFacts DEF FilesTyped
<1>2. FilesInv' BY DEF StoreInv, FilesInv, Filling
<1> QED BY <1>1, <1>2 DEF FilesKept, HasIndex

LEMMA FilesOfWork ==
  ASSUME StoreInv,
         \/ RecordJob \/ InstallFails \/ OpenStore \/ StopSeen \/ LastDocument \/ Flush \/ FlushFails
         \/ FlushStopped
         \/ \E d \in Docs : Reuse(d) \/ Read(d) \/ Extract(d) \/ ExtractYieldsNothing(d)
  PROVE  FilesKept
<1> USE DEF Elsewhere, Untouched
<1>1. /\ FilesTyped /\ OpenExists /\ (build = Idle \/ build \in Tasks)
      /\ \A n \in Names : dir[n] # None => dir[n] \in Files
      /\ disk \in [Docs -> Versions]
  BY FilesFacts
<1>2. build.pc # "idle" => build \in Tasks BY <1>1 DEF Idle
<1>3. CASE RecordJob \/ InstallFails \/ StopSeen \/ LastDocument \/ FlushStopped
  <2>1. CASE RecordJob \/ InstallFails
    BY <1>2, <2>1, FilesOfSilence DEF RecordJob, InstallFails, Tasks
  <2>2. CASE StopSeen BY <1>2, <2>2, FilesOfSilence DEF StopSeen, Tasks
  <2>3. CASE LastDocument BY <1>2, <2>3, FilesOfSilence DEF LastDocument, Tasks
  <2>4. CASE FlushStopped BY <1>2, <2>4, FilesOfSilence DEF FlushStopped, Flushing, Tasks
  <2> QED BY <1>3, <2>1, <2>2, <2>3, <2>4
<1>4. ASSUME NEW d \in Docs, Read(d) \/ Extract(d) \/ ExtractYieldsNothing(d) PROVE FilesKept
  <2>1. CASE Read(d) BY <1>2, <2>1, FilesOfSilence DEF Read, Tasks
  <2>2. CASE Extract(d) BY <1>2, <2>2, FilesOfSilence DEF Extract, Extracting, Tasks
  <2>3. CASE ExtractYieldsNothing(d)
    BY <1>2, <2>3, FilesOfSilence DEF ExtractYieldsNothing, Extracting, Tasks
  <2> QED BY <1>4, <2>1, <2>2, <2>3
<1>5. CASE FlushFails
  <2>1. build.pc = "work" /\ build \in Tasks BY <1>2, <1>5 DEF FlushFails, Flushing
  <2> DEFINE said == [d \in Docs |-> IF d \in Queued THEN "Failed" ELSE build.said[d]]
  <2>2. PICK fatal \in BOOLEAN :
          build' = [build EXCEPT !.queue = Emptied, !.said = said, !.failed = fatal,
                                 !.pc = IF fatal THEN "publish" ELSE @]
    BY <1>5 DEF FlushFails
  <2> QED BY <1>5, <2>1, <2>2, FilesOfSilence DEF FlushFails, Tasks
<1>6. CASE OpenStore
  <2>1. build \in Tasks BY <1>2, <1>6 DEF OpenStore
  <2>2. /\ dir' = [Recovered EXCEPT !.tmp = Empty(build.model)]
        /\ opened' = OpenedAfterRecovery /\ opener = "idle" /\ UNCHANGED <<opener, deleted>>
    BY <1>6 DEF OpenStore
  <2>3. Empty(build.model) \in Files BY <2>1, EmptyIsDatabase DEF Tasks
  <2>4. /\ FilesTyped' /\ dir'.backup = None /\ dir'.tmp # None
        /\ dir'.live = Recovered.live
    BY <1>1, <2>2, <2>3, Recovery, ConnectionsKept, NoneAssumption DEF FilesTyped, Databases, Names
  <2>5. build'.pc = "work" /\ (build'.source = "no" \/ (build'.source = "live" /\ dir'.live # None))
    BY <1>6, <2>1, <2>4 DEF OpenStore, Opens, Tasks
  <2>6. OpenExists'
    <3>1. \A n \in {"live", "backup"} : dir'[n] = Recovered[n]
      BY <1>1, <2>2, Recovery DEF FilesTyped, Names
    <3> QED BY <1>1, <2>2, <3>1, RecoveryKeepsOpen DEF OpenExists, FilesTyped
  <2>7. FilesInv' BY <2>2, <2>4, <2>5, <2>6 DEF FilesInv, OpenExists, Filling
  <2>8. HasIndex => HasIndex' BY <1>1, <2>4, Recovery DEF HasIndex, FilesTyped
  <2> QED BY <2>4, <2>7, <2>8 DEF FilesKept
\* A written row: the temporary file remains one.
<1>7. ASSUME build.pc = "work", build'.pc = "work", build'.source = build.source,
             UNCHANGED <<opened, opener, deleted>>,
             NEW db \in Files, dir' = [dir EXCEPT !.tmp = db]
      PROVE  FilesKept
  <2>1. FilesTyped' /\ dir'.tmp = db /\ \A n \in Names \ {"tmp"} : dir'[n] = dir[n]
    BY <1>1, <1>7 DEF FilesTyped, Databases, Names
  <2>2. build.source # "no" => build.source \in {"live", "unlinked"}
    BY <1>2, <1>7 DEF Tasks
  <2>3. FilesInv'
    BY <1>7, <2>1, <2>2, NoneAssumption DEF StoreInv, FilesInv, Filling, Names
  <2>4. HasIndex' = HasIndex BY <2>1 DEF HasIndex, Names
  <2> QED BY <2>1, <2>3, <2>4 DEF FilesKept
<1>8. build.pc = "work" => dir.tmp \in Files /\ (build.source # "no" => dir[build.source] \in Files)
  <2>1. build.pc = "work" => dir.tmp # None /\ (build.source # "no" => dir[build.source] # None)
    BY DEF StoreInv, FilesInv, Filling
  <2>2. build.pc = "work" => build.source \in {"no", "live", "unlinked"} BY <1>2 DEF Tasks
  <2>3. "tmp" \in Names /\ "live" \in Names /\ "unlinked" \in Names BY DEF Names
  <2> QED BY <1>1, <2>1, <2>2, <2>3
<1>9. ASSUME NEW d \in Docs, Reuse(d) PROVE FilesKept
  <2> DEFINE db == WriteFile(dir.tmp, build.root, d, dir[build.source].rows[d].text)
  <2>1. build.pc = "work" /\ build \in Tasks /\ build.source # "no"
    BY <1>2, <1>9 DEF Reuse, Reusable
  <2>2. db \in Files
    <3>1. dir[build.source].rows[d].text \in Versions BY <1>8, <2>1 DEF Files, Rows
    <3> QED BY <1>1, <1>8, <2>1, <3>1, WriteFileIsDatabase DEF Tasks
  <2>3. build'.pc = "work" /\ build'.source = build.source BY <1>9, <2>1 DEF Reuse, Tasks
  <2>4. dir' = [dir EXCEPT !.tmp = db] BY <1>9 DEF Reuse
  <2> HIDE DEF db
  <2> QED BY <1>7, <1>9, <2>1, <2>2, <2>3, <2>4 DEF Reuse
<1>10. CASE Flush
  <2> DEFINE there == {d \in Queued : disk[d] # 0}
             said  == [d \in Docs |-> IF d \in there THEN "Indexed"
                              ELSE IF d \in Queued THEN "Failed" ELSE build.said[d]]
             rows  == [d \in Docs |-> IF d \in there THEN [text |-> build.queue[d], id |-> disk[d]]
                              ELSE dir.tmp.rows[d]]
             held  == dir.tmp.held \cup ({build.root} \X there)
             db    == [dir.tmp EXCEPT !.rows = rows, !.held = held]
  <2>1. build.pc = "work" /\ build \in Tasks BY <1>2, <1>10 DEF Flush, Flushing
  <2>2. dir' = [dir EXCEPT !.tmp = db] /\ UNCHANGED <<opened, opener, deleted>>
        /\ build' = [build EXCEPT !.queue = Emptied, !.said = said]
    BY <1>10 DEF Flush
  <2>3. db \in Files
    <3>1. \A d \in Docs : build.queue[d] \in Versions BY <2>1 DEF Tasks
    <3>2. rows \in [Docs -> Rows] BY <1>1, <1>8, <2>1, <3>1 DEF Files, Rows
    <3>3. held \in SUBSET (Roots \X Docs) BY <1>8, <2>1 DEF Files, Tasks, Queued
    <3> HIDE DEF rows, held
    <3> QED BY <1>8, <2>1, <3>2, <3>3 DEF Files
  <2> HIDE DEF db, said
  <2>4. build'.pc = "work" /\ build'.source = build.source BY <2>1, <2>2 DEF Tasks
  <2> QED BY <1>7, <2>1, <2>2, <2>3, <2>4
<1> QED BY <1>3, <1>4, <1>5, <1>6, <1>9, <1>10

\* Publication. Until the live index is moved aside there is no backup, and from
\* then until the new one is in place nobody looked for one to delete.
LEMMA FilesOfPublishing == ASSUME StoreInv, Publishing PROVE FilesKept
<1> USE DEF Elsewhere, Untouched
<1>1. /\ FilesTyped /\ OpenExists /\ (build = Idle \/ build \in Tasks)
      /\ \A n \in Names : dir[n] # None => dir[n] \in Files
  BY FilesFacts
<1>2. build.pc # "idle" => build \in Tasks BY <1>1 DEF Idle
<1>3. /\ Recovered \in [Names -> Databases] /\ Recovered.backup = None
      /\ Recovered.live # None <=> HasIndex
      /\ (Recovered.main = None <=> Recovered.live = None)
      /\ Recovered.tmp = dir.tmp /\ OpenedAfterRecovery \in Opening
  BY <1>1, Recovery, ConnectionsKept DEF FilesTyped, HasIndex
<1>4. \A u \in Users : OpenedAfterRecovery[u] \in {"live", "backup"}
                          => Recovered[OpenedAfterRecovery[u]] # None
  BY <1>1, RecoveryKeepsOpen DEF FilesTyped, OpenExists
<1>5. /\ build.pc \in Filling => dir.backup = None /\ opener = "idle"
      /\ build.pc \in Filling \cup {"in"} => dir.tmp # None
      /\ opener = "finish" =>
           build.pc \notin Filling \cup {"in"} /\ (dir.live # None \/ deleted)
  BY DEF StoreInv, FilesInv
<1>6. UNCHANGED opener
  BY DEF Publishing, PublishNothing, BuildFails, Merge, BeginReplacement, RemoveSidecars,
     MoveAside, MoveIn, MoveInFails, Reopen
<1>7. None \in Databases BY DEF Databases
<1>8. CASE PublishNothing
  <2>1. build'.pc = "return" /\ UNCHANGED deleted
    <3>1. PICK ok : build' = [build EXCEPT !.pc = "return", !.source = "no", !.ok = ok]
      BY <1>8 DEF PublishNothing
    <3>2. build \in Tasks BY <1>2, <1>8 DEF PublishNothing
    <3> QED BY <1>8, <3>1, <3>2 DEF PublishNothing, Tasks
  <2>2. \/ /\ dir' = [Recovered EXCEPT !.tmp = None, !.unlinked = None]
           /\ opened' = OpenedAfterRecovery
        \/ dir' = [dir EXCEPT !.tmp = None, !.unlinked = None] /\ opened' = opened
    BY <1>8 DEF PublishNothing
  <2>3. opener = "idle" BY <1>5, <1>8 DEF PublishNothing, Filling
  <2>4. FilesTyped' /\ OpenExists' /\ (HasIndex => HasIndex')
    <3>1. CASE /\ dir' = [Recovered EXCEPT !.tmp = None, !.unlinked = None]
               /\ opened' = OpenedAfterRecovery
      BY <1>3, <1>4, <1>7, <3>1 DEF FilesTyped, OpenExists, HasIndex, Names
    <3>2. CASE dir' = [dir EXCEPT !.tmp = None, !.unlinked = None] /\ opened' = opened
      BY <1>1, <1>7, <3>2 DEF FilesTyped, OpenExists, HasIndex, Names
    <3> QED BY <2>2, <3>1, <3>2
  <2> QED BY <1>6, <2>1, <2>3, <2>4 DEF FilesKept, FilesInv, OpenExists, Filling
<1>9. CASE BuildFails
  <2>1. /\ build'.pc = "return" /\ UNCHANGED <<opened, deleted>>
        /\ dir' = [dir EXCEPT !.unlinked = None]
    BY <1>2, <1>9 DEF BuildFails, Tasks
  <2>2. opener = "idle" BY <1>5, <1>9 DEF BuildFails, Filling
  <2>3. FilesTyped' /\ OpenExists' /\ (HasIndex => HasIndex')
    BY <1>1, <1>7, <2>1 DEF FilesTyped, OpenExists, HasIndex, Names
  <2> QED BY <1>6, <2>1, <2>2, <2>3 DEF FilesKept, FilesInv, OpenExists, Filling
<1>10. CASE Merge
  <2> DEFINE db   == MergeRootFrom(Recovered.live, dir.tmp, build.root, Membership)
             over == [Recovered EXCEPT !.tmp = None, !.unlinked = None]
  <2>1. build \in Tasks /\ build.pc = "publish" /\ Recovered.live # None
    BY <1>2, <1>10 DEF Merge, Opens
  <2>2. build'.pc = "return" /\ opened' = OpenedAfterRecovery /\ dir' \in Committed(over, opened', db)
    <3>1. PICK ok : build' = [build EXCEPT !.pc = "return", !.source = "no", !.saved = TRUE, !.ok = ok]
      BY <1>10 DEF Merge
    <3> QED BY <1>10, <2>1, <3>1 DEF Merge, Tasks
  <2>3. opener = "idle" /\ dir.tmp # None BY <1>5, <2>1 DEF Filling
  <2>4. db \in Files
    <3>1. dir.tmp \in Files BY <1>1, <2>3 DEF Names
    <3>2. Recovered.live \in Files BY <1>3, <2>1 DEF Databases, Names
    <3> QED BY <2>1, <3>1, <3>2, MergedIsDatabase DEF Tasks
  <2>5. /\ over \in [Names -> Databases] /\ over.live # None /\ (over.main = None <=> over.live = None)
        /\ over.live = Recovered.live /\ over.backup = None
    BY <1>3, <1>7, <2>1 DEF Names
  <2> HIDE DEF db, over
  <2>6. /\ dir' \in [Names -> Databases] /\ dir'.live = db /\ dir'.main # None /\ dir'.backup = None
    BY <2>2, <2>4, <2>5, Committing
  <2>7. FilesTyped' /\ OpenExists' /\ HasIndex'
    BY <1>3, <1>4, <2>2, <2>4, <2>6, NoneAssumption DEF FilesTyped, OpenExists, HasIndex
  <2> QED BY <1>6, <2>2, <2>3, <2>7 DEF FilesKept, FilesInv, OpenExists, Filling
<1>11. CASE BeginReplacement
  <2>1. /\ build.pc = "publish" /\ build'.pc = "aside" /\ opened' = OpenedAfterRecovery
        /\ dir' = [Recovered EXCEPT !.unlinked = None] /\ UNCHANGED deleted
    BY <1>2, <1>11 DEF BeginReplacement, Tasks
  <2>2. opener = "idle" /\ dir.tmp # None BY <1>5, <2>1 DEF Filling
  <2>3. FilesTyped' /\ OpenExists' /\ (HasIndex => HasIndex') /\ dir'.backup = None
        /\ dir'.tmp # None
    BY <1>3, <1>4, <1>7, <2>1, <2>2 DEF FilesTyped, OpenExists, HasIndex, Names
  <2> QED BY <1>6, <2>1, <2>2, <2>3 DEF FilesKept, FilesInv, OpenExists, Filling
<1>12. CASE RemoveSidecars \/ MoveAside
  <2>0. build \in Tasks /\ build.pc \in {"aside", "bare"}
    BY <1>2, <1>12 DEF RemoveSidecars, MoveAside
  <2>1. opener = "idle" /\ dir.tmp # None /\ dir.backup = None BY <1>5, <2>0 DEF Filling
  <2>2. dir.main \in Databases /\ (dir.main = None <=> dir.live = None)
    BY <1>1 DEF FilesTyped, Names
  <2>3. CASE RemoveSidecars
    <3>1. /\ build'.pc = "bare" /\ dir' = [dir EXCEPT !.live = dir.main] /\ UNCHANGED deleted
          /\ opened' \in {opened, Removed("live")}
      BY <2>0, <2>3 DEF RemoveSidecars, Tasks
    <3>2. /\ dir' \in [Names -> Databases] /\ dir'.live = dir.main /\ dir'.main = dir.main
          /\ dir'.backup = None /\ dir'.tmp = dir.tmp
      BY <1>1, <2>1, <2>2, <3>1 DEF FilesTyped, Names
    <3>3. FilesTyped' /\ (HasIndex => HasIndex')
      BY <1>1, <2>1, <2>2, <3>1, <3>2, ConnectionsKept DEF FilesTyped, HasIndex
    <3>4. OpenExists'
      BY <1>1, <2>2, <3>1, <3>2 DEF OpenExists, FilesTyped, Removed, Opening
    <3> QED BY <1>6, <2>1, <3>1, <3>2, <3>3, <3>4 DEF FilesKept, FilesInv, OpenExists, Filling
  <2>4. CASE MoveAside
    <3>1. /\ build'.pc = "in" /\ UNCHANGED deleted
          /\ dir' = [dir EXCEPT !.live = None, !.main = None, !.backup = dir.main]
          /\ opened' \in {Renamed("live", "backup"), Removed("live")}
      BY <2>0, <2>4 DEF MoveAside, Tasks
    <3>2. /\ dir' \in [Names -> Databases] /\ dir'.live = None /\ dir'.main = None
          /\ dir'.backup = dir.main /\ dir'.tmp = dir.tmp
      BY <1>1, <1>7, <2>2, <3>1 DEF FilesTyped, Names
    <3>3. FilesTyped' /\ (HasIndex => HasIndex')
      BY <1>1, <2>1, <2>2, <3>1, <3>2, ConnectionsKept DEF FilesTyped, HasIndex
    <3>4. OpenExists'
      BY <1>1, <2>1, <2>2, <3>1, <3>2
      DEF OpenExists, FilesTyped, Renamed, Removed, Opening
    <3> QED BY <1>6, <2>1, <3>1, <3>2, <3>3, <3>4 DEF FilesKept, FilesInv, OpenExists, Filling
  <2> QED BY <1>12, <2>3, <2>4
<1>13. CASE MoveIn
  <2>1. /\ build.pc = "in" /\ build'.pc = "reopen" /\ opened' = Removed("live")
        /\ dir' = [dir EXCEPT !.live = dir.tmp, !.main = dir.tmp, !.tmp = None]
    BY <1>2, <1>13 DEF MoveIn, Tasks
  <2>2. opener # "finish" /\ dir.tmp # None BY <1>5, <2>1 DEF Filling
  <2>3. dir.tmp \in Databases BY <1>1 DEF FilesTyped, Names
  <2>4. FilesTyped' /\ HasIndex'
    BY <1>1, <1>7, <2>1, <2>2, <2>3, ConnectionsKept DEF FilesTyped, HasIndex, Names
  <2>5. OpenExists' BY <1>1, <2>1 DEF OpenExists, FilesTyped, Removed, Names, Opening
  <2> QED BY <1>6, <2>1, <2>2, <2>4, <2>5 DEF FilesKept, FilesInv, OpenExists, Filling
<1>14. CASE MoveInFails
  <2>1. build.pc = "in" /\ build'.pc = "return" /\ UNCHANGED deleted
    BY <1>2, <1>14 DEF MoveInFails, Tasks
  <2>2. opener # "finish" BY <1>5, <2>1
  <2>3. FilesTyped' /\ OpenExists' /\ (HasIndex => HasIndex')
    <3>1. CASE dir.backup # None
      <4>1. dir' = InPlace(dir.backup) /\ opened' = Renamed("backup", "live")
        BY <1>14, <3>1 DEF MoveInFails
      <4> QED BY <1>1, <3>1, <4>1, PuttingInPlace DEF HasIndex
    <3>2. CASE dir.backup = None
      <4>1. UNCHANGED <<dir, opened>> BY <1>14, <3>2 DEF MoveInFails
      <4> QED BY <1>1, <4>1 DEF FilesTyped, OpenExists, HasIndex
    <3> QED BY <3>1, <3>2
  <2> QED BY <1>6, <2>1, <2>2, <2>3 DEF FilesKept, FilesInv, OpenExists, Filling
<1>15. CASE Reopen
  <2>1. /\ build.pc = "reopen" /\ build'.pc = "return" /\ opened' = OpenedAfterRecovery
        /\ dir' = Recovered /\ UNCHANGED deleted
    <3>1. PICK ok : build' = [build EXCEPT !.pc = "return", !.ok = ok] BY <1>15 DEF Reopen
    <3> QED BY <1>2, <1>15, <3>1 DEF Reopen, Tasks
  <2>2. opener = "finish" => dir'.live # None \/ deleted' BY <1>3, <1>5, <2>1 DEF HasIndex
  <2>3. FilesTyped' /\ OpenExists' /\ (HasIndex => HasIndex')
    BY <1>3, <1>4, <2>1 DEF FilesTyped, OpenExists, HasIndex
  <2> QED BY <1>6, <2>1, <2>2, <2>3 DEF FilesKept, FilesInv, OpenExists, Filling
<1> QED
  BY <1>8, <1>9, <1>10, <1>11, <1>12, <1>13, <1>14, <1>15 DEF Publishing

(***************************************************************************)
(* What the rest of the context does to the files beside a build: it keeps *)
(* every name that exists, or recovers first.                              *)
(***************************************************************************)
LEMMA FilesBesideBuild ==
  ASSUME StoreInv, UNCHANGED <<build, opener, deleted>>, FilesTyped', OpenExists',
         \/ \A n \in Names : dir'[n] # None <=> dir[n] # None
         \/ /\ HasIndex => dir'.live # None
            /\ dir'.backup = None /\ dir'.tmp = dir.tmp /\ dir'.unlinked = dir.unlinked
  PROVE  FilesKept
<1>1. build = Idle \/ build \in Tasks BY FilesFacts
<1>2. build.pc = "work" => build.source \in {"no", "live", "unlinked"}
  BY <1>1 DEF Tasks, Idle
<1>3. FilesInv BY DEF StoreInv
<1>4. CASE \A n \in Names : dir'[n] # None <=> dir[n] # None
  <2>1. FilesInv' BY <1>2, <1>3, <1>4 DEF FilesInv, OpenExists, Filling, Names
  <2>2. HasIndex' = HasIndex BY <1>4 DEF HasIndex, Names
  <2> QED BY <2>1, <2>2 DEF FilesKept
<1>5. CASE /\ HasIndex => dir'.live # None
           /\ dir'.backup = None /\ dir'.tmp = dir.tmp /\ dir'.unlinked = dir.unlinked
  <2>1. FilesInv' BY <1>2, <1>3, <1>5 DEF FilesInv, OpenExists, Filling, HasIndex
  <2>2. HasIndex => HasIndex' BY <1>5 DEF HasIndex
  <2> QED BY <2>1, <2>2 DEF FilesKept
<1> QED BY <1>4, <1>5

\* The ends of a task.
LEMMA FilesOfEnding ==
  ASSUME StoreInv,
         \/ EndCancelled \/ EndFailed \/ EndUnattached \/ AttachEmbedder \/ AttachIndex
         \/ EndAttached \/ Panic
  PROVE  FilesKept
<1>1. /\ FilesTyped /\ OpenExists /\ (build = Idle \/ build \in Tasks)
  BY FilesFacts
<1>0. build.pc \in {"return", "attach", "attached"} /\ build \in Tasks
  BY <1>1 DEF EndCancelled, EndFailed, EndUnattached, AttachEmbedder, AttachIndex, EndAttached,
     Panic, Ended, Idle
<1>2. build'.pc \in {"idle", "attach", "attached"} /\ UNCHANGED <<opener, deleted>>
  BY <1>0 DEF EndCancelled, EndFailed, EndUnattached, AttachEmbedder, AttachIndex, EndAttached,
     Panic, Ended, TaskLeaves, NotAttached, Idle, Tasks
<1>3. opener = "finish" => dir.live # None \/ deleted BY DEF StoreInv, FilesInv
<1>4. ASSUME FilesTyped', OpenExists', HasIndex => HasIndex', dir.live # None => dir'.live # None
      PROVE  FilesKept
  BY <1>0, <1>2, <1>3, <1>4 DEF FilesKept, FilesInv, OpenExists, Filling
<1>5. CASE EndCancelled
  <2>1. dir' = [dir EXCEPT !.tmp = None] /\ opened' = opened BY <1>5 DEF EndCancelled
  <2>2. None \in Databases BY DEF Databases
  <2>3. FilesTyped' /\ OpenExists' /\ dir'.live = dir.live /\ dir'.backup = dir.backup
    BY <1>1, <2>1, <2>2 DEF FilesTyped, OpenExists, Names
  <2> QED BY <1>4, <2>3 DEF HasIndex
<1>6. CASE EndFailed \/ EndAttached
  <2>1. UNCHANGED <<dir, opened>> BY <1>6 DEF EndFailed, EndAttached
  <2> QED BY <1>1, <1>4, <2>1 DEF FilesTyped, OpenExists, HasIndex
<1>7. CASE EndUnattached \/ AttachEmbedder
  <2>1. /\ dir' = Recovered
        /\ \/ opened' = OpenedAfterRecovery
           \/ /\ opened' = [OpenedAfterRecovery EXCEPT !["build"] = "live"]
              /\ Recovered.live # None
    BY <1>7 DEF EndUnattached, AttachEmbedder, Opens
  <2>2. /\ dir' \in [Names -> Databases] /\ (dir'.live # None <=> HasIndex)
        /\ (dir'.main = None <=> dir'.live = None)
        /\ OpenedAfterRecovery \in Opening
    BY <1>1, <2>1, Recovery, ConnectionsKept DEF FilesTyped, HasIndex
  <2>3. \A u \in Users :
          OpenedAfterRecovery[u] \in {"live", "backup"} => dir'[OpenedAfterRecovery[u]] # None
    BY <1>1, <2>1, RecoveryKeepsOpen DEF FilesTyped, OpenExists
  <2>4. FilesTyped' /\ OpenExists'
    BY <2>1, <2>2, <2>3 DEF FilesTyped, OpenExists, Opening, Users
  <2> QED BY <1>4, <2>2, <2>4 DEF HasIndex
<1>8. CASE AttachIndex \/ Panic
  <2>1. /\ dir' = dir
        /\ \/ opened' = [opened EXCEPT !["context"] = opened["build"], !["build"] = "no"]
           \/ opened' = [opened EXCEPT !["build"] = "no"]
    BY <1>8 DEF AttachIndex, Panic
  <2>2. FilesTyped' /\ OpenExists'
    BY <1>1, <2>1 DEF FilesTyped, OpenExists, Opening, Users
  <2> QED BY <1>4, <2>1, <2>2 DEF HasIndex
<1> QED BY <1>5, <1>6, <1>7, <1>8

LEMMA FilesOfRestore ==
  ASSUME StoreInv,
         RestoreEmbedder \/ RestoreInstalls \/ \E semantic \in BOOLEAN : RestoreLoads(semantic)
  PROVE  FilesKept
<1>1. FilesTyped /\ OpenExists BY FilesFacts
<1>2. UNCHANGED <<build, opener, deleted>>
  BY DEF RestoreEmbedder, RestoreInstalls, RestoreLoads, BuildAside, NoDeletion
<1>3. CASE RestoreEmbedder \/ RestoreInstalls
  <2>1. dir' = dir BY <1>3 DEF RestoreEmbedder, RestoreInstalls
  <2>2. \/ opened' = [opened EXCEPT !["context"] = opened["restore"], !["restore"] = "no"]
        \/ opened' = [opened EXCEPT !["restore"] = "no"]
        \/ opened' = opened
    BY <1>3 DEF RestoreEmbedder, RestoreInstalls
  <2>3. FilesTyped' /\ OpenExists'
    BY <1>1, <2>1, <2>2 DEF FilesTyped, OpenExists, Opening, Users
  <2> QED BY <1>2, <2>1, <2>3, FilesBesideBuild
<1>4. ASSUME NEW semantic \in BOOLEAN, RestoreLoads(semantic) PROVE FilesKept
  <2>1. /\ dir' = Recovered /\ Recovered.live # None
        /\ opened' = [OpenedAfterRecovery EXCEPT !["restore"] = "live"]
    BY <1>4 DEF RestoreLoads, Opens
  <2>2. /\ dir' \in [Names -> Databases] /\ dir'.live # None /\ dir'.backup = None
        /\ (dir'.main = None <=> dir'.live = None)
        /\ dir'.tmp = dir.tmp /\ dir'.unlinked = dir.unlinked /\ OpenedAfterRecovery \in Opening
    BY <1>1, <2>1, Recovery, ConnectionsKept DEF FilesTyped
  <2>3. \A u \in Users :
          OpenedAfterRecovery[u] \in {"live", "backup"} => dir'[OpenedAfterRecovery[u]] # None
    BY <1>1, <2>1, RecoveryKeepsOpen DEF FilesTyped, OpenExists
  <2>4. FilesTyped' /\ OpenExists'
    BY <2>1, <2>2, <2>3 DEF FilesTyped, OpenExists, Opening, Users
  <2> QED BY <1>2, <2>2, <2>4, FilesBesideBuild
<1> QED BY <1>3, <1>4

LEMMA FilesOfWatcher ==
  ASSUME StoreInv, NEW d \in Docs, NEW old \in Docs,
         WatchWrite(d) \/ WatchRemove(d) \/ WatchRename(old, d)
  PROVE  FilesKept
<1>1. /\ FilesTyped /\ OpenExists /\ disk \in [Docs -> Versions]
      /\ \A n \in Names : dir[n] # None => dir[n] \in Files
  BY FilesFacts
<1>2. PICK db :
        /\ Updates(db)
        /\ db \in {WriteFile(ContextDb, watched, d, disk[d]), RemoveFile(ContextDb, watched, d),
                   RenameFile(ContextDb, old, d)}
  BY DEF WatchWrite, WatchRemove, WatchRename
<1>3. /\ opened["context"] \in {"live", "backup"} /\ UNCHANGED <<opened, build, opener, deleted>>
  BY <1>2 DEF WatchWrite, WatchRemove, WatchRename, Watched, Updates, BuildAside, NoDeletion
<1>4. ContextDb \in Files
  BY <1>1, <1>3 DEF ContextDb, OpenExists, Users, Names
<1>5. watched \in Roots /\ disk[d] \in Versions BY <1>1 DEF StoreInv, ISTypeOK
<1>6. db \in Files
  BY <1>1, <1>2, <1>4, <1>5, WriteFileIsDatabase, RemovedIsDatabase, RenamedIsDatabase
<1>7. /\ FilesTyped' /\ \A n \in Names : dir'[n] # None <=> dir[n] # None
  <2>1. CASE opened["context"] = "live"
    <3>1. dir' \in Committed(dir, opened, db) BY <1>2, <2>1 DEF Updates
    <3>2. dir.live # None BY <1>1, <2>1 DEF OpenExists, Users
    <3>3. /\ dir' \in [Names -> Databases] /\ dir'.live = db /\ dir'.main # None
          /\ dir'.backup = dir.backup /\ dir'.tmp = dir.tmp /\ dir'.unlinked = dir.unlinked
      BY <1>1, <1>6, <3>1, <3>2, Committing DEF FilesTyped
    <3> QED BY <1>1, <1>3, <1>6, <3>2, <3>3, NoneAssumption DEF FilesTyped, Names
  <2>2. CASE opened["context"] = "backup"
    <3>1. dir' = [dir EXCEPT !.backup = db] BY <1>2, <2>2 DEF Updates
    <3>2. dir.backup # None BY <1>1, <2>2 DEF OpenExists, Users
    <3> QED BY <1>1, <1>3, <1>6, <3>1, <3>2, NoneAssumption DEF FilesTyped, Names, Databases
  <2> QED BY <1>3, <2>1, <2>2
<1>8. OpenExists' BY <1>1, <1>3, <1>7 DEF OpenExists, Names
<1> QED BY <1>3, <1>7, <1>8, FilesBesideBuild

LEMMA FilesOfDeletion ==
  ASSUME StoreInv, DeleteAll \/ DeleteMissing \/ \E root \in Roots : DeleteCoverage(root)
  PROVE  FilesKept
<1>1. /\ FilesTyped /\ OpenExists /\ (build = Idle \/ build \in Tasks)
      /\ \A n \in Names : dir[n] # None => dir[n] \in Files
  BY FilesFacts
<1>2. ASSUME NEW root \in Roots, DeleteCoverage(root) PROVE FilesKept
  <2> DEFINE db == DeleteRoot(Recovered.live, root)
  <2>1. /\ Recovered \in [Names -> Databases] /\ Recovered.backup = None
        /\ Recovered.live # None /\ (Recovered.main = None <=> Recovered.live = None)
        /\ Recovered.tmp = dir.tmp /\ Recovered.unlinked = dir.unlinked
        /\ OpenedAfterRecovery \in Opening
    BY <1>1, <1>2, Recovery, ConnectionsKept DEF FilesTyped, DeleteCoverage
  <2>2. db \in Files
    <3>1. Recovered.live \in Files BY <2>1 DEF Databases, Names
    <3> QED BY <3>1, DeleteRootIsDatabase
  <2>3. /\ dir' \in Committed(Recovered, opened', db) /\ opened' = OpenedAfterRecovery
        /\ UNCHANGED <<build, opener, deleted>>
    BY <1>2 DEF DeleteCoverage, BuildAside, NoDeletion
  <2>4. \A u \in Users :
          OpenedAfterRecovery[u] \in {"live", "backup"} => Recovered[OpenedAfterRecovery[u]] # None
    BY <1>1, RecoveryKeepsOpen DEF FilesTyped, OpenExists
  <2> HIDE DEF db
  <2>5. /\ FilesTyped' /\ OpenExists' /\ dir'.live # None /\ dir'.backup = None
        /\ dir'.tmp = dir.tmp /\ dir'.unlinked = dir.unlinked
    <3>1. /\ dir' \in [Names -> Databases] /\ dir'.live = db /\ dir'.main # None
          /\ dir'.backup = None /\ dir'.tmp = dir.tmp /\ dir'.unlinked = dir.unlinked
      BY <2>1, <2>2, <2>3, Committing
    <3> QED BY <2>1, <2>2, <2>3, <2>4, <3>1, NoneAssumption DEF FilesTyped, OpenExists
  <2> QED BY <2>3, <2>5, FilesBesideBuild
<1>3. CASE DeleteAll
  <2> DEFINE reads == build.pc = "work" /\ build.source = "live"
  <2>1. /\ dir.live # None /\ deleted' /\ UNCHANGED opener
        /\ dir' = [dir EXCEPT !.live = None, !.main = None,
                              !.unlinked = IF reads THEN dir.live ELSE dir.unlinked]
        /\ opened' = [Removed("live") EXCEPT !["context"] = "no"]
    BY <1>3 DEF DeleteAll, NoDeletion
  <2>2. None \in Databases /\ dir.live \in Databases /\ dir.unlinked \in Databases
    BY <1>1 DEF FilesTyped, Databases, Names
  <2>3. /\ FilesTyped' /\ dir'.live = None /\ dir'.backup = dir.backup /\ dir'.tmp = dir.tmp
        /\ dir'.unlinked = IF reads THEN dir.live ELSE dir.unlinked
    BY <1>1, <2>1, <2>2, ConnectionsKept DEF FilesTyped, Opening, Names
  <2>4. OpenExists'
    BY <1>1, <2>1, <2>3 DEF OpenExists, FilesTyped, Opening, Removed
  <2>5. /\ build'.pc = build.pc
        /\ build.pc = "work" => build'.source = IF reads THEN "unlinked" ELSE build.source
    <3>1. CASE reads
      <4>1. build \in Tasks BY <1>1, <3>1 DEF Idle
      <4>2. build' = [build EXCEPT !.source = "unlinked"] BY <1>3, <3>1 DEF DeleteAll
      <4> QED BY <3>1, <4>1, <4>2 DEF Tasks
    <3>2. CASE ~reads
      <4>1. build' = build BY <1>3, <3>2 DEF DeleteAll
      <4> QED BY <3>2, <4>1
    <3> QED BY <3>1, <3>2
  <2>6. build.pc = "work" => build.source \in {"no", "live", "unlinked"}
    BY <1>1 DEF Tasks, Idle
  <2>7. build'.pc = "work" /\ build'.source # "no" => dir'[build'.source] # None
    BY <2>1, <2>3, <2>5, <2>6 DEF StoreInv, FilesInv
  <2>8. FilesInv'
    BY <2>1, <2>3, <2>4, <2>5, <2>7 DEF StoreInv, FilesInv, OpenExists, Filling
  <2> QED BY <2>1, <2>3, <2>8 DEF FilesKept
<1>4. CASE DeleteMissing
  <2>1. /\ UNCHANGED <<dir, build, opener, deleted>>
        /\ opened' = [opened EXCEPT !["context"] = "no"]
    BY <1>4 DEF DeleteMissing, BuildAside, NoDeletion
  <2>2. FilesTyped' /\ OpenExists' BY <1>1, <2>1 DEF FilesTyped, OpenExists, Opening
  <2> QED BY <2>1, <2>2, FilesBesideBuild
<1> QED BY <1>2, <1>3, <1>4

\* A reader that looked acts: what it puts back or takes away is what it saw, or
\* the rest of it is there.
LEMMA FilesOfOpener ==
  ASSUME StoreInv, OpenerLooks \/ OpenerActs \/ RollBackReplacement PROVE FilesKept
<1>1. /\ FilesTyped /\ OpenExists /\ (build = Idle \/ build \in Tasks)
  BY FilesFacts
<1>2. UNCHANGED <<build, deleted>>
  BY DEF OpenerLooks, OpenerActs, RollBackReplacement, ReaderAside
<1>3. FilesInv BY DEF StoreInv
<1>4. build = Idle \/ build.pc \in Places BY <1>1 DEF Tasks
<1>5. CASE OpenerLooks
  <2>1. /\ dir.backup # None /\ UNCHANGED <<dir, opened>>
        /\ opener' = IF dir.live = None THEN "restore" ELSE "finish"
    BY <1>5 DEF OpenerLooks
  <2>2. build.pc \notin Filling /\ (build.pc = "in" => dir.live = None)
    BY <1>3, <1>4, <2>1 DEF FilesInv, Filling, Idle, Places
  <2>3. FilesInv' BY <1>2, <1>3, <2>1, <2>2 DEF FilesInv, Filling
  <2> QED BY <1>1, <2>1, <2>3 DEF FilesKept, FilesTyped, HasIndex
<1>6. CASE OpenerActs
  <2>1. /\ opener # "idle" /\ opener' = "idle"
        /\ dir' = IF opener = "restore" /\ dir.backup # None
                  THEN InPlace(dir.backup)
                  ELSE [dir EXCEPT !.backup = None]
        /\ opened' = IF dir.backup = None THEN opened
                     ELSE IF opener = "restore" THEN Renamed("backup", "live") ELSE Removed("backup")
    BY <1>6 DEF OpenerActs
  <2>2. opener \in {"restore", "finish"} BY <2>1 DEF StoreInv, ISTypeOK
  <2>3. build.pc \notin Filling BY <1>3, <2>1 DEF FilesInv
  <2>4. None \in Databases /\ dir.backup \in Databases
    BY <1>1 DEF FilesTyped, Databases, Names
  <2>5. /\ FilesTyped' /\ OpenExists' /\ dir'.tmp = dir.tmp /\ dir'.unlinked = dir.unlinked
        /\ dir'.backup = None
        /\ \/ dir'.live = dir.live
           \/ dir'.live # None
        /\ opener = "restore" => (HasIndex => HasIndex')
    <3>1. CASE opener = "restore" /\ dir.backup # None
      <4>1. dir' = InPlace(dir.backup) /\ opened' = Renamed("backup", "live") BY <2>1, <3>1
      <4> QED BY <1>1, <3>1, <4>1, PuttingInPlace
    <3>2. CASE ~(opener = "restore" /\ dir.backup # None)
      <4>1. /\ dir' = [dir EXCEPT !.backup = None]
            /\ opened' = IF dir.backup = None THEN opened ELSE Removed("backup")
        BY <2>1, <2>2, <3>2
      <4>2. FilesTyped' /\ dir'.live = dir.live /\ dir'.backup = None
            /\ dir'.tmp = dir.tmp /\ dir'.unlinked = dir.unlinked
        BY <1>1, <2>4, <4>1, ConnectionsKept DEF FilesTyped, Names
      <4>3. OpenExists'
        BY <1>1, <4>1, <4>2 DEF OpenExists, FilesTyped, Opening, Removed
      <4> QED BY <3>2, <4>2, <4>3 DEF HasIndex
    <3> QED BY <3>1, <3>2
  <2>7. FilesInv'
    BY <1>2, <1>3, <2>1, <2>3, <2>5 DEF FilesInv, OpenExists, Filling
  <2>8. HasIndex => HasIndex' \/ deleted'
    BY <1>2, <1>3, <2>2, <2>5 DEF FilesInv, HasIndex
  <2> QED BY <2>5, <2>7, <2>8 DEF FilesKept
<1>7. CASE RollBackReplacement
  <2>1. /\ dir.live # None /\ dir.backup # None /\ UNCHANGED opener
        /\ dir' = InPlace(dir.backup) /\ opened' = Renamed("backup", "live")
    BY <1>7 DEF RollBackReplacement
  <2>2. /\ FilesTyped' /\ OpenExists' /\ HasIndex' /\ dir'.live # None /\ dir'.backup = None
        /\ dir'.tmp = dir.tmp /\ dir'.unlinked = dir.unlinked
    BY <1>1, <2>1, PuttingInPlace
  <2> QED BY <1>2, <2>1, <2>2, FilesBesideBuild
<1> QED BY <1>5, <1>6, <1>7

LEMMA FilesAlways == ASSUME StoreInv, [ISNext]_vars PROVE FilesKept
<1>1. FilesTyped /\ OpenExists /\ (build = Idle \/ build \in Tasks) BY FilesFacts
<1>2. ASSUME NEW root \in Roots, NEW model \in Models,
             BuildWhole(root, model) \/ ContinueJob(root, model) \/ RetryFailed(root, model)
      PROVE  FilesKept
  <2>1. /\ build.pc = "idle" /\ build'.pc = "begun"
        /\ UNCHANGED <<dir, opened, opener, deleted>>
    BY <1>2 DEF BuildWhole, ContinueJob, RetryFailed, BuildRest, Begin
  <2> QED BY <2>1, FilesOfSilence
<1>3. CASE BuildStep
  BY <1>3, FilesOfWork, FilesOfPublishing, FilesOfEnding DEF BuildStep
<1>4. ASSUME UNCHANGED <<dir, opened, build, opener, deleted>> PROVE FilesKept
  BY <1>1, <1>4, FilesBesideBuild DEF FilesTyped, OpenExists
<1>5. CASE Cancel \/ UNCHANGED vars \/ \E d \in Docs : Edit(d)
  BY <1>4, <1>5 DEF Cancel, Cancelled, Edit, vars
<1>6. CASE Crash
  <2>1. /\ dir' = [dir EXCEPT !.unlinked = None] /\ opened' = [u \in Users |-> "no"]
        /\ build' = Idle /\ opener' = "idle" /\ UNCHANGED deleted
    BY <1>6 DEF Crash
  <2>2. None \in Databases BY DEF Databases
  <2>3. FilesTyped' /\ dir'.live = dir.live /\ dir'.backup = dir.backup
    BY <1>1, <2>1, <2>2 DEF FilesTyped, Opening, Names
  <2>4. FilesInv' BY <2>1 DEF FilesInv, Filling, Idle
  <2> QED BY <2>3, <2>4 DEF FilesKept, HasIndex
<1> QED
  BY <1>2, <1>3, <1>5, <1>6, FilesOfEnding, FilesOfRestore, FilesOfWatcher, FilesOfDeletion,
     FilesOfOpener DEF ISNext

(***************************************************************************)
(* The theorems.                                                           *)
(***************************************************************************)
StoreAlways == StoreInv /\ JournalInv

LEMMA Invariance == ISSpec => []StoreAlways
<1>1. ISInit => StoreAlways BY StoreInitially, JournalInitially DEF StoreAlways
<1>2. StoreAlways /\ [ISNext]_vars => StoreAlways'
  <2> SUFFICES ASSUME StoreAlways, [ISNext]_vars PROVE StoreAlways' OBVIOUS
  <2>1. StoreInv /\ ISTypeOK /\ JournalInv BY DEF StoreAlways, StoreInv
  <2>2. FilesKept BY <2>1, FilesAlways
  <2>3. JournalKept BY <2>1, JournalAlways
  <2>4. ISTypeOK'
    BY <2>1, <2>2, <2>3, TypeOfContext, TypeOfBuild
    DEF ISTypeOK, FilesKept, FilesTyped, JournalKept, JournalTyped, Databases, Opening, Tasks
  <2> QED BY <2>2, <2>3, <2>4 DEF StoreAlways, StoreInv, FilesKept, FilesTyped, JournalKept
<1> QED BY <1>1, <1>2, PTL DEF ISSpec

\* Every variable of the store keeps its type: databases, the journal, the build
\* and what the connections have open.
THEOREM StoreTypeCorrect == ISSpec => []ISTypeOK
<1>1. StoreAlways => ISTypeOK BY DEF StoreAlways, StoreInv
<1> QED BY <1>1, Invariance, PTL

\* When a build moves the live index aside (SemanticIndex::build, db.rs), no backup
\* of an earlier replacement is in the way of the rename, after any sequence of
\* crashes, recoveries, deletions and half-done replacements.
THEOREM ReplacementUnobstructed == ISSpec => []NoLeftoverBackup
<1>1. StoreAlways => NoLeftoverBackup
  BY DEF StoreAlways, StoreInv, FilesInv, NoLeftoverBackup, Filling
<1> QED BY <1>1, Invariance, PTL

\* The index disappears only when all of it is deleted (delete_index, context.rs):
\* whatever a build, an opener or a crash does to its files, one copy remains, and
\* every open recovers it.
THEOREM LostByDeletionOnly == ISSpec => OnlyDeletionLosesIndex
<1>1. StoreAlways /\ [ISNext]_vars => [Recovered.live # None => Recovered'.live # None \/ deleted']_vars
  <2> SUFFICES ASSUME StoreAlways, [ISNext]_vars, Recovered.live # None
               PROVE  Recovered'.live # None \/ deleted'
    OBVIOUS
  <2>1. FilesTyped /\ FilesKept BY FilesFacts, FilesAlways DEF StoreAlways
  <2>2. Recovered.live # None <=> HasIndex BY <2>1, Recovery DEF FilesTyped, HasIndex
  <2>3. Recovered'.live # None <=> HasIndex'
    BY <2>1 DEF FilesKept, FilesTyped, HasIndex, Recovered, InPlace, Names
  <2> QED BY <2>1, <2>2, <2>3 DEF FilesKept
<1> QED BY <1>1, Invariance, PTL DEF ISSpec, OnlyDeletionLosesIndex

\* Once the journal was opened, a row it shows as running is that of the build of
\* this process, not cancelled yet, or one that has nobody to close it: its build was
\* cancelled before the job was recorded, or its task panicked (spawn_build_index_task,
\* context.rs; adopt_orphaned_jobs, job.rs).
THEOREM RunningMine == ISSpec => []RunningIsMine
<1>1. StoreAlways => RunningIsMine BY DEF StoreAlways, JournalInv
<1> QED BY <1>1, Invariance, PTL

\* A job the journal calls completed has no pending document, whatever build it
\* continued, whatever failed in it, and whatever was pruned meanwhile (job.rs).
THEOREM CompletedWhole == ISSpec => []CompletedIsWhole
<1>1. StoreAlways => CompletedIsWhole BY DEF StoreAlways, JournalInv
<1> QED BY <1>1, Invariance, PTL
================================================================================
