-------------------------- MODULE IndexContents_proofs --------------------------
(***************************************************************************)
(* Proofs about what the files of IndexStore hold: a publication saves     *)
(* what the build said it saved, a merge drops nothing but what the build  *)
(* found without text, and the store implements AtomicIndex.               *)
(***************************************************************************)
EXTENDS IndexStore_proofs

(***************************************************************************)
(* A database is tidy when no row is without a root that holds it. Then    *)
(* sweeping after a change of one root touches no other root's documents.  *)
(***************************************************************************)
Tidy(db) == \A d \in Docs : (\A root \in Roots : <<root, d>> \notin db.held) => db.rows[d] = NoRow

LEMMA EmptyIsTidy == ASSUME NEW model \in Models PROVE Tidy(Empty(model))
BY DEF Tidy, Empty

\* What a sweep leaves.
LEMMA Sweeping ==
  ASSUME NEW db \in Files
  PROVE  /\ Tidy(Swept(db))
         /\ Swept(db).model = db.model /\ Swept(db).held = db.held
         /\ \A d \in Docs : (\E root \in Roots : <<root, d>> \in db.held)
                               => Swept(db).rows[d] = db.rows[d]
         /\ \A d \in Docs : db.rows[d] = NoRow => Swept(db).rows[d] = NoRow
<1> DEFINE rows == [d \in Docs |-> IF \E root \in Roots : <<root, d>> \in db.held
                                   THEN db.rows[d] ELSE NoRow]
<1>1. Swept(db) = [db EXCEPT !.rows = rows] BY DEF Swept
<1>2. /\ Swept(db).rows = rows /\ Swept(db).held = db.held /\ Swept(db).model = db.model
  BY <1>1 DEF Files
<1> QED BY <1>2 DEF Tidy

\* One root's share of a database changed, and it is tidy again.
OfOneRoot(old, new, root) == Tidy(new) /\ Atomic!SameButFor(old, new, root)

LEMMA WriteIsOfOneRoot ==
  ASSUME NEW db \in Files, Tidy(db), NEW root \in Roots, NEW d \in Docs, NEW text,
         WriteFile(db, root, d, text) \in Files
  PROVE  /\ OfOneRoot(db, WriteFile(db, root, d, text), root)
         /\ WriteFile(db, root, d, text).held = db.held \cup {<<root, d>>}
         /\ WriteFile(db, root, d, text).rows = [db.rows EXCEPT ![d] = [text |-> text, id |-> disk[d]]]
<1> DEFINE new == WriteFile(db, root, d, text)
<1>1. /\ new.model = db.model
      /\ new.held = db.held \cup {<<root, d>>}
      /\ new.rows = [db.rows EXCEPT ![d] = [text |-> text, id |-> disk[d]]]
  BY DEF WriteFile, Files
<1>2. db.rows \in [Docs -> Rows] /\ db # None /\ new # None BY NoneAssumption DEF Files
<1> HIDE DEF new
<1>3. Tidy(new) BY <1>1, <1>2 DEF Tidy
<1>4. Atomic!SameButFor(db, new, root) BY <1>1, <1>2 DEF Atomic!SameButFor
<1> QED BY <1>1, <1>3, <1>4 DEF OfOneRoot, new

\* A sweep after a change of one root's references, the rows of others as they were.
LEMMA SweepIsOfOneRoot ==
  ASSUME NEW db \in Files, Tidy(db), NEW root \in Roots, NEW raw \in Files,
         raw.model = db.model,
         {h \in raw.held : h[1] # root} = {h \in db.held : h[1] # root},
         \A d \in Docs : <<root, d>> \notin raw.held => raw.rows[d] = db.rows[d]
  PROVE  OfOneRoot(db, Swept(raw), root)
<1>1. Swept(raw) \in Files BY SweptIsDatabase
<1>2. /\ Tidy(Swept(raw)) /\ Swept(raw).model = db.model /\ Swept(raw).held = raw.held
      /\ \A d \in Docs : (\E r \in Roots : <<r, d>> \in raw.held) => Swept(raw).rows[d] = raw.rows[d]
      /\ \A d \in Docs : raw.rows[d] = NoRow => Swept(raw).rows[d] = NoRow
  BY Sweeping
<1>3. ASSUME NEW d \in Docs, <<root, d>> \notin db.held \cup raw.held
      PROVE  Swept(raw).rows[d] = db.rows[d]
  <2>1. raw.rows[d] = db.rows[d] BY <1>3
  <2>2. CASE \E r \in Roots : <<r, d>> \in raw.held BY <1>2, <2>1, <2>2
  <2>3. CASE \A r \in Roots : <<r, d>> \notin raw.held
    <3>1. ASSUME NEW r \in Roots PROVE <<r, d>> \notin db.held
      <4>1. CASE r = root BY <1>3, <4>1
      <4>2. CASE r # root
        <5>1. <<r, d>>[1] # root BY <4>2
        <5> QED BY <2>3, <5>1
      <4> QED BY <4>1, <4>2
    <3>2. db.rows[d] = NoRow BY <3>1 DEF Tidy
    <3> QED BY <1>2, <2>1, <3>2
  <2> QED BY <2>2, <2>3
<1>4. db # None /\ Swept(raw) # None BY <1>1, NoneAssumption
<1> QED BY <1>2, <1>3, <1>4 DEF OfOneRoot, Atomic!SameButFor

LEMMA RemoveIsOfOneRoot ==
  ASSUME NEW db \in Files, Tidy(db), NEW root \in Roots, NEW d \in Docs
  PROVE  OfOneRoot(db, RemoveFile(db, root, d), root)
<1> DEFINE raw == [db EXCEPT !.held = @ \ {<<root, d>>}]
<1>1. /\ raw \in Files /\ raw.model = db.model /\ raw.rows = db.rows
      /\ raw.held = db.held \ {<<root, d>>}
  BY DEF Files
<1>2. RemoveFile(db, root, d) = Swept(raw) BY DEF RemoveFile
<1> HIDE DEF raw
<1>3. {h \in raw.held : h[1] # root} = {h \in db.held : h[1] # root} BY <1>1
<1> QED BY <1>1, <1>2, <1>3, SweepIsOfOneRoot

LEMMA DeletionIsOfOneRoot ==
  ASSUME NEW db \in Files, Tidy(db), NEW root \in Roots
  PROVE  OfOneRoot(db, DeleteRoot(db, root), root)
<1> DEFINE raw == [db EXCEPT !.held = {h \in @ : h[1] # root}]
<1>1. /\ raw \in Files /\ raw.model = db.model /\ raw.rows = db.rows
      /\ raw.held = {h \in db.held : h[1] # root}
  BY DEF Files
<1>2. DeleteRoot(db, root) = Swept(raw) BY DEF DeleteRoot
<1> HIDE DEF raw
<1> QED BY <1>1, <1>2, SweepIsOfOneRoot

\* A merge gives the root what the source holds under it, and only an authoritative
\* one takes from it what the source does not hold.
LEMMA Merging ==
  ASSUME NEW db \in Files, Tidy(db), NEW source \in Files, NEW root \in Roots, NEW membership
  PROVE  LET merged == MergeRootFrom(db, source, root, membership)
         IN  /\ OfOneRoot(db, merged, root)
             /\ \A d \in HeldUnder(source, root) :
                  <<root, d>> \in merged.held /\ merged.rows[d] = source.rows[d]
             /\ \A h \in db.held : h \notin merged.held =>
                  membership = "authoritative" /\ h[1] = root
<1> DEFINE docs == HeldUnder(source, root)
           kept == IF membership = "authoritative" THEN {h \in db.held : h[1] # root}
                                                   ELSE db.held
           held == kept \cup ({root} \X docs)
           rows == [d \in Docs |-> IF d \in docs THEN source.rows[d] ELSE db.rows[d]]
           raw  == [db EXCEPT !.held = held, !.rows = rows]
           merged == MergeRootFrom(db, source, root, membership)
<1>0. docs \subseteq Docs BY DEF HeldUnder
<1>1. held \in SUBSET (Roots \X Docs) BY <1>0 DEF Files
<1>2. rows \in [Docs -> Rows] BY DEF Files
<1>3. merged = Swept(raw) BY DEF MergeRootFrom
<1>4. {h \in held : h[1] # root} = {h \in db.held : h[1] # root} OBVIOUS
<1>5. \A d \in docs : <<root, d>> \in held OBVIOUS
<1>6. \A d \in Docs : rows[d] = IF d \in docs THEN source.rows[d] ELSE db.rows[d] OBVIOUS
<1>7. \A h \in db.held : h \notin held => membership = "authoritative" /\ h[1] = root OBVIOUS
<1> HIDE DEF held, rows, docs
<1>8. /\ raw \in Files /\ raw.model = db.model /\ raw.rows = rows /\ raw.held = held
  BY <1>1, <1>2 DEF Files
<1> HIDE DEF raw
<1>9. \A d \in Docs : <<root, d>> \notin raw.held => raw.rows[d] = db.rows[d]
  BY <1>5, <1>6, <1>8
<1>10. OfOneRoot(db, merged, root)
  BY <1>3, <1>4, <1>8, <1>9, SweepIsOfOneRoot
<1>11. /\ merged.held = held
       /\ \A d \in Docs : (\E r \in Roots : <<r, d>> \in held) => merged.rows[d] = rows[d]
  BY <1>3, <1>8, Sweeping
<1>12. ASSUME NEW d \in docs PROVE <<root, d>> \in merged.held /\ merged.rows[d] = source.rows[d]
  BY <1>0, <1>5, <1>6, <1>11, <1>12
<1> QED BY <1>7, <1>10, <1>11, <1>12 DEF docs

\* A rename moves a row with all references to it.
LEMMA RenameMoves ==
  ASSUME NEW db \in Files, Tidy(db), NEW old \in Docs, NEW new \in Docs, old # new
  PROVE  LET renamed == RenameFile(db, old, new)
         IN  Tidy(renamed) /\ Atomic!SameButRenamed(db, renamed, old, new)
<1> DEFINE renamed == RenameFile(db, old, new)
           rows    == [db.rows EXCEPT ![new] = db.rows[old], ![old] = NoRow]
           held    == {h \in db.held : h[2] \notin {old, new}}
                        \cup {<<root, new>> : root \in {r \in Roots : <<r, old>> \in db.held}}
<1>1. renamed \in Files BY RenamedIsDatabase
<1>2. renamed.model = db.model /\ renamed.rows = rows /\ renamed.held = held
  BY DEF RenameFile, Files
<1>3. \A d \in Docs :
        rows[d] = IF d = old THEN NoRow ELSE IF d = new THEN db.rows[old] ELSE db.rows[d]
  BY DEF Files
<1>4. ASSUME NEW root \in Roots, NEW d \in Docs
      PROVE  <<root, d>> \in held <=>
               IF d = new THEN <<root, old>> \in db.held ELSE d # old /\ <<root, d>> \in db.held
  <2>1. <<root, d>>[2] = d OBVIOUS
  <2>2. \A r \in Roots : <<r, new>> = <<root, d>> <=> r = root /\ d = new OBVIOUS
  <2> QED BY <2>1, <2>2
<1> HIDE DEF rows, held, renamed
<1>5. Tidy(renamed)
  <2>1. ASSUME NEW d \in Docs, \A root \in Roots : <<root, d>> \notin renamed.held
        PROVE  renamed.rows[d] = NoRow
    <3>1. CASE d = new
      <4>1. db.rows[old] = NoRow BY <1>2, <1>4, <2>1, <3>1 DEF Tidy
      <4> QED BY <1>2, <1>3, <3>1, <4>1
    <3>2. CASE d = old BY <1>2, <1>3, <3>2
    <3>3. CASE d \notin {old, new}
      <4>1. db.rows[d] = NoRow BY <1>2, <1>4, <2>1, <3>3 DEF Tidy
      <4> QED BY <1>2, <1>3, <3>3, <4>1
    <3> QED BY <3>1, <3>2, <3>3
  <2> QED BY <2>1 DEF Tidy
<1>6. Atomic!SameButRenamed(db, renamed, old, new)
  BY <1>1, <1>2, <1>3, <1>4, NoneAssumption DEF Atomic!SameButRenamed
<1> QED BY <1>5, <1>6 DEF renamed

(***************************************************************************)
(* What a step does to the live file, with its log and without, and to the *)
(* backup: one of a few effects. Each keeps the files tidy and is a step   *)
(* of AtomicIndex.                                                         *)
(***************************************************************************)
Kept   == {"live", "main", "backup"}
Tidied == \A n \in Kept : dir[n] # None => Tidy(dir[n])

AtomicStep == [Atomic!Next]_(Atomic!avars)

Effect == Tidied' /\ AtomicStep

\* What AtomicIndex sees of the directory before and after a step.
LEMMA Seen ==
  ASSUME FilesTyped, FilesTyped'
  PROVE  /\ Recovered.live = IF dir.live # None THEN dir.live ELSE dir.backup
         /\ Recovered.main = IF dir.live # None THEN dir.main ELSE dir.backup
         /\ Recovered'.live = IF dir'.live # None THEN dir'.live ELSE dir'.backup
         /\ Recovered'.main = IF dir'.live # None THEN dir'.main ELSE dir'.backup
         /\ \A n \in Names : dir[n] # None => dir[n] \in Files
         /\ \A n \in Names : dir'[n] # None => dir'[n] \in Files
         /\ dir.main = None <=> dir.live = None
         /\ dir'.main = None <=> dir'.live = None
BY DEF Recovered, InPlace, FilesTyped, Names, Databases

\* Nothing happens to the files.
LEMMA StillEffect ==
  ASSUME FilesTyped, FilesTyped', Tidied, \A n \in Kept : dir'[n] = dir[n]
  PROVE  Effect
<1>1. Tidied' BY DEF Tidied, Kept
<1>2. dir'.live = dir.live /\ dir'.main = dir.main /\ dir'.backup = dir.backup BY DEF Kept
<1>3. AtomicStep BY <1>2, Seen DEF AtomicStep, Atomic!avars
<1> QED BY <1>1, <1>3 DEF Effect

\* A recovery, and what comes with one.
LEMMA RecoveryEffect ==
  ASSUME FilesTyped, FilesTyped', Tidied,
         dir'.live = Recovered.live, dir'.main = Recovered.main, dir'.backup = None
  PROVE  Effect
<1>1. Tidied' BY Seen DEF Tidied, Kept
<1>2. AtomicStep BY Seen DEF AtomicStep, Atomic!avars, Atomic!Next, Atomic!Settle
<1> QED BY <1>1, <1>2 DEF Effect

\* A transaction on the live file, after a recovery or without.
LEMMA UpdateEffect ==
  ASSUME FilesTyped, FilesTyped', Tidied, Recovered.live # None, dir'.live # None,
         Tidy(dir'.live), Atomic!Changed(Recovered.live, dir'.live),
         dir'.main \in {Recovered.main, dir'.live},
         dir'.backup = None \/ (dir.live # None /\ dir'.backup = dir.backup)
  PROVE  Effect
<1>1. Tidied' BY Seen DEF Tidied, Kept
<1>2. AtomicStep
  <2>1. Atomic!Update BY Seen DEF Atomic!Update
  <2> QED BY <2>1 DEF AtomicStep, Atomic!Next
<1> QED BY <1>1, <1>2 DEF Effect

\* One on the file that was renamed to the backup.
LEMMA OutdatedEffect ==
  ASSUME FilesTyped, FilesTyped', Tidied, dir.backup # None, dir'.backup # None,
         Tidy(dir'.backup), Atomic!Changed(dir.backup, dir'.backup),
         dir'.live = dir.live, dir'.main = dir.main
  PROVE  Effect
<1>1. Tidied' BY DEF Tidied, Kept
<1>2. AtomicStep
  <2>1. CASE dir.live # None
    <3>1. Atomic!Outdated BY <2>1, Seen DEF Atomic!Outdated
    <3> QED BY <3>1 DEF AtomicStep, Atomic!Next
  <2>2. CASE dir.live = None
    <3>1. Atomic!Update BY <2>2, Seen DEF Atomic!Update
    <3> QED BY <3>1 DEF AtomicStep, Atomic!Next
  <2> QED BY <2>1, <2>2
<1> QED BY <1>1, <1>2 DEF Effect

\* The log of the live file is deleted, and the file left there or moved aside.
LEMMA AsideEffect ==
  ASSUME FilesTyped, FilesTyped', Tidied, dir.backup = None, dir.tmp # None,
         \/ dir'.live = dir.main /\ dir'.main = dir.main /\ dir'.backup = None
         \/ dir'.live = None /\ dir'.main = None /\ dir'.backup = dir.main
  PROVE  Effect
<1>1. Tidied' BY DEF Tidied, Kept
<1>2. Atomic!LoseLog BY Seen DEF Atomic!LoseLog
<1> QED BY <1>1, <1>2 DEF Effect, AtomicStep, Atomic!Next

\* The backup is put back.
LEMMA RollBackEffect ==
  ASSUME FilesTyped, FilesTyped', Tidied, dir.backup # None,
         dir'.live = dir.backup, dir'.main = dir.backup, dir'.backup = None
  PROVE  Effect
<1>1. Tidied' BY DEF Tidied, Kept
<1>2. AtomicStep BY Seen DEF AtomicStep, Atomic!avars, Atomic!Next, Atomic!RollBack
<1> QED BY <1>1, <1>2 DEF Effect

\* The backup is deleted beside a live index, or when nothing is left to lose.
LEMMA SettleEffect ==
  ASSUME FilesTyped, FilesTyped', Tidied,
         dir'.live = dir.live, dir'.main = dir.main, dir'.backup = None
  PROVE  Effect
<1>1. Tidied' BY DEF Tidied, Kept
<1>2. AtomicStep
  BY Seen DEF AtomicStep, Atomic!avars, Atomic!Next, Atomic!Settle, Atomic!Delete
<1> QED BY <1>1, <1>2 DEF Effect

\* The live index is deleted; what an unsettled replacement left behind returns.
LEMMA DeletionEffect ==
  ASSUME FilesTyped, FilesTyped', Tidied, dir.live # None,
         dir'.live = None, dir'.main = None, dir'.backup = dir.backup
  PROVE  Effect
<1>1. Tidied' BY DEF Tidied, Kept
<1>2. AtomicStep
  BY Seen DEF AtomicStep, Atomic!avars, Atomic!Next, Atomic!RollBack, Atomic!Delete
<1> QED BY <1>1, <1>2 DEF Effect

\* The new index takes the place of the one that was moved aside.
LEMMA ReplacementEffect ==
  ASSUME FilesTyped, FilesTyped', Tidied, dir.live = None \/ dir.backup = None,
         dir.tmp # None, Tidy(dir.tmp),
         dir'.live = dir.tmp, dir'.main = dir.tmp, dir'.backup = dir.backup
  PROVE  Effect
<1>1. Tidied' BY DEF Tidied, Kept
<1>2. Atomic!Replace BY Seen DEF Atomic!Replace
<1> QED BY <1>1, <1>2 DEF Effect, AtomicStep, Atomic!Next

(***************************************************************************)
(* The inductive invariant about contents. The temporary file holds what   *)
(* the build said it saved, and what the build has not settled is what it  *)
(* calls pending.                                                          *)
(***************************************************************************)
Early == {"begun", "recorded"}
InTmp == Filling \cup {"in"}

SaidIsHeld ==
  \A d \in Docs : build.said[d] \in {"Reused", "Indexed"} =>
    <<build.root, d>> \in dir.tmp.held /\ dir.tmp.rows[d].id # 0

TmpFilled ==
  /\ build.pc \in Early => \A d \in Docs : build.said[d] \notin {"Reused", "Indexed"}
  /\ build.pc \in InTmp => Tidy(dir.tmp) /\ SaidIsHeld

PendingLeft == build # Idle => \A d \in Docs : build.said[d] = "Pending" => d \in Unsettled

ContentsInv == Tidied /\ TmpFilled /\ PendingLeft

ContentsKept == ContentsInv' /\ AtomicStep

\* The build goes on with the temporary file it has, or without one.
SameTask ==
  /\ build'.pc \in InTmp => build.pc \in InTmp /\ dir'.tmp = dir.tmp
  /\ build'.pc \in Early => build.pc \in Early
  /\ build' # Idle =>
       /\ build # Idle /\ build'.root = build.root
       /\ \A d \in Docs :
            /\ build'.said[d] \in {"Reused", "Indexed"} => build'.said[d] = build.said[d]
            /\ build'.said[d] = "Pending" => build.said[d] = "Pending"
            /\ build'.said[d] = "Pending" /\ d \in Unsettled => d \in Unsettled'

LEMMA TaskKeeps == ASSUME ContentsInv, SameTask PROVE TmpFilled' /\ PendingLeft'
<1>1. build'.pc \in InTmp \cup Early => build' # Idle BY DEF Idle, InTmp, Filling, Early
<1>2. TmpFilled' BY <1>1 DEF ContentsInv, SameTask, TmpFilled, SaidIsHeld
<1>3. PendingLeft' BY DEF ContentsInv, SameTask, PendingLeft
<1> QED BY <1>2, <1>3

LEMMA UntouchedTask ==
  ASSUME UNCHANGED build, dir'.tmp = dir.tmp
  PROVE  SameTask
<1>1. Unsettled' = Unsettled BY DEF Unsettled, Queued
<1> QED BY <1>1 DEF SameTask

\* Collects what the cases below show.
LEMMA Keeping ==
  ASSUME ContentsInv, SameTask, Effect
  PROVE  ContentsKept
BY TaskKeeps DEF ContentsKept, ContentsInv, Effect

(***************************************************************************)
(* The build at work.                                                      *)
(***************************************************************************)
\* A step that touches neither the live file nor the backup.
LEMMA QuietStep ==
  ASSUME StoreInv, FilesTyped', ContentsInv, \A n \in Kept : dir'[n] = dir[n],
         TmpFilled' /\ PendingLeft'
  PROVE  ContentsKept
<1>1. FilesTyped BY FilesFacts
<1>2. Effect BY <1>1, StillEffect DEF ContentsInv
<1> QED BY <1>2 DEF ContentsKept, ContentsInv, Effect

\* What a build says is indexed or reused was written before.
LEMMA ContentsOfReading ==
  ASSUME StoreInv, FilesTyped', ContentsInv,
         \/ RecordJob \/ InstallFails \/ StopSeen \/ LastDocument \/ FlushFails \/ FlushStopped
         \/ \E d \in Docs : Read(d) \/ Extract(d) \/ ExtractYieldsNothing(d)
  PROVE  ContentsKept
<1> USE DEF Elsewhere, Untouched, InTmp, Filling, Early
<1>1. build.pc # "idle" => build \in Tasks BY FilesFacts DEF Idle
<1>2. ASSUME UNCHANGED dir, SameTask PROVE ContentsKept
  BY <1>2, QuietStep, TaskKeeps
<1>3. CASE RecordJob \/ InstallFails
  <2>1. build \in Tasks /\ build.pc \in Early BY <1>1, <1>3 DEF RecordJob, InstallFails
  <2>2. PICK pc \in {"recorded", "return"} : build' = [build EXCEPT !.pc = pc]
    BY <1>3 DEF RecordJob, InstallFails
  <2>3. SameTask
    <3>1. Unsettled' = Unsettled BY <2>1, <2>2 DEF Unsettled, Queued, Tasks
    <3>2. build # Idle BY <2>1 DEF Idle
    <3> QED BY <2>1, <2>2, <3>1, <3>2 DEF SameTask, Tasks
  <2> QED BY <1>2, <1>3, <2>3 DEF RecordJob, InstallFails
<1>4. CASE StopSeen \/ FlushStopped
  <2>1. build \in Tasks /\ build.pc = "work" BY <1>1, <1>4 DEF StopSeen, FlushStopped, Flushing
  <2>2. build' = [build EXCEPT !.stopped = TRUE, !.pc = "publish"]
    BY <1>4 DEF StopSeen, FlushStopped
  <2>3. SameTask
    <3>1. Unsettled' = Unsettled BY <2>1, <2>2 DEF Unsettled, Queued, Tasks
    <3>2. UNCHANGED dir BY <1>4 DEF StopSeen, FlushStopped
    <3> QED BY <2>1, <2>2, <3>1, <3>2 DEF SameTask, Tasks, Idle
  <2> QED BY <1>2, <1>4, <2>3 DEF StopSeen, FlushStopped
<1>5. CASE LastDocument
  <2>1. build \in Tasks /\ build.pc = "work" BY <1>1, <1>5 DEF LastDocument
  <2>2. build' = [build EXCEPT !.pc = "publish"] /\ UNCHANGED dir BY <1>5 DEF LastDocument
  <2>3. SameTask
    <3>1. Unsettled' = Unsettled BY <2>1, <2>2 DEF Unsettled, Queued, Tasks
    <3> QED BY <2>1, <2>2, <3>1 DEF SameTask, Tasks, Idle
  <2> QED BY <1>2, <1>5, <2>3 DEF LastDocument
<1>6. CASE FlushFails
  <2> DEFINE said == [d \in Docs |-> IF d \in Queued THEN "Failed" ELSE build.said[d]]
  <2>1. build \in Tasks /\ build.pc = "work" BY <1>1, <1>6 DEF FlushFails, Flushing
  <2>2. PICK fatal \in BOOLEAN :
          build' = [build EXCEPT !.queue = Emptied, !.said = said, !.failed = fatal,
                                 !.pc = IF fatal THEN "publish" ELSE @]
    BY <1>6 DEF FlushFails
  <2>3. /\ build'.pc \in {"work", "publish"} /\ build'.root = build.root
        /\ build'.said = said /\ build'.todo = build.todo /\ build'.pend = build.pend
    BY <2>1, <2>2 DEF Tasks
  <2>4. SameTask
    <3>1. \A d \in Docs : d \in Unsettled /\ d \notin Queued => d \in Unsettled'
      BY <2>3 DEF Unsettled
    <3>2. \A d \in Docs : said[d] = IF d \in Queued THEN "Failed" ELSE build.said[d] OBVIOUS
    <3>3. UNCHANGED dir BY <1>6 DEF FlushFails
    <3> HIDE DEF said
    <3> QED BY <2>1, <2>3, <3>1, <3>2, <3>3 DEF SameTask, Idle
  <2> QED BY <1>2, <1>6, <2>4 DEF FlushFails
<1>7. ASSUME NEW d \in Docs, Read(d) PROVE ContentsKept
  <2>1. build \in Tasks /\ build.pc = "work" BY <1>1, <1>7 DEF Read
  <2>2. build' = [build EXCEPT !.todo = @ \ {d}, !.pend = @ \cup {d}] /\ UNCHANGED dir
    BY <1>7 DEF Read
  <2>3. SameTask
    <3>1. \A e \in Docs : e \in Unsettled => e \in Unsettled'
      BY <2>1, <2>2 DEF Unsettled, Queued, Tasks
    <3> QED BY <2>1, <2>2, <3>1 DEF SameTask, Tasks, Idle
  <2> QED BY <1>2, <1>7, <2>3 DEF Read
<1>8. ASSUME NEW d \in Docs, Extract(d) PROVE ContentsKept
  <2>1. build \in Tasks /\ build.pc = "work" BY <1>1, <1>8 DEF Extract, Extracting
  <2>2. build' = [build EXCEPT !.pend = @ \ {d}, !.queue[d] = disk[d]] /\ UNCHANGED dir
    BY <1>8 DEF Extract
  <2>3. SameTask
    <3>1. /\ build'.queue = [build.queue EXCEPT ![d] = disk[d]] /\ disk[d] # 0
          /\ build'.todo = build.todo /\ build'.pend = build.pend \ {d}
      BY <1>8, <2>1, <2>2 DEF Tasks, Extract
    <3>2. \A e \in Docs : e \in Unsettled => e \in Unsettled'
      BY <2>1, <3>1 DEF Unsettled, Queued, Tasks
    <3> QED BY <2>1, <2>2, <3>2 DEF SameTask, Tasks, Idle
  <2> QED BY <1>2, <1>8, <2>3 DEF Extract
<1>9. ASSUME NEW d \in Docs, ExtractYieldsNothing(d) PROVE ContentsKept
  <2>1. build \in Tasks /\ build.pc = "work" BY <1>1, <1>9 DEF ExtractYieldsNothing, Extracting
  <2>2. PICK outcome \in {"Empty", "Failed"} :
          build' = [build EXCEPT !.pend = @ \ {d}, !.said[d] = outcome]
    BY <1>9 DEF ExtractYieldsNothing
  <2>3. SameTask
    <3>1. /\ build'.pc = "work" /\ build'.root = build.root
          /\ build'.said = [build.said EXCEPT ![d] = outcome]
          /\ build'.todo = build.todo /\ build'.pend = build.pend \ {d}
          /\ build'.queue = build.queue
      BY <2>1, <2>2 DEF Tasks
    <3>2. \A e \in Docs : e # d /\ e \in Unsettled => e \in Unsettled'
      BY <3>1 DEF Unsettled, Queued
    <3>3. \A e \in Docs : build'.said[e] = IF e = d THEN outcome ELSE build.said[e]
      BY <2>1, <3>1 DEF Tasks
    <3>4. UNCHANGED dir BY <1>9 DEF ExtractYieldsNothing
    <3> QED BY <2>1, <3>1, <3>2, <3>3, <3>4 DEF SameTask, Idle
  <2> QED BY <1>2, <1>9, <2>3 DEF ExtractYieldsNothing
<1> QED BY <1>3, <1>4, <1>5, <1>6, <1>7, <1>8, <1>9

LEMMA ContentsOfWriting ==
  ASSUME StoreInv, FilesTyped', ContentsInv, Flush \/ \E d \in Docs : Reuse(d)
  PROVE  ContentsKept
<1> USE DEF Elsewhere, Untouched
<1>1. /\ FilesTyped /\ (build = Idle \/ build \in Tasks) /\ disk \in [Docs -> Versions]
      /\ \A n \in Names : dir[n] # None => dir[n] \in Files
  BY FilesFacts
<1>2. build.pc = "work" /\ build \in Tasks
  <2>1. build.pc = "work" BY DEF Flush, Flushing, Reuse
  <2> QED BY <1>1, <2>1 DEF Idle
<1>3. /\ Tidy(dir.tmp) /\ SaidIsHeld /\ dir.tmp \in Files
  <2>1. Tidy(dir.tmp) /\ SaidIsHeld
    BY <1>2 DEF ContentsInv, TmpFilled, InTmp, Filling
  <2>2. dir.tmp # None BY <1>2 DEF StoreInv, FilesInv, Filling
  <2>3. "tmp" \in Names BY DEF Names
  <2> QED BY <1>1, <2>1, <2>2, <2>3
<1>4. \A d \in Docs : build.said[d] = "Pending" => d \in Unsettled
  BY <1>2 DEF ContentsInv, PendingLeft, Idle
<1>5. ASSUME NEW db, dir' = [dir EXCEPT !.tmp = db],
             build'.pc = "work", build'.root = build.root, Tidy(db),
             \A d \in Docs : build'.said[d] \in {"Reused", "Indexed"} =>
               <<build.root, d>> \in db.held /\ db.rows[d].id # 0,
             \A d \in Docs : build'.said[d] = "Pending" => d \in Unsettled'
      PROVE  ContentsKept
  <2>1. (\A n \in Kept : dir'[n] = dir[n]) /\ dir'.tmp = db
    BY <1>1, <1>5 DEF FilesTyped, Names, Kept
  <2>2. TmpFilled' BY <1>5, <2>1 DEF TmpFilled, SaidIsHeld, Early
  <2>3. PendingLeft' BY <1>5 DEF PendingLeft
  <2> QED BY <2>1, <2>2, <2>3, QuietStep
<1>6. ASSUME NEW d \in Docs, Reuse(d) PROVE ContentsKept
  <2> DEFINE text == dir[build.source].rows[d].text
             db   == WriteFile(dir.tmp, build.root, d, text)
  <2>1. /\ dir' = [dir EXCEPT !.tmp = db] 
        /\ build' = [build EXCEPT !.todo = @ \ {d}, !.said[d] = "Reused"]
        /\ disk[d] # 0
    BY <1>6 DEF Reuse, Reusable
  <2>2. /\ build'.pc = "work" /\ build'.root = build.root
        /\ build'.todo = build.todo \ {d} /\ build'.pend = build.pend
        /\ build'.queue = build.queue
        /\ \A e \in Docs : build'.said[e] = IF e = d THEN "Reused" ELSE build.said[e]
    BY <1>2, <2>1 DEF Tasks
  <2>3. db \in Files
    <3>1. dir'.tmp = db BY <1>1, <2>1 DEF FilesTyped, Names
    <3>2. dir'.tmp \in Databases BY DEF FilesTyped, Names
    <3>3. db # None
      <4>1. db.held = dir.tmp.held \cup {<<build.root, d>>} BY <1>3 DEF WriteFile, Files
      <4>2. text \in Versions
        <5>1. build.source \in Names /\ dir[build.source] # None
          BY <1>2, <1>6 DEF StoreInv, FilesInv, Tasks, Names, Reuse, Reusable
        <5> QED BY <1>1, <5>1 DEF Files, Rows
      <4> QED BY <1>1, <1>2, <1>3, <4>2, WriteFileIsDatabase, NoneAssumption DEF Tasks
    <3> QED BY <3>1, <3>2, <3>3 DEF Databases
  <2>4. /\ Tidy(db)
        /\ db.held = dir.tmp.held \cup {<<build.root, d>>}
        /\ db.rows = [dir.tmp.rows EXCEPT ![d] = [text |-> text, id |-> disk[d]]]
    <3> HIDE DEF text
    <3>1. build.root \in Roots BY <1>2 DEF Tasks
    <3>2. /\ OfOneRoot(dir.tmp, db, build.root)
          /\ db.held = dir.tmp.held \cup {<<build.root, d>>}
          /\ db.rows = [dir.tmp.rows EXCEPT ![d] = [text |-> text, id |-> disk[d]]]
      BY <1>3, <2>3, <3>1, WriteIsOfOneRoot
    <3> QED BY <1>3, <3>2 DEF OfOneRoot
  <2> HIDE DEF db
  <2>5. dir.tmp.rows \in [Docs -> Rows] BY <1>3 DEF Files
  <2>6. \A e \in Docs : build'.said[e] \in {"Reused", "Indexed"} =>
          <<build.root, e>> \in db.held /\ db.rows[e].id # 0
    BY <1>3, <2>1, <2>2, <2>4, <2>5 DEF SaidIsHeld
  <2>7. \A e \in Docs : build'.said[e] = "Pending" => e \in Unsettled'
    BY <1>4, <2>2 DEF Unsettled, Queued
  <2> QED BY <1>5, <2>1, <2>2, <2>4, <2>6, <2>7
<1>7. CASE Flush
  <2> DEFINE there == {d \in Queued : disk[d] # 0}
             said  == [d \in Docs |-> IF d \in there THEN "Indexed"
                              ELSE IF d \in Queued THEN "Failed" ELSE build.said[d]]
             rows  == [d \in Docs |-> IF d \in there THEN [text |-> build.queue[d], id |-> disk[d]]
                              ELSE dir.tmp.rows[d]]
             held  == dir.tmp.held \cup ({build.root} \X there)
             db    == [dir.tmp EXCEPT !.rows = rows, !.held = held]
  <2>1. /\ dir' = [dir EXCEPT !.tmp = db] 
        /\ build' = [build EXCEPT !.queue = Emptied, !.said = said]
    BY <1>7 DEF Flush
  <2>2. \A d \in Docs :
          /\ said[d] = IF d \in there THEN "Indexed"
                       ELSE IF d \in Queued THEN "Failed" ELSE build.said[d]
          /\ d \in there => rows[d].id # 0 /\ <<build.root, d>> \in held
          /\ d \notin there => rows[d] = dir.tmp.rows[d]
          /\ \A root \in Roots : <<root, d>> \in dir.tmp.held => <<root, d>> \in held
    OBVIOUS
  <2>3. there \subseteq Queued OBVIOUS
  <2> HIDE DEF said, rows, held, there
  <2>4. db.rows = rows /\ db.held = held BY <1>3 DEF Files
  <2> HIDE DEF db
  <2>5. /\ build'.pc = "work" /\ build'.root = build.root
        /\ build'.said = said /\ build'.todo = build.todo /\ build'.pend = build.pend
    BY <1>2, <2>1 DEF Tasks
  <2>6. build.root \in Roots BY <1>2 DEF Tasks
  <2>7. Tidy(db) BY <1>3, <2>2, <2>4, <2>6 DEF Tidy
  <2>8. \A d \in Docs : build'.said[d] \in {"Reused", "Indexed"} =>
          <<build.root, d>> \in db.held /\ db.rows[d].id # 0
    BY <1>3, <2>2, <2>4, <2>5, <2>6 DEF SaidIsHeld
  <2>9. \A d \in Docs : build'.said[d] = "Pending" => d \in Unsettled'
    <3>1. \A d \in Docs : build'.said[d] = "Pending" => build.said[d] = "Pending" /\ d \notin Queued
      BY <2>2, <2>3, <2>5
    <3> QED BY <1>4, <2>5, <3>1 DEF Unsettled
  <2> QED BY <1>5, <2>1, <2>4, <2>5, <2>7, <2>8, <2>9
<1> QED BY <1>6, <1>7

(***************************************************************************)
(* Publication, the ends of a task, and the rest of the context.           *)
(***************************************************************************)
\* A task that goes on reading, saying and keeping what it did.
LEMMA GoingOn ==
  ASSUME build \in Tasks, build.pc # "idle", build'.pc \notin Early,
         build'.pc \in InTmp => build.pc \in InTmp /\ dir'.tmp = dir.tmp,
         build'.root = build.root, build'.said = build.said,
         build'.todo = build.todo, build'.pend = build.pend, build'.queue = build.queue
  PROVE  SameTask
<1>1. Unsettled' = Unsettled BY DEF Unsettled, Queued
<1>2. build # Idle BY DEF Idle
<1> QED BY <1>1, <1>2 DEF SameTask

\* A commit that changes one root's share or renames, after a recovery or without.
LEMMA CommitEffect ==
  ASSUME FilesTyped, FilesTyped', Tidied, NEW files \in {dir, Recovered}, files.live # None,
         NEW over \in [Names -> Databases], NEW users, NEW db \in Files,
         over.live = files.live, over.main = files.main, over.backup = files.backup,
         dir' \in Committed(over, users, db),
         Tidy(db), Atomic!Changed(files.live, db)
  PROVE  Effect /\ dir'.tmp = over.tmp
<1>1. /\ Recovered.live = IF dir.live # None THEN dir.live ELSE dir.backup
      /\ Recovered.main = IF dir.live # None THEN dir.main ELSE dir.backup
      /\ dir.main = None <=> dir.live = None
      /\ Recovered.main = None <=> Recovered.live = None
      /\ Recovered.backup = None
  BY Seen, Recovery DEF FilesTyped
<1>2. /\ dir'.live = db /\ dir'.main \in {db, over.main} /\ dir'.backup = over.backup
      /\ dir'.tmp = over.tmp
  BY <1>1, Committing
<1>3. /\ Recovered.live = files.live /\ Recovered.main = files.main
      /\ files.backup = None \/ (dir.live # None /\ files.backup = dir.backup)
  BY <1>1
<1>4. db # None BY NoneAssumption
<1>5. Effect BY <1>2, <1>3, <1>4, UpdateEffect
<1> QED BY <1>2, <1>5

\* What a recovery finds is a tidy database.
LEMMA RecoveredIsTidy ==
  ASSUME FilesTyped, Tidied, Recovered.live # None
  PROVE  Recovered.live \in Files /\ Tidy(Recovered.live)
<1>1. Recovered \in [Names -> Databases] BY Recovery DEF FilesTyped
<1>2. Recovered.live \in {dir.live, dir.backup}
  BY Recovery DEF FilesTyped, Recovered, InPlace, Names, Databases
<1> QED BY <1>1, <1>2 DEF Tidied, Kept, Databases, Names

LEMMA ContentsOfPublishing ==
  ASSUME StoreInv, FilesTyped', ContentsInv, Publishing
  PROVE  ContentsKept
<1> USE DEF InTmp, Filling, Early
<1>1. FilesTyped /\ Tidied /\ (build = Idle \/ build \in Tasks)
  BY FilesFacts DEF ContentsInv
<1>2. build \in Tasks /\ build.pc # "idle"
  <2>1. build.pc # "idle"
    BY DEF Publishing, PublishNothing, BuildFails, Merge, BeginReplacement, RemoveSidecars,
       MoveAside, MoveIn, MoveInFails, Reopen
  <2> QED BY <1>1, <2>1 DEF Idle
<1>3. /\ Recovered \in [Names -> Databases] /\ Recovered.backup = None
      /\ Recovered.tmp = dir.tmp
  BY <1>1, Recovery DEF FilesTyped
<1>4. None \in Databases BY DEF Databases
<1>5. CASE PublishNothing \/ BeginReplacement \/ Reopen
  <2>1. \/ /\ dir'.live = Recovered.live /\ dir'.main = Recovered.main /\ dir'.backup = None
        \/ \A n \in Kept : dir'[n] = dir[n]
    <3>1. CASE PublishNothing
      BY <1>1, <1>3, <3>1 DEF PublishNothing, FilesTyped, Names, Kept
    <3>2. CASE BeginReplacement BY <1>3, <3>2 DEF BeginReplacement, Names
    <3>3. CASE Reopen BY <1>3, <3>3 DEF Reopen
    <3> QED BY <1>5, <3>1, <3>2, <3>3
  <2>2. Effect BY <1>1, <2>1, RecoveryEffect, StillEffect
  <2>3. SameTask
    <3>1. CASE PublishNothing
      <4>1. PICK ok : build' = [build EXCEPT !.pc = "return", !.source = "no", !.ok = ok]
        BY <3>1 DEF PublishNothing
      <4> QED BY <1>2, <4>1, GoingOn DEF Tasks
    <3>2. CASE BeginReplacement
      <4>1. /\ build.pc = "publish" /\ dir' = [Recovered EXCEPT !.unlinked = None]
            /\ build' = [build EXCEPT !.pc = "aside", !.source = "no"]
        BY <3>2 DEF BeginReplacement
      <4>2. dir'.tmp = dir.tmp BY <1>3, <4>1 DEF Names
      <4> QED BY <1>2, <4>1, <4>2, GoingOn DEF Tasks
    <3>3. CASE Reopen
      <4>1. PICK ok : build' = [build EXCEPT !.pc = "return", !.ok = ok] BY <3>3 DEF Reopen
      <4> QED BY <1>2, <4>1, GoingOn DEF Tasks
    <3> QED BY <1>5, <3>1, <3>2, <3>3
  <2> QED BY <2>2, <2>3, Keeping
<1>6. CASE BuildFails
  <2>1. /\ build' = [build EXCEPT !.pc = "return", !.source = "no"]
        /\ dir' = [dir EXCEPT !.unlinked = None]
    BY <1>6 DEF BuildFails
  <2>2. \A n \in Kept : dir'[n] = dir[n] BY <1>1, <2>1 DEF FilesTyped, Names, Kept
  <2>3. SameTask BY <1>2, <2>1, GoingOn DEF Tasks
  <2> QED BY <1>1, <2>2, <2>3, StillEffect, Keeping
<1>7. CASE RemoveSidecars \/ MoveAside
  <2>1. build.pc \in {"aside", "bare"} BY <1>7 DEF RemoveSidecars, MoveAside
  <2>2. dir.backup = None /\ dir.tmp # None BY <2>1 DEF StoreInv, FilesInv
  <2>3. \/ /\ dir' = [dir EXCEPT !.live = dir.main]
           /\ build' = [build EXCEPT !.pc = "bare"]
        \/ /\ dir' = [dir EXCEPT !.live = None, !.main = None, !.backup = dir.main]
           /\ build' = [build EXCEPT !.pc = "in"]
    BY <1>7 DEF RemoveSidecars, MoveAside
  <2>4. /\ \/ dir'.live = dir.main /\ dir'.main = dir.main /\ dir'.backup = None
           \/ dir'.live = None /\ dir'.main = None /\ dir'.backup = dir.main
        /\ dir'.tmp = dir.tmp
    BY <1>1, <2>2, <2>3 DEF FilesTyped, Names
  <2>5. Effect BY <1>1, <2>2, <2>4, AsideEffect
  <2>6. SameTask BY <1>2, <2>1, <2>3, <2>4, GoingOn DEF Tasks
  <2> QED BY <2>5, <2>6, Keeping
<1>8. CASE MoveInFails
  <2>1. build' = [build EXCEPT !.pc = "return"] BY <1>8 DEF MoveInFails
  <2>2. Effect
    <3>1. CASE dir.backup # None
      <4>1. dir' = InPlace(dir.backup) BY <1>8, <3>1 DEF MoveInFails
      <4>2. dir'.live = dir.backup /\ dir'.main = dir.backup /\ dir'.backup = None
        BY <1>1, <4>1 DEF InPlace, FilesTyped, Names
      <4> QED BY <1>1, <3>1, <4>2, RollBackEffect
    <3>2. CASE dir.backup = None
      <4>1. UNCHANGED dir BY <1>8, <3>2 DEF MoveInFails
      <4> QED BY <1>1, <4>1, StillEffect
    <3> QED BY <3>1, <3>2
  <2>3. SameTask BY <1>2, <2>1, GoingOn DEF Tasks
  <2> QED BY <2>2, <2>3, Keeping
<1>9. CASE Merge
  <2> DEFINE db   == MergeRootFrom(Recovered.live, dir.tmp, build.root, Membership)
             over == [Recovered EXCEPT !.tmp = None, !.unlinked = None]
  <2>1. build.pc = "publish" /\ Recovered.live # None /\ dir' \in Committed(over, opened', db)
    BY <1>9 DEF Merge, Opens
  <2>2. PICK ok : build' = [build EXCEPT !.pc = "return", !.source = "no", !.saved = TRUE, !.ok = ok]
    BY <1>9 DEF Merge
  <2>3. dir.tmp \in Files /\ build.root \in Roots
    BY <1>1, <1>2, <2>1 DEF StoreInv, FilesInv, FilesTyped, Databases, Names, Tasks
  <2>4. Recovered.live \in Files /\ Tidy(Recovered.live) BY <1>1, <2>1, RecoveredIsTidy
  <2>5. db \in Files BY <2>3, <2>4, MergedIsDatabase
  <2>6. OfOneRoot(Recovered.live, db, build.root) BY <2>3, <2>4, Merging
  <2>7. /\ over \in [Names -> Databases] /\ over.live = Recovered.live
        /\ over.main = Recovered.main /\ over.backup = Recovered.backup
    BY <1>3, <1>4 DEF Names
  <2> HIDE DEF db, over
  <2>8. Tidy(db) /\ Atomic!Changed(Recovered.live, db)
    BY <2>3, <2>6 DEF OfOneRoot, Atomic!Changed
  <2>9. Effect BY <1>1, <2>1, <2>5, <2>7, <2>8, CommitEffect
  <2>10. SameTask BY <1>2, <2>2, GoingOn DEF Tasks
  <2> QED BY <2>9, <2>10, Keeping
<1>10. CASE MoveIn
  <2>1. /\ build.pc = "in" /\ build' = [build EXCEPT !.pc = "reopen", !.saved = TRUE]
        /\ dir' = [dir EXCEPT !.live = dir.tmp, !.main = dir.tmp, !.tmp = None]
    BY <1>10 DEF MoveIn
  <2>2. dir.tmp # None /\ (dir.live = None \/ dir.backup = None)
    BY <2>1 DEF StoreInv, FilesInv
  <2>3. dir'.live = dir.tmp /\ dir'.main = dir.tmp /\ dir'.backup = dir.backup
    BY <1>1, <2>1 DEF FilesTyped, Names
  <2>4. Tidy(dir.tmp) BY <2>1 DEF ContentsInv, TmpFilled
  <2>5. Effect BY <1>1, <2>2, <2>3, <2>4, ReplacementEffect
  <2>6. SameTask BY <1>2, <2>1, GoingOn DEF Tasks
  <2> QED BY <2>5, <2>6, Keeping
<1> QED BY <1>5, <1>6, <1>7, <1>8, <1>9, <1>10 DEF Publishing

LEMMA NoTask == ASSUME build' = Idle PROVE SameTask
BY DEF SameTask, Idle, InTmp, Filling, Early

LEMMA ContentsOfEnding ==
  ASSUME StoreInv, FilesTyped', ContentsInv,
         \/ EndCancelled \/ EndFailed \/ EndUnattached \/ AttachEmbedder \/ AttachIndex
         \/ EndAttached \/ Panic
  PROVE  ContentsKept
<1>1. FilesTyped /\ Tidied /\ (build = Idle \/ build \in Tasks)
  BY FilesFacts DEF ContentsInv
<1>2. Effect
  <2>1. CASE EndUnattached \/ AttachEmbedder
    <3>1. dir' = Recovered BY <2>1 DEF EndUnattached, AttachEmbedder
    <3>2. dir'.live = Recovered.live /\ dir'.main = Recovered.main /\ dir'.backup = None
      BY <1>1, <3>1, Recovery DEF FilesTyped
    <3> QED BY <1>1, <3>2, RecoveryEffect
  <2>2. CASE EndCancelled \/ EndFailed \/ AttachIndex \/ EndAttached \/ Panic
    <3>1. \A n \in Kept : dir'[n] = dir[n]
      BY <1>1, <2>2
      DEF EndCancelled, EndFailed, AttachIndex, EndAttached, Panic, FilesTyped, Names, Kept
    <3> QED BY <1>1, <3>1, StillEffect
  <2> QED BY <2>1, <2>2
<1>3. SameTask
  <2>1. CASE AttachEmbedder \/ AttachIndex
    <3>1. build \in Tasks /\ build.pc # "idle"
      BY <1>1, <2>1 DEF AttachEmbedder, AttachIndex, Idle
    <3>2. PICK pc \in {"attach", "attached"} : build' = [build EXCEPT !.pc = pc]
      BY <2>1 DEF AttachEmbedder, AttachIndex
    <3> QED BY <3>1, <3>2, GoingOn DEF Tasks, InTmp, Filling, Early
  <2>2. CASE ~(AttachEmbedder \/ AttachIndex)
    BY <2>2, NoTask
    DEF EndCancelled, EndFailed, EndUnattached, EndAttached, Panic, Ended
  <2> QED BY <2>1, <2>2
<1> QED BY <1>2, <1>3, Keeping

LEMMA ContentsOfRestore ==
  ASSUME StoreInv, FilesTyped', ContentsInv,
         RestoreEmbedder \/ RestoreInstalls \/ \E semantic \in BOOLEAN : RestoreLoads(semantic)
  PROVE  ContentsKept
<1>1. FilesTyped /\ Tidied BY FilesFacts DEF ContentsInv
<1>2. UNCHANGED build BY DEF RestoreEmbedder, RestoreInstalls, RestoreLoads
<1>3. dir' = dir \/ dir' = Recovered BY DEF RestoreEmbedder, RestoreInstalls, RestoreLoads
<1>4. dir'.tmp = dir.tmp BY <1>1, <1>3, Recovery DEF FilesTyped
<1>5. Effect
  <2>1. CASE dir' = dir BY <1>1, <2>1, StillEffect
  <2>2. CASE dir' = Recovered BY <1>1, <2>2, Recovery, RecoveryEffect DEF FilesTyped
  <2> QED BY <1>3, <2>1, <2>2
<1> QED BY <1>2, <1>4, <1>5, UntouchedTask, Keeping

LEMMA ContentsOfWatcher ==
  ASSUME StoreInv, FilesTyped', ContentsInv, NEW d \in Docs, NEW old \in Docs,
         WatchWrite(d) \/ WatchRemove(d) \/ WatchRename(old, d)
  PROVE  ContentsKept
<1>1. /\ FilesTyped /\ OpenExists /\ Tidied /\ disk \in [Docs -> Versions]
      /\ \A n \in Names : dir[n] # None => dir[n] \in Files
  BY FilesFacts DEF ContentsInv
<1>2. opened["context"] \in {"live", "backup"} /\ UNCHANGED build
  BY DEF WatchWrite, WatchRemove, WatchRename, Watched, Updates, BuildAside, NoDeletion
<1>3. ContextDb \in Files /\ Tidy(ContextDb)
  BY <1>1, <1>2 DEF ContextDb, OpenExists, Users, Names, Tidied, Kept
<1>4. watched \in Roots /\ disk[d] \in Versions BY <1>1 DEF StoreInv, ISTypeOK
<1>5. ASSUME NEW db \in Files, Updates(db), Tidy(db), Atomic!Changed(ContextDb, db)
      PROVE  ContentsKept
  <2>1. CASE opened["context"] = "live"
    <3>1. ContextDb = dir.live /\ dir.live # None BY <1>1, <2>1 DEF ContextDb, OpenExists, Users
    <3>2. dir' \in Committed(dir, opened, db) BY <1>5, <2>1 DEF Updates
    <3>3. dir \in [Names -> Databases] BY <1>1 DEF FilesTyped
    <3>4. Effect /\ dir'.tmp = dir.tmp BY <1>1, <1>5, <3>1, <3>2, <3>3, CommitEffect
    <3> QED BY <1>2, <3>4, UntouchedTask, Keeping
  <2>2. CASE opened["context"] = "backup"
    <3>1. ContextDb = dir.backup /\ dir.backup # None
      BY <1>1, <2>2 DEF ContextDb, OpenExists, Users
    <3>2. dir' = [dir EXCEPT !.backup = db] BY <1>5, <2>2 DEF Updates
    <3>3. /\ dir'.live = dir.live /\ dir'.main = dir.main /\ dir'.backup = db
          /\ dir'.tmp = dir.tmp
      BY <1>1, <3>2 DEF FilesTyped, Names
    <3>4. db # None BY NoneAssumption
    <3>5. Effect BY <1>1, <1>5, <3>1, <3>3, <3>4, OutdatedEffect
    <3> QED BY <1>2, <3>3, <3>5, UntouchedTask, Keeping
  <2> QED BY <1>2, <2>1, <2>2
<1>6. CASE WatchWrite(d)
  <2> DEFINE db == WriteFile(ContextDb, watched, d, disk[d])
  <2>1. db \in Files BY <1>1, <1>3, <1>4, WriteFileIsDatabase
  <2>2. OfOneRoot(ContextDb, db, watched) BY <1>3, <1>4, <2>1, WriteIsOfOneRoot
  <2>3. Updates(db) BY <1>6 DEF WatchWrite
  <2> HIDE DEF db
  <2> QED BY <1>4, <1>5, <2>1, <2>2, <2>3 DEF OfOneRoot, Atomic!Changed
<1>7. CASE WatchRemove(d)
  <2> DEFINE db == RemoveFile(ContextDb, watched, d)
  <2>1. db \in Files BY <1>3, <1>4, RemovedIsDatabase
  <2>2. OfOneRoot(ContextDb, db, watched) BY <1>3, <1>4, RemoveIsOfOneRoot
  <2>3. Updates(db) BY <1>7 DEF WatchRemove
  <2> HIDE DEF db
  <2> QED BY <1>4, <1>5, <2>1, <2>2, <2>3 DEF OfOneRoot, Atomic!Changed
<1>8. CASE WatchRename(old, d)
  <2> DEFINE db == RenameFile(ContextDb, old, d)
  <2>1. db \in Files BY <1>3, RenamedIsDatabase
  <2>2. old # d BY <1>8 DEF WatchRename
  <2>3. Tidy(db) /\ Atomic!SameButRenamed(ContextDb, db, old, d) BY <1>3, <2>2, RenameMoves
  <2>4. Updates(db) BY <1>8 DEF WatchRename
  <2> HIDE DEF db
  <2> QED BY <1>5, <2>1, <2>2, <2>3, <2>4 DEF Atomic!Changed
<1> QED BY <1>6, <1>7, <1>8

LEMMA ContentsOfDeletion ==
  ASSUME StoreInv, FilesTyped', ContentsInv,
         DeleteAll \/ DeleteMissing \/ \E root \in Roots : DeleteCoverage(root)
  PROVE  ContentsKept
<1>1. /\ FilesTyped /\ Tidied /\ (build = Idle \/ build \in Tasks)
  BY FilesFacts DEF ContentsInv
<1>2. ASSUME NEW root \in Roots, DeleteCoverage(root) PROVE ContentsKept
  <2> DEFINE db == DeleteRoot(Recovered.live, root)
  <2>1. Recovered.live # None /\ dir' \in Committed(Recovered, opened', db) /\ UNCHANGED build
    BY <1>2 DEF DeleteCoverage
  <2>2. Recovered \in [Names -> Databases] /\ Recovered.tmp = dir.tmp
    BY <1>1, Recovery DEF FilesTyped
  <2>3. Recovered.live \in Files /\ Tidy(Recovered.live) BY <1>1, <2>1, RecoveredIsTidy
  <2>4. db \in Files BY <2>3, DeleteRootIsDatabase
  <2>5. OfOneRoot(Recovered.live, db, root) BY <2>3, DeletionIsOfOneRoot
  <2> HIDE DEF db
  <2>6. Tidy(db) /\ Atomic!Changed(Recovered.live, db) BY <2>5 DEF OfOneRoot, Atomic!Changed
  <2>7. Effect /\ dir'.tmp = Recovered.tmp BY <1>1, <2>1, <2>2, <2>4, <2>6, CommitEffect
  <2> QED BY <2>1, <2>2, <2>7, UntouchedTask, Keeping
<1>3. CASE DeleteAll
  <2>1. /\ dir.live # None /\ dir'.live = None /\ dir'.main = None /\ dir'.backup = dir.backup
        /\ dir'.tmp = dir.tmp
    BY <1>1, <1>3 DEF DeleteAll, FilesTyped, Names
  <2>2. Effect BY <1>1, <2>1, DeletionEffect
  <2>3. SameTask
    <3>1. CASE build.pc = "work" /\ build.source = "live"
      <4>1. build \in Tasks BY <1>1, <3>1 DEF Idle
      <4>2. build' = [build EXCEPT !.source = "unlinked"] BY <1>3, <3>1 DEF DeleteAll
      <4> QED BY <2>1, <3>1, <4>1, <4>2, GoingOn DEF Tasks, InTmp, Filling, Early
    <3>2. CASE ~(build.pc = "work" /\ build.source = "live")
      <4>1. UNCHANGED build BY <1>3, <3>2 DEF DeleteAll
      <4> QED BY <2>1, <4>1, UntouchedTask
    <3> QED BY <3>1, <3>2
  <2> QED BY <2>2, <2>3, Keeping
<1>4. CASE DeleteMissing
  <2>1. UNCHANGED <<dir, build>> BY <1>4 DEF DeleteMissing
  <2> QED BY <1>1, <2>1, StillEffect, UntouchedTask, Keeping
<1> QED BY <1>2, <1>3, <1>4

LEMMA ContentsOfOpener ==
  ASSUME StoreInv, FilesTyped', ContentsInv, OpenerLooks \/ OpenerActs \/ RollBackReplacement
  PROVE  ContentsKept
<1>1. FilesTyped /\ Tidied BY FilesFacts DEF ContentsInv
<1>2. UNCHANGED build BY DEF OpenerLooks, OpenerActs, RollBackReplacement, ReaderAside
<1>3. \/ dir' = dir
      \/ dir' = [dir EXCEPT !.backup = None]
      \/ dir.backup # None /\ dir' = InPlace(dir.backup)
  BY DEF OpenerLooks, OpenerActs, RollBackReplacement
<1>4. CASE dir' = dir BY <1>1, <1>2, <1>4, StillEffect, UntouchedTask, Keeping
<1>5. CASE dir' = [dir EXCEPT !.backup = None]
  <2>1. /\ dir'.live = dir.live /\ dir'.main = dir.main /\ dir'.backup = None
        /\ dir'.tmp = dir.tmp
    BY <1>1, <1>5 DEF FilesTyped, Names
  <2> QED BY <1>1, <1>2, <2>1, SettleEffect, UntouchedTask, Keeping
<1>6. CASE dir.backup # None /\ dir' = InPlace(dir.backup)
  <2>1. /\ dir'.live = dir.backup /\ dir'.main = dir.backup /\ dir'.backup = None
        /\ dir'.tmp = dir.tmp
    BY <1>1, <1>6 DEF InPlace, FilesTyped, Names
  <2> QED BY <1>1, <1>2, <1>6, <2>1, RollBackEffect, UntouchedTask, Keeping
<1> QED BY <1>3, <1>4, <1>5, <1>6

LEMMA ContentsAlways ==
  ASSUME StoreInv, FilesTyped', ContentsInv, [ISNext]_vars
  PROVE  ContentsKept
<1>1. FilesTyped /\ Tidied /\ (build = Idle \/ build \in Tasks)
  BY FilesFacts DEF ContentsInv
<1>2. ASSUME NEW root \in Roots, NEW model \in Models,
             BuildWhole(root, model) \/ ContinueJob(root, model) \/ RetryFailed(root, model)
      PROVE  ContentsKept
  <2>1. PICK scope \in SUBSET Docs, whole \in BOOLEAN : \E continues :
          Begin(root, model, scope, whole, continues)
    BY <1>2, BuildsBegin DEF StoreInv
  <2>2. /\ build'.pc = "begun" /\ build'.todo = scope
        /\ \A d \in Docs : build'.said[d] = IF d \in scope THEN "Pending" ELSE "no"
        /\ UNCHANGED dir
    BY <2>1 DEF Begin
  <2>3. TmpFilled' /\ PendingLeft'
    BY <2>2 DEF TmpFilled, InTmp, Filling, PendingLeft, Unsettled
  <2> QED BY <2>2, <2>3, QuietStep
<1>3. CASE OpenStore
  <2>1. build \in Tasks /\ build.pc = "recorded" BY <1>1, <1>3 DEF OpenStore, Idle
  <2>2. PICK source :
          /\ dir' = [Recovered EXCEPT !.tmp = Empty(build.model)]
          /\ build' = [build EXCEPT !.pc = "work", !.source = source]
    BY <1>3 DEF OpenStore
  <2>3. /\ dir'.live = Recovered.live /\ dir'.main = Recovered.main /\ dir'.backup = None
        /\ dir'.tmp = Empty(build.model)
    BY <1>1, <2>2, Recovery DEF FilesTyped, Names
  <2>4. Effect BY <1>1, <2>3, RecoveryEffect
  <2>5. /\ build'.pc = "work" /\ build'.said = build.said
        /\ build'.todo = build.todo /\ build'.pend = build.pend /\ build'.queue = build.queue
    BY <2>1, <2>2 DEF Tasks
  <2>6. build # Idle /\ Unsettled' = Unsettled BY <2>1, <2>5 DEF Unsettled, Queued, Idle
  <2>7. PendingLeft' BY <2>5, <2>6 DEF ContentsInv, PendingLeft
  <2>8. TmpFilled'
    <3>1. Tidy(dir'.tmp) BY <2>1, <2>3, EmptyIsTidy DEF Tasks
    <3>2. \A d \in Docs : build.said[d] \notin {"Reused", "Indexed"}
      BY <2>1 DEF ContentsInv, TmpFilled, Early
    <3> QED BY <2>5, <3>1, <3>2 DEF TmpFilled, SaidIsHeld, Early
  <2> QED BY <2>4, <2>7, <2>8 DEF ContentsKept, ContentsInv, Effect
<1>4. CASE BuildStep
  BY <1>3, <1>4, ContentsOfReading, ContentsOfWriting, ContentsOfPublishing, ContentsOfEnding
  DEF BuildStep
<1>5. CASE Cancel \/ UNCHANGED vars \/ \E d \in Docs : Edit(d)
  <2>1. UNCHANGED <<dir, build>> BY <1>5 DEF Cancel, Cancelled, Edit, vars
  <2> QED BY <1>1, <2>1, StillEffect, UntouchedTask, Keeping
<1>6. CASE Crash
  <2>1. dir' = [dir EXCEPT !.unlinked = None] /\ build' = Idle BY <1>6 DEF Crash
  <2>2. \A n \in Kept : dir'[n] = dir[n] BY <1>1, <2>1 DEF FilesTyped, Names, Kept
  <2> QED BY <1>1, <2>1, <2>2, StillEffect, NoTask, Keeping
<1> QED
  BY <1>2, <1>4, <1>5, <1>6, ContentsOfEnding, ContentsOfRestore, ContentsOfWatcher,
     ContentsOfDeletion, ContentsOfOpener
  DEF ISNext

(***************************************************************************)
(* What a publication saves and drops.                                     *)
(***************************************************************************)
\* Only two steps of a task save anything, and only the merge changes the live index
\* while the build is publishing.
LEMMA TaskMoves ==
  ASSUME StoreInv, [ISNext]_vars, build # Idle, build' # Idle
  PROVE  \/ Merge \/ MoveIn
         \/ /\ build'.saved = build.saved
            /\ build.pc = "publish" /\ build'.pc # "publish" /\ dir.live # None
                 => dir'.live = dir.live
<1> DEFINE Goal == /\ build'.saved = build.saved
                   /\ build.pc = "publish" /\ build'.pc # "publish" /\ dir.live # None
                        => dir'.live = dir.live
<1>1. FilesTyped /\ build \in Tasks BY FilesFacts
<1>2. build.pc # "idle" BY <1>1 DEF Tasks, Places
<1>3. UNCHANGED build => Goal OBVIOUS
<1>4. Cancel \/ RestoreEmbedder \/ RestoreInstalls \/ DeleteMissing \/ OpenerLooks \/ OpenerActs
        \/ RollBackReplacement \/ UNCHANGED vars
        => Goal
  BY <1>3
  DEF Cancel, Cancelled, RestoreEmbedder, RestoreInstalls, DeleteMissing, OpenerLooks, OpenerActs,
      RollBackReplacement, ReaderAside, vars
<1>5. (\E semantic \in BOOLEAN : RestoreLoads(semantic))
        \/ (\E root \in Roots : DeleteCoverage(root))
        \/ (\E d \in Docs : WatchWrite(d) \/ WatchRemove(d) \/ Edit(d))
        \/ (\E old, new \in Docs : WatchRename(old, new)) => Goal
  BY <1>3 DEF RestoreLoads, DeleteCoverage, WatchWrite, WatchRemove, WatchRename, Updates, Edit
<1>6. ~Crash /\ ~Panic BY DEF Crash, Panic
<1>7. DeleteAll => Goal BY <1>1 DEF DeleteAll, Tasks
<1>8. ASSUME NEW root \in Roots, NEW model \in Models PROVE
        ~(BuildWhole(root, model) \/ ContinueJob(root, model) \/ RetryFailed(root, model))
  BY <1>2 DEF BuildWhole, ContinueJob, RetryFailed, BuildRest, Begin
<1>9. ~(EndCancelled \/ EndFailed \/ EndUnattached \/ EndAttached)
  BY DEF EndCancelled, EndFailed, EndUnattached, EndAttached, Ended
<1>10. RecordJob \/ InstallFails \/ OpenStore \/ StopSeen \/ LastDocument \/ FlushStopped
         \/ AttachEmbedder \/ AttachIndex => Goal
  <2>1. RecordJob \/ InstallFails => Goal BY <1>1 DEF RecordJob, InstallFails, Tasks
  <2>2. OpenStore => Goal BY <1>1 DEF OpenStore, Tasks
  <2>3. StopSeen => Goal BY <1>1 DEF StopSeen, Tasks
  <2>4. LastDocument => Goal BY <1>1 DEF LastDocument, Tasks
  <2>5. FlushStopped => Goal BY <1>1 DEF FlushStopped, Flushing, Tasks
  <2>6. AttachEmbedder \/ AttachIndex => Goal BY <1>1 DEF AttachEmbedder, AttachIndex, Tasks
  <2> QED BY <2>1, <2>2, <2>3, <2>4, <2>5, <2>6
<1>11. ASSUME Flush \/ FlushFails PROVE Goal
  <2>1. build.pc = "work" BY <1>11 DEF Flush, FlushFails, Flushing
  <2>2. CASE Flush
    <3> DEFINE there == {d \in Queued : disk[d] # 0}
               said  == [d \in Docs |-> IF d \in there THEN "Indexed"
                                        ELSE IF d \in Queued THEN "Failed" ELSE build.said[d]]
    <3>1. build' = [build EXCEPT !.queue = Emptied, !.said = said] BY <2>2 DEF Flush
    <3> HIDE DEF said
    <3> QED BY <1>1, <2>1, <3>1 DEF Tasks
  <2>3. CASE FlushFails
    <3> DEFINE said == [d \in Docs |-> IF d \in Queued THEN "Failed" ELSE build.said[d]]
    <3>1. PICK fatal \in BOOLEAN :
            build' = [build EXCEPT !.queue = Emptied, !.said = said, !.failed = fatal,
                                   !.pc = IF fatal THEN "publish" ELSE @]
      BY <2>3 DEF FlushFails
    <3> HIDE DEF said
    <3> QED BY <1>1, <2>1, <3>1 DEF Tasks
  <2> QED BY <1>11, <2>2, <2>3
<1>12. ASSUME NEW d \in Docs, Reuse(d) \/ Read(d) \/ Extract(d) \/ ExtractYieldsNothing(d)
       PROVE  Goal
  <2>1. build.pc = "work" BY <1>12 DEF Reuse, Read, Extract, ExtractYieldsNothing, Extracting
  <2>2. build'.saved = build.saved
    <3>1. CASE Reuse(d) BY <1>1, <3>1 DEF Reuse, Tasks
    <3>2. CASE Read(d) BY <1>1, <3>2 DEF Read, Tasks
    <3>3. CASE Extract(d) BY <1>1, <3>3 DEF Extract, Tasks
    <3>4. CASE ExtractYieldsNothing(d) BY <1>1, <3>4 DEF ExtractYieldsNothing, Tasks
    <3> QED BY <1>12, <3>1, <3>2, <3>3, <3>4
  <2> QED BY <2>1, <2>2
<1>13. build.pc = "publish" => Recovered = dir
  BY DEF StoreInv, FilesInv, Filling, Recovered
<1>14. PublishNothing \/ BuildFails \/ BeginReplacement => Goal
  <2>1. ASSUME PublishNothing PROVE Goal
    <3>1. PICK ok : build' = [build EXCEPT !.pc = "return", !.source = "no", !.ok = ok]
      BY <2>1 DEF PublishNothing
    <3>2. dir'.live = dir.live BY <1>1, <1>13, <2>1 DEF PublishNothing, FilesTyped, Names
    <3> QED BY <1>1, <3>1, <3>2 DEF Tasks
  <2>2. BuildFails => Goal BY <1>1 DEF BuildFails, Tasks, FilesTyped, Names
  <2>3. BeginReplacement => Goal BY <1>1, <1>13 DEF BeginReplacement, Tasks, FilesTyped, Names
  <2> QED BY <2>1, <2>2, <2>3
<1>15. RemoveSidecars \/ MoveAside \/ MoveInFails \/ Reopen => Goal
  <2>1. RemoveSidecars => Goal BY <1>1 DEF RemoveSidecars, Tasks
  <2>2. MoveAside => Goal BY <1>1 DEF MoveAside, Tasks
  <2>3. MoveInFails => Goal BY <1>1 DEF MoveInFails, Tasks
  <2>4. ASSUME Reopen PROVE Goal
    <3>1. PICK ok : build' = [build EXCEPT !.pc = "return", !.ok = ok] BY <2>4 DEF Reopen
    <3> QED BY <1>1, <2>4, <3>1 DEF Reopen, Tasks
  <2> QED BY <2>1, <2>2, <2>3, <2>4
<1> HIDE DEF Goal
<1>16. Merge \/ MoveIn \/ Goal
  BY <1>4, <1>5, <1>6, <1>7, <1>8, <1>9, <1>10, <1>11, <1>12, <1>14, <1>15
  DEF ISNext, BuildStep, Publishing
<1> QED BY <1>16 DEF Goal

\* What the live index is after a merge and after a replacement.
LEMMA Published ==
  ASSUME StoreInv, ContentsInv
  PROVE  /\ Merge =>
              /\ build.pc = "publish" /\ build \in Tasks /\ dir.tmp \in Files
              /\ dir.live \in Files /\ Tidy(dir.live) /\ SaidIsHeld
              /\ dir'.live = MergeRootFrom(dir.live, dir.tmp, build.root, Membership)
         /\ MoveIn => build.pc = "in" /\ SaidIsHeld /\ dir'.live = dir.tmp
<1>1. /\ FilesTyped /\ (build = Idle \/ build \in Tasks) /\ Tidied
      /\ \A n \in Names : dir[n] # None => dir[n] \in Files
  BY FilesFacts DEF ContentsInv
<1>2. ASSUME Merge
      PROVE  /\ build.pc = "publish" /\ build \in Tasks /\ dir.tmp \in Files
             /\ dir.live \in Files /\ Tidy(dir.live) /\ SaidIsHeld
             /\ dir'.live = MergeRootFrom(dir.live, dir.tmp, build.root, Membership)
  <2> DEFINE db   == MergeRootFrom(dir.live, dir.tmp, build.root, Membership)
             over == [dir EXCEPT !.tmp = None, !.unlinked = None]
  <2>1. build.pc = "publish" /\ build \in Tasks BY <1>1, <1>2 DEF Merge, Idle
  <2>2. Recovered = dir /\ dir.tmp # None
    BY <2>1 DEF StoreInv, FilesInv, Filling, Recovered
  <2>3. dir.live # None /\ dir' \in Committed(over, opened', db)
    BY <1>2, <2>2 DEF Merge, Opens
  <2>4. dir.tmp \in Files /\ dir.live \in Files BY <1>1, <2>2, <2>3 DEF Names
  <2>5. db \in Files BY <2>1, <2>4, MergedIsDatabase DEF Tasks
  <2>6. /\ over \in [Names -> Databases] /\ over.live # None
        /\ (over.main = None <=> over.live = None)
    BY <1>1, <2>3 DEF FilesTyped, Databases, Names
  <2> HIDE DEF db, over
  <2>7. dir'.live = db BY <2>3, <2>5, <2>6, Committing
  <2>8. Tidy(dir.live) /\ SaidIsHeld
    BY <1>1, <2>1, <2>3 DEF ContentsInv, Tidied, Kept, TmpFilled, InTmp, Filling
  <2> QED BY <2>1, <2>4, <2>7, <2>8 DEF db
<1>3. ASSUME MoveIn PROVE build.pc = "in" /\ SaidIsHeld /\ dir'.live = dir.tmp
  <2>1. build.pc = "in" BY <1>3 DEF MoveIn
  <2>2. dir'.live = dir.tmp BY <1>1, <1>3 DEF MoveIn, FilesTyped, Names
  <2> QED BY <2>1, <2>2 DEF ContentsInv, TmpFilled, InTmp
<1> QED BY <1>2, <1>3

(***************************************************************************)
(* The theorems.                                                           *)
(***************************************************************************)
LEMMA ContentsInitially == ASSUME ISInit PROVE ContentsInv
<1>1. build = Idle BY DEF ISInit
<1>2. PICK live \in {None} \cup {Left(model, root) : model \in Models, root \in Roots} :
        dir = [name \in Names |-> IF name \in {"live", "main"} THEN live ELSE None]
  BY DEF ISInit
<1>3. ASSUME NEW model \in Models, NEW root \in Roots PROVE Tidy(Left(model, root))
  <2>1. ASSUME NEW d \in Docs, \A r \in Roots : <<r, d>> \notin Left(model, root).held
        PROVE  Left(model, root).rows[d] = NoRow
    <3>1. Left(model, root).held = {root} \X Under[root] BY DEF Left
    <3>2. <<root, d>> \notin {root} \X Under[root] BY <2>1, <3>1
    <3>3. d \notin Under[root] BY <3>2
    <3> QED BY <3>3 DEF Left
  <2> QED BY <2>1 DEF Tidy
<1>4. live # None => Tidy(live) BY <1>3
<1>5. dir["live"] = live /\ dir["main"] = live /\ dir["backup"] = None BY <1>2 DEF Names
<1>6. Tidied BY <1>4, <1>5 DEF Tidied, Kept
<1>7. TmpFilled /\ PendingLeft
  BY <1>1 DEF TmpFilled, InTmp, Filling, Early, PendingLeft, Idle
<1> QED BY <1>6, <1>7 DEF ContentsInv

LEMMA ContentsStep ==
  ASSUME StoreAlways, ContentsInv, [ISNext]_vars
  PROVE  ContentsKept
<1>1. StoreInv BY DEF StoreAlways
<1>2. FilesTyped' BY <1>1, FilesAlways DEF FilesKept
<1> QED BY <1>1, <1>2, ContentsAlways

LEMMA ContentsInvariance == ISSpec => [](StoreAlways /\ ContentsInv)
<1>1. ISInit => ContentsInv BY ContentsInitially
<1>2. StoreAlways /\ ContentsInv /\ [ISNext]_vars => ContentsInv'
  BY ContentsStep DEF ContentsKept
<1> QED BY <1>1, <1>2, Invariance, PTL DEF ISSpec

\* Through every crash, recovery and interrupted replacement the files behave as one
\* index that changes in whole steps (AtomicIndex): it is replaced by all a build put
\* together, whatever model that is of, or one root's share of it changes, or a rename
\* moves a row in every root; it goes back to the one before while that is there, and
\* all it loses besides is what only the log held when that is deleted for a
\* replacement (SemanticIndex::build, merge_root_from, rename_file, db.rs).
THEOREM ImplementsAtomicIndex == ISSpec => AtomicSpec
<1>1. ISInit => Atomic!Init
  BY DEF ISInit, Atomic!Init, Names, Recovered
<1>2. StoreAlways /\ ContentsInv /\ [ISNext]_vars => [Atomic!Next]_(Atomic!avars)
  BY ContentsStep DEF ContentsKept, AtomicStep
<1> QED BY <1>1, <1>2, ContentsInvariance, PTL DEF ISSpec, AtomicSpec, Atomic!Spec

\* What a build says it indexed or reused is in the index it publishes
\* (SemanticIndex::build, db.rs), also when it was stopped or failed half way.
THEOREM SavedHeld == ISSpec => SavedIsHeld
<1>1. StoreAlways /\ ContentsInv /\ [ISNext]_vars =>
        [build # Idle /\ build' # Idle /\ ~build.saved /\ build'.saved =>
           \A d \in Docs : build.said[d] \in {"Reused", "Indexed"} =>
              /\ <<build.root, d>> \in dir'.live.held
              /\ dir'.live.rows[d] # NoRow]_vars
  <2> SUFFICES ASSUME StoreAlways, ContentsInv, [ISNext]_vars,
                      build # Idle, build' # Idle, ~build.saved, build'.saved,
                      NEW d \in Docs, build.said[d] \in {"Reused", "Indexed"}
               PROVE  /\ <<build.root, d>> \in dir'.live.held
                      /\ dir'.live.rows[d] # NoRow
    OBVIOUS
  <2>1. StoreInv BY DEF StoreAlways
  <2>2. Merge \/ MoveIn BY <2>1, TaskMoves
  <2>3. SaidIsHeld BY <2>1, <2>2, Published
  <2>4. <<build.root, d>> \in dir.tmp.held /\ dir.tmp.rows[d] # NoRow
    BY <2>3 DEF SaidIsHeld, NoRow
  <2>5. CASE Merge
    <3>1. /\ build \in Tasks /\ dir.tmp \in Files /\ dir.live \in Files /\ Tidy(dir.live)
          /\ dir'.live = MergeRootFrom(dir.live, dir.tmp, build.root, Membership)
      BY <2>1, <2>5, Published
    <3>2. build.root \in Roots BY <3>1 DEF Tasks
    <3>3. d \in HeldUnder(dir.tmp, build.root) BY <2>4 DEF HeldUnder
    <3> DEFINE merged == MergeRootFrom(dir.live, dir.tmp, build.root, Membership)
    <3>4. \A x \in HeldUnder(dir.tmp, build.root) :
            <<build.root, x>> \in merged.held /\ merged.rows[x] = dir.tmp.rows[x]
      BY <3>1, <3>2, Merging
    <3> HIDE DEF merged
    <3>5. <<build.root, d>> \in merged.held /\ merged.rows[d] = dir.tmp.rows[d]
      BY <3>3, <3>4
    <3> QED BY <2>4, <3>1, <3>5 DEF merged
  <2>6. CASE MoveIn
    <3>1. dir'.live = dir.tmp BY <2>1, <2>6, Published
    <3> QED BY <2>4, <3>1
  <2> QED BY <2>2, <2>5, <2>6
<1> QED BY <1>1, ContentsInvariance, PTL DEF ISSpec, SavedIsHeld

\* A build that merges into the index takes a document from its root only when it
\* looked at every document and found no text in this one (merge_root_from,
\* RootMembership). A replacement is not spoken of.
THEOREM VerdictsOnly == ISSpec => OnlyVerdictsDrop
<1>1. StoreAlways /\ ContentsInv /\ [ISNext]_vars =>
        [\A root \in Roots, d \in Docs :
           /\ build.pc = "publish" /\ build'.pc \notin {"idle", "publish"}
           /\ dir.live # None /\ dir'.live # None
           /\ <<root, d>> \in dir.live.held /\ <<root, d>> \notin dir'.live.held
           => root = build.root /\ build.said[d] \in {"Empty", "Failed", "no"}]_vars
  <2> SUFFICES ASSUME StoreAlways, ContentsInv, [ISNext]_vars, NEW root \in Roots, NEW d \in Docs,
                      build.pc = "publish", build'.pc \notin {"idle", "publish"},
                      dir.live # None, dir'.live # None,
                      <<root, d>> \in dir.live.held, <<root, d>> \notin dir'.live.held
               PROVE  root = build.root /\ build.said[d] \in {"Empty", "Failed", "no"}
    OBVIOUS
  <2>1. StoreInv BY DEF StoreAlways
  <2>2. build # Idle /\ build' # Idle BY DEF Idle
  <2>3. Merge
    <3>1. ~(dir'.live = dir.live) OBVIOUS
    <3>2. ~MoveIn BY <2>1, Published
    <3> QED BY <2>1, <2>2, <3>1, <3>2, TaskMoves
  <2>4. /\ build \in Tasks /\ dir.tmp \in Files /\ dir.live \in Files /\ Tidy(dir.live)
        /\ dir'.live = MergeRootFrom(dir.live, dir.tmp, build.root, Membership)
        /\ build.pc = "publish" /\ SaidIsHeld
    BY <2>1, <2>3, Published
  <2>5. build.root \in Roots BY <2>4 DEF Tasks
  <2> DEFINE merged == MergeRootFrom(dir.live, dir.tmp, build.root, Membership)
  <2>6. /\ \A x \in HeldUnder(dir.tmp, build.root) : <<build.root, x>> \in merged.held
        /\ \A h \in dir.live.held : h \notin merged.held =>
             Membership = "authoritative" /\ h[1] = build.root
    BY <2>4, <2>5, Merging
  <2> HIDE DEF merged
  <2>7. <<root, d>> \notin merged.held BY <2>4 DEF merged
  <2>8. Membership = "authoritative" /\ root = build.root BY <2>6, <2>7
  <2>9. build.said[d] \notin {"Reused", "Indexed"}
    <3>1. d \notin HeldUnder(dir.tmp, build.root) BY <2>6, <2>7, <2>8
    <3> QED BY <2>4, <3>1 DEF SaidIsHeld, HeldUnder
  <2>10. build.said[d] # "Pending"
    <3>1. Succeeded /\ build.pc = "publish" BY <2>8 DEF Membership, Succeeded
    <3>2. d \notin Unsettled BY <2>2, <2>4, <3>1 DEF StoreAlways, JournalInv, TaskInv, AllSettled
    <3> QED BY <2>2, <3>2 DEF ContentsInv, PendingLeft
  <2>11. build.said[d] \in Outcomes \cup {"no"} BY <2>4 DEF Tasks
  <2> QED BY <2>8, <2>9, <2>10, <2>11 DEF Outcomes, Verdicts
<1> QED BY <1>1, ContentsInvariance, PTL DEF ISSpec, OnlyVerdictsDrop
================================================================================
