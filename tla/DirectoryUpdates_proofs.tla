------------------------ MODULE DirectoryUpdates_proofs ------------------------
(***************************************************************************)
(* Proofs about TopicCache, for any set of requests: it is well typed, and *)
(* every tree that is served is fresh. Then about DirectoryUpdates, for    *)
(* any number of files, batches and requests: it is well typed, it uses    *)
(* the topic cache as TopicCache says (so that what is served is fresh),   *)
(* and its index ends up current.                                          *)
(***************************************************************************)
EXTENDS DirectoryUpdates, FiniteSetTheorems, FunctionTheorems, TLAPS

(***************************************************************************)
(* The topic cache on its own.                                             *)
(***************************************************************************)
\* A tree, or what a build has read, is at least as new as the revision it
\* carries: it holds what any request met at that revision, or an earlier one,
\* and at the current revision all that precedes the last invalidation.
NewEnough(tree) ==
  /\ tree.rev <= rev
  /\ \A r \in Requests : tree.rev >= request[r].met => tree.holds >= request[r].since
  /\ tree.rev = rev => tree.holds >= invalidated

CacheInv ==
  /\ invalidated <= written
  /\ \A r \in Requests :
       /\ request[r].met <= request[r].rev /\ request[r].rev <= rev
       /\ request[r].since <= invalidated
       /\ request[r].pc = "cluster" => NewEnough(request[r])
  /\ slot # NoTree => NewEnough(slot)
  /\ TreeIsFresh

IInv == TCTypeOK /\ CacheInv

LEMMA TypeInitially == TCInit => TCTypeOK
BY DEF TCInit, TCTypeOK, Pcs

\* Each step of a request writes one record of request, of the right type.
LEMMA TypeOfRequests ==
  ASSUME TCTypeOK, NEW r \in Requests, RequestStep(r)
  PROVE  TCTypeOK'
<1> USE DEF TCTypeOK, Pcs, Trees, IndexAside, Unlocked
<1>1. CASE LoadRevision(r)
  <2>1. CASE request[r].pc = "new" BY <1>1, <2>1 DEF LoadRevision
  <2>2. CASE request[r].pc = "again" BY <1>1, <2>2 DEF LoadRevision
  <2> QED BY <1>1, <2>1, <2>2 DEF LoadRevision
<1>2. CASE Look(r) BY <1>2 DEF Look
<1>3. CASE Acquire(r) BY <1>3 DEF Acquire
<1>4. CASE Relook(r) BY <1>4 DEF Relook
<1>5. CASE Hit(r) BY <1>5 DEF Hit, Matches
<1>6. CASE CloneIndex(r) BY <1>6 DEF CloneIndex
<1>7. CASE Install(r) BY <1>7 DEF Install
<1>8. CASE Retry(r) BY <1>8 DEF Retry
<1>9. CASE GiveUp(r) BY <1>9 DEF GiveUp
<1> QED BY <1>1, <1>2, <1>3, <1>4, <1>5, <1>6, <1>7, <1>8, <1>9 DEF RequestStep

LEMMA TypeOfOthers ==
  ASSUME TCTypeOK,
         Bump \/ Clear \/ Change \/ (\E r \in Requests : CancelRequest(r))
                \/ UNCHANGED topicVars
  PROVE  TCTypeOK'
<1> USE DEF TCTypeOK, Requesting
<1>1. CASE Bump BY <1>1 DEF Bump
<1>2. CASE Clear BY <1>2 DEF Clear
<1>3. CASE Change BY <1>3 DEF Change
<1>4. CASE \E r \in Requests : CancelRequest(r) BY <1>4 DEF CancelRequest
<1>5. CASE UNCHANGED topicVars BY <1>5 DEF topicVars
<1> QED BY <1>1, <1>2, <1>3, <1>4, <1>5

LEMMA TypeKept == TCTypeOK /\ [TCNext]_topicVars => TCTypeOK'
BY TypeOfRequests, TypeOfOthers DEF TCNext

LEMMA InvInitially == TCInit => IInv
BY TypeInitially DEF TCInit, IInv, CacheInv, TreeIsFresh, NewEnough, TCTypeOK

\* An invalidation leaves every tree behind: what it carries is less than the
\* new revision, which no request has met yet.
LEMMA InvOfOthers ==
  ASSUME IInv,
         Bump \/ Clear \/ Change \/ (\E r \in Requests : CancelRequest(r))
                \/ UNCHANGED topicVars
  PROVE  IInv'
<1>1. TCTypeOK' BY TypeOfOthers DEF IInv
<1> USE DEF IInv, CacheInv, TreeIsFresh, NewEnough, TCTypeOK, Trees, Requesting
<1>2. CASE Bump BY <1>1, <1>2 DEF Bump
<1>3. CASE Clear BY <1>1, <1>3 DEF Clear
<1>4. CASE Change BY <1>1, <1>4 DEF Change
<1>5. CASE \E r \in Requests : CancelRequest(r) BY <1>1, <1>5 DEF CancelRequest
<1>6. CASE UNCHANGED topicVars BY <1>1, <1>6 DEF topicVars
<1> QED BY <1>2, <1>3, <1>4, <1>5, <1>6

LEMMA InvOfRequests ==
  ASSUME IInv, NEW r \in Requests, RequestStep(r)
  PROVE  IInv'
<1>1. TCTypeOK' BY TypeOfRequests DEF IInv
<1> USE DEF IInv, CacheInv, TreeIsFresh, NewEnough, TCTypeOK, Trees, IndexAside
<1>2. CASE LoadRevision(r)
  <2>1. CASE request[r].pc = "new" BY <1>1, <1>2, <2>1 DEF LoadRevision
  <2>2. CASE request[r].pc = "again"
    <3>1. request' = [request EXCEPT ![r] = [@ EXCEPT !.pc = "look", !.rev = rev]]
      BY <1>2, <2>2 DEF LoadRevision
    <3>2. \A q \in Requests :
            /\ request'[q].met = request[q].met /\ request'[q].since = request[q].since
            /\ request'[q].rev = IF q = r THEN rev ELSE request[q].rev
            /\ request'[q].pc \in {"cluster", "served"} => request'[q] = request[q]
      BY <3>1
    <3> QED BY <1>1, <1>2, <3>2 DEF LoadRevision
  <2> QED BY <1>2, <2>1, <2>2 DEF LoadRevision
<1>3. CASE Look(r) BY <1>1, <1>3 DEF Look
<1>4. CASE Acquire(r) BY <1>1, <1>4 DEF Acquire
<1>5. CASE Relook(r) BY <1>1, <1>5 DEF Relook
<1>6. CASE Hit(r) BY <1>1, <1>6 DEF Hit, Matches
<1>7. CASE CloneIndex(r) BY <1>1, <1>7 DEF CloneIndex
<1>8. CASE Install(r) BY <1>1, <1>8 DEF Install
<1>9. CASE Retry(r) BY <1>1, <1>9 DEF Retry
<1>10. CASE GiveUp(r) BY <1>1, <1>10 DEF GiveUp
<1> QED BY <1>2, <1>3, <1>4, <1>5, <1>6, <1>7, <1>8, <1>9, <1>10 DEF RequestStep

LEMMA InvKept == IInv /\ [TCNext]_topicVars => IInv'
BY InvOfOthers, InvOfRequests DEF TCNext

\* Every reachable state of the topic cache is well typed.
THEOREM CacheTypeCorrect == TCSpec => []TCTypeOK
BY TypeInitially, TypeKept, PTL DEF TCSpec

\* Whatever is installed, reused, cleared and raised meanwhile, and by however
\* many requests, a tree that is served holds every change that preceded the
\* last invalidation its request found (topic_tree_for).
THEOREM ServedIsFresh == TCSpec => []TreeIsFresh
<1>1. IInv => TreeIsFresh BY DEF IInv, CacheInv
<1> QED BY <1>1, InvInitially, InvKept, PTL DEF TCSpec

(***************************************************************************)
(* The inductive invariant. A batch is committed to what it found on disk: *)
(* unless a file was touched since (an event is due) or is unsure, what it *)
(* is about to write is what is on disk, and the index it writes to is the *)
(* one in the context.                                                     *)
(***************************************************************************)
Sure == Files \ unsure
Quiet == Sure \ events

Olds(b) == {r.old : r \in batch[b].renames}

\* Shape of a batch by its position.
InStep(b) ==
  /\ batch[b].pc = "idle" => batch[b] = Resting
  /\ IF batch[b].pc = "write" THEN batch[b].file \in Files /\ batch[b].text # 0
                              ELSE batch[b].file = Nobody
  /\ batch[b].pc # "rekey" => batch[b].renames = {}
  /\ batch[b].pc \in {"files", "write"} => batch[b].removed = {}
  /\ \A r \in batch[b].renames : r.new \in batch[b].changed
  /\ \A r, s \in batch[b].renames : r.new = s.new => r = s

Committed(b) ==
  /\ \A f \in Quiet \cap batch[b].removed : disk[f] = 0
  /\ batch[b].file \in Quiet => batch[b].text = disk[batch[b].file]
  /\ \A r \in batch[b].renames :
       /\ r.old \in Quiet => disk[r.old] = 0
       /\ r.new \in Quiet => r.content = disk[r.new]

\* The files a batch will still bring up to date. It may re-key an old path in
\* an index that is not the context's any more.
Due(b) ==
  batch[b].changed \cup batch[b].removed \cup ({batch[b].file} \cap Files)
                   \cup (IF batch[b].index = live THEN Olds(b) ELSE {})

WritesLive(b) ==
  live # 0 /\ batch[b].pc \notin {"idle", "index"}
    /\ (batch[b].changed \cup batch[b].removed \cup {batch[b].file}) \cap Sure # {}
  => batch[b].index = live

Current ==
  live # 0 =>
    \A f \in Quiet : (\E b \in Batches : f \in Due(b)) \/ opened[live][f] = disk[f]

UpdatesInv ==
  /\ \A b \in Batches : InStep(b) /\ Committed(b) /\ WritesLive(b)
  /\ Current

DUInv == DUTypeOK /\ UpdatesInv

(***************************************************************************)
(* What the definitions do.                                                *)
(***************************************************************************)
LEMMA FilesCounted ==
  /\ Cardinality(Files) \in Nat
  /\ FirstVersion \in [Files -> 1..Cardinality(Files)]
<1>1. Cardinality(Files) \in Nat /\ ExistsBijection(1..Cardinality(Files), Files)
  BY FS_CardinalityType, UpdatesAssumption
<1>2. ExistsBijection(Files, 1..Cardinality(Files))
  BY <1>1, Fun_ExistsBijSymmetric
<1>3. PICK version \in Bijection(Files, 1..Cardinality(Files)) : TRUE
  BY <1>2, Fun_ExistsBij
<1>4. /\ version \in [Files -> 1..Cardinality(Files)]
      /\ \A f, g \in Files : version[f] = version[g] => f = g
  BY <1>3 DEF Bijection, Injection, IsInjective
<1> QED BY <1>1, <1>4 DEF FirstVersion

\* A rename is of a file that is gone to a changed one, with its content.
LEMMA RenamesDetected ==
  ASSUME DUTypeOK, NEW changed \in SUBSET Files
  PROVE  /\ DetectRenames(changed) \in SUBSET Renames
         /\ \A r \in DetectRenames(changed) :
              r.new \in changed /\ disk[r.old] = 0 /\ r.content = disk[r.new]
         /\ \A r, s \in DetectRenames(changed) : r.new = s.new => r = s
<1>1. ASSUME NEW new \in Files, Cardinality(RenameSources(new)) = 1
      PROVE  (CHOOSE old \in RenameSources(new) : TRUE) \in RenameSources(new)
  <2>1. RenameSources(new) # {} BY <1>1, FS_EmptySet
  <2> QED BY <2>1
<1>2. \A old, new \in Files : old \in RenameSources(new) => disk[old] = 0
  BY DEF RenameSources
<1>3. \A new \in Files : RenameSources(new) \subseteq Files BY DEF RenameSources
<1>4. ASSUME NEW r \in DetectRenames(changed)
      PROVE  /\ r \in Renames
             /\ r.new \in changed /\ disk[r.old] = 0 /\ r.content = disk[r.new]
             /\ r = [old |-> CHOOSE old \in RenameSources(r.new) : TRUE, new |-> r.new,
                     content |-> disk[r.new]]
  <2>1. PICK new \in changed :
          /\ Cardinality(RenameSources(new)) = 1
          /\ r = [old |-> CHOOSE old \in RenameSources(new) : TRUE, new |-> new,
                  content |-> disk[new]]
    BY <1>4 DEF DetectRenames
  <2>2. (CHOOSE old \in RenameSources(new) : TRUE) \in RenameSources(new) BY <1>1, <2>1
  <2>3. disk[new] \in Versions BY <2>1 DEF DUTypeOK
  <2> QED BY <1>2, <1>3, <2>1, <2>2, <2>3 DEF Renames
<1> QED BY <1>4

(***************************************************************************)
(* The topic cache's part.                                                 *)
(***************************************************************************)
\* To the topic cache a batch and a replacement are an invalidation and a change,
\* and a merge is a change.
LEMMA UsesTopicCache == [DUNext]_liveVars => [TCNext]_topicVars
<1> USE DEF TCNext
<1>1. ASSUME NEW f \in Files, WriteOnDisk(f) \/ DeleteOnDisk(f) \/ List(f)
      PROVE  UNCHANGED topicVars
  BY <1>1 DEF WriteOnDisk, DeleteOnDisk, List, Disturb
<1>2. ASSUME NEW f \in Files, NEW g \in Files, RenameOnDisk(f, g)
      PROVE  UNCHANGED topicVars
  BY <1>2 DEF RenameOnDisk, Disturb
<1>3. ASSUME NEW b \in Batches, NEW reported \in SUBSET events, Deliver(b, reported)
      PROVE  UNCHANGED topicVars
  BY <1>3 DEF Deliver
<1>4. ASSUME NEW b \in Batches, BatchStep(b)
      PROVE  Bump \/ Clear \/ Change \/ UNCHANGED topicVars
  BY <1>4 DEF BatchStep, TakeIndex, Drop, BatchBumps, BatchClears, Detect, Rekey, Remove,
              DropGone, Prepare, Skip, Write, WriteFails, EndBatch
<1>5. CASE ReplaceBumps \/ ReplaceClears \/ Detach
  BY <1>5 DEF ReplaceBumps, ReplaceClears, Detach
<1>6. ASSUME NEW file, NEW rows, Attach(file, rows) \/ BuildMerges(rows) PROVE Change
  BY <1>6 DEF Attach, BuildMerges
<1>7. CASE UNCHANGED liveVars BY <1>7 DEF liveVars, topicVars
<1> QED BY <1>1, <1>2, <1>3, <1>4, <1>5, <1>6, <1>7 DEF DUNext

\* The topic cache does in this system what TopicCache lets it do.
THEOREM ImplementsTopicCache == DUSpec => TCSpec
<1>1. DUInit => TCInit BY DEF DUInit
<1> QED BY <1>1, UsesTopicCache, PTL DEF DUSpec, TCSpec

\* No topic request is served a tree older than the invalidation it found, whatever
\* batches, builds and deletions do to the index and in whatever order
\* (topic_tree_for, process_directory_change_for_semantic, finish_build_index).
THEOREM UpdatesServeFresh == DUSpec => []TreeIsFresh
BY ImplementsTopicCache, ServedIsFresh

(***************************************************************************)
(* Types.                                                                  *)
(***************************************************************************)
LEMMA UpdatesTypeInitially == DUInit => DUTypeOK
<1> SUFFICES ASSUME DUInit PROVE DUTypeOK OBVIOUS
<1>1. TCTypeOK BY TypeInitially DEF DUInit
<1>2. \A f \in Files : FirstVersion[f] \in Versions
  BY FilesCounted, UpdatesAssumption DEF Versions
<1>3. 0 \in Versions BY FilesCounted, UpdatesAssumption DEF Versions
<1>4. disk \in [Files -> Versions] BY <1>2, <1>3 DEF DUInit
<1>5. known \in [Files -> Versions] BY <1>3, <1>4 DEF DUInit
<1>6. opened \in [Handles -> [Files -> Versions]] BY <1>3, <1>4 DEF DUInit
<1>7. batch \in [Batches -> [pc : BatchPcs, changed : SUBSET Files, removed : SUBSET Files,
                            renames : SUBSET Renames, index : 0..MaxHandles,
                            file : Files \cup {Nobody}, text : Versions]]
  BY <1>3, UpdatesAssumption DEF DUInit, Resting, BatchPcs
<1> QED BY <1>1, <1>4, <1>5, <1>6, <1>7, UpdatesAssumption DEF DUInit, DUTypeOK

Tasks == [pc : BatchPcs, changed : SUBSET Files, removed : SUBSET Files,
          renames : SUBSET Renames, index : 0..MaxHandles,
          file : Files \cup {Nobody}, text : Versions]

\* What the steps of the disk and of a replacement write has the right type.
LEMMA TypeOfDisk ==
  ASSUME DUTypeOK, NEW f \in Files, NEW g \in Files,
         WriteOnDisk(f) \/ DeleteOnDisk(f) \/ List(f) \/ RenameOnDisk(f, g)
  PROVE  DUTypeOK'
<1>1. TCTypeOK'
  <2>1. UNCHANGED topicVars
    BY DEF WriteOnDisk, DeleteOnDisk, List, RenameOnDisk, Disturb
  <2> QED BY <2>1, TypeKept DEF DUTypeOK
<1>2. 0 \in Versions BY FilesCounted, UpdatesAssumption DEF Versions
<1>3. changes < MaxChanges => Cardinality(Files) + changes + 1 \in Versions
  BY FilesCounted, UpdatesAssumption DEF Versions, DUTypeOK
<1>4. changes < MaxChanges => changes + 1 \in 0..MaxChanges
  BY UpdatesAssumption DEF DUTypeOK
<1>5. CASE WriteOnDisk(f) BY <1>1, <1>3, <1>4, <1>5 DEF WriteOnDisk, Disturb, DUTypeOK
<1>6. CASE DeleteOnDisk(f) BY <1>1, <1>2, <1>4, <1>6 DEF DeleteOnDisk, Disturb, DUTypeOK
<1>7. CASE RenameOnDisk(f, g)
  BY <1>1, <1>2, <1>4, <1>7 DEF RenameOnDisk, Disturb, DUTypeOK
<1>8. CASE List(f) BY <1>1, <1>8 DEF List, onDisk, DUTypeOK
<1> QED BY <1>5, <1>6, <1>7, <1>8

LEMMA TypeOfReplacement ==
  ASSUME DUTypeOK, TCTypeOK',
         \/ ReplaceBumps \/ ReplaceClears \/ Detach
         \/ \E rows \in [Files -> 0..(Cardinality(Files) + changes)] : BuildMerges(rows)
         \/ \E file \in Handles, kept \in SUBSET Files :
              Attach(file, [f \in Files |-> IF f \in kept THEN disk[f] ELSE 0])
         \/ UNCHANGED updateVars
  PROVE  DUTypeOK'
<1> USE DEF DUTypeOK
<1>1. 0 \in Versions BY FilesCounted, UpdatesAssumption DEF Versions
<1>2. CASE ReplaceBumps BY <1>2 DEF ReplaceBumps, ReplaceAside
<1>3. CASE ReplaceClears BY <1>3 DEF ReplaceClears, ReplaceAside
<1>4. CASE Detach BY <1>4, UpdatesAssumption DEF Detach, ReplaceAside
<1>5. ASSUME NEW file \in Handles, NEW kept \in SUBSET Files,
             Attach(file, [f \in Files |-> IF f \in kept THEN disk[f] ELSE 0])
      PROVE  DUTypeOK'
  <2>1. [f \in Files |-> IF f \in kept THEN disk[f] ELSE 0] \in [Files -> Versions] BY <1>1
  <2>2. live' \in 0..MaxHandles BY <1>5, UpdatesAssumption DEF Attach, Handles
  <2>3. opened' \in [Handles -> [Files -> Versions]] BY <1>5, <2>1 DEF Attach
  <2> QED BY <1>5, <2>2, <2>3 DEF Attach, ReplaceAside
<1>7. ASSUME NEW rows \in [Files -> 0..(Cardinality(Files) + changes)], BuildMerges(rows)
      PROVE  DUTypeOK'
  <2>1. 0..(Cardinality(Files) + changes) \subseteq Versions
    BY FilesCounted, UpdatesAssumption DEF Versions
  <2>2. rows \in [Files -> Versions] BY <2>1
  <2>3. changes' \in 0..MaxChanges BY <1>7, UpdatesAssumption DEF BuildMerges
  <2>4. opened' \in [Handles -> [Files -> Versions]] BY <1>7, <2>2 DEF BuildMerges
  <2> QED BY <1>7, <2>3, <2>4 DEF BuildMerges
<1>6. CASE UNCHANGED updateVars BY <1>6 DEF updateVars
<1> QED BY <1>2, <1>3, <1>4, <1>5, <1>6, <1>7

\* A batch step moves one batch and writes at most its own index.
LEMMA TypeOfBatch ==
  ASSUME DUTypeOK, TCTypeOK', NEW b \in Batches,
         BatchStep(b) \/ \E reported \in SUBSET events : Deliver(b, reported)
  PROVE  DUTypeOK'
<1>1. 0 \in Versions BY FilesCounted, UpdatesAssumption DEF Versions
<1>2. Resting \in Tasks BY <1>1, UpdatesAssumption DEF Resting, Tasks, BatchPcs
<1>3. batch \in [Batches -> Tasks] BY DEF DUTypeOK, Tasks
<1>4. UNCHANGED <<disk, changes, live, replacing>>
  BY DEF BatchStep, Deliver, TakeIndex, Drop, BatchBumps, BatchClears, Detect, Rekey, Remove,
         DropGone, Prepare, Skip, Write, WriteFails, EndBatch, BatchAside
<1> SUFFICES /\ events' \in SUBSET Files /\ known' \in [Files -> Versions]
             /\ opened' \in [Handles -> [Files -> Versions]]
             /\ batch' \in [Batches -> Tasks] /\ unsure' \in SUBSET Files
  BY <1>4 DEF DUTypeOK, Tasks
<1>5. Ahead(b) \subseteq Files BY <1>3 DEF Ahead, Tasks, Renames
<1>6. \A r \in Renames : r.old \in Files /\ r.new \in Files BY DEF Renames
<1> USE DEF DUTypeOK
<1>7. ASSUME NEW reported \in SUBSET events, Deliver(b, reported)
      PROVE  /\ events' \in SUBSET Files /\ known' \in [Files -> Versions]
             /\ opened' \in [Handles -> [Files -> Versions]]
             /\ batch' \in [Batches -> Tasks] /\ unsure' \in SUBSET Files
  <2>1. [Resting EXCEPT !.pc = "index", !.changed = {f \in reported : disk[f] # 0},
                        !.removed = {f \in reported : disk[f] = 0}] \in Tasks
    BY <1>2, <1>7 DEF Tasks, BatchPcs
  <2> QED BY <1>3, <1>7, <2>1 DEF Deliver
<1>8. CASE TakeIndex(b)
  <2>1. batch' = [batch EXCEPT ![b].pc = "bump", ![b].index = live] BY <1>8 DEF TakeIndex
  <2>2. live \in 0..MaxHandles OBVIOUS
  <2>3. [batch[b] EXCEPT !.pc = "bump", !.index = live] \in Tasks
    BY <1>3, <2>2 DEF Tasks, BatchPcs
  <2> QED BY <1>3, <1>8, <2>1, <2>3 DEF TakeIndex
<1>9. CASE BatchBumps(b) BY <1>3, <1>9 DEF BatchBumps, Tasks, BatchPcs
<1>10. CASE BatchClears(b) BY <1>3, <1>10 DEF BatchClears, Tasks, BatchPcs
<1>11. CASE Detect(b)
  <2>1. DetectRenames(batch[b].changed) \in SUBSET Renames
    BY <1>3, RenamesDetected DEF Tasks
  <2>2. PICK renames \in SUBSET DetectRenames(batch[b].changed) :
          batch' = [batch EXCEPT ![b].renames = renames,
                                 ![b].pc = IF renames = {} THEN "remove" ELSE "rekey"]
    BY <1>11 DEF Detect
  <2> DEFINE pc == IF renames = {} THEN "remove" ELSE "rekey"
  <2>3. renames \in SUBSET Renames /\ pc \in BatchPcs BY <2>1 DEF BatchPcs
  <2>4. batch' = [batch EXCEPT ![b].renames = renames, ![b].pc = pc] BY <2>2
  <2> HIDE DEF pc
  <2>5. batch' \in [Batches -> Tasks] BY <1>3, <2>3, <2>4 DEF Tasks
  <2> QED BY <1>11, <2>5 DEF Detect
<1>12. CASE Rekey(b)
  <2>1. batch[b] \in Tasks BY <1>3
  <2> DEFINE renames == batch[b].renames
             rows    == opened[batch[b].index]
  <2>2. ASSUME NEW store \in [Files -> Versions], NEW done \in SUBSET renames
        PROVE  Rekeyed(store, done) \in [Files -> Versions]
    <3>1. ASSUME NEW f \in Files, \E r \in done : r.new = f
          PROVE  (CHOOSE r \in done : r.new = f).old \in Files
      BY <1>6, <2>1, <3>1 DEF Tasks
    <3> QED BY <1>1, <3>1 DEF Rekeyed
  <2>3. PICK failed \in SUBSET renames, stale \in SUBSET renames :
          /\ opened' = [opened EXCEPT ![batch[b].index] = Rekeyed(rows, renames \ failed)]
          /\ known' = Rekeyed(known, renames \ stale)
          /\ unsure' = unsure \cup {r.old : r \in failed} \cup {r.new : r \in failed}
                         \cup {r.new : r \in {x \in renames : rows[x.old] # x.content}}
    BY <1>12 DEF Rekey
  <2>4. known' \in [Files -> Versions]
    <3>1. renames \ stale \in SUBSET renames OBVIOUS
    <3> QED BY <2>2, <2>3, <3>1
  <2>5. opened' \in [Handles -> [Files -> Versions]]
    <3>1. renames \ failed \in SUBSET renames OBVIOUS
    <3>2. CASE batch[b].index \in Handles BY <2>2, <2>3, <3>1, <3>2
    <3>3. CASE batch[b].index \notin Handles BY <2>3, <3>3
    <3> QED BY <3>2, <3>3
  <2>6. batch' \in [Batches -> Tasks]
    <3>1. batch' = [batch EXCEPT ![b].pc = "remove", ![b].renames = {},
                                 ![b].changed = @ \ {r.new : r \in renames},
                                 ![b].removed = @ \ {r.old : r \in renames}]
      BY <1>12 DEF Rekey
    <3>2. [batch[b] EXCEPT !.pc = "remove", !.renames = {},
                           !.changed = @ \ {r.new : r \in renames},
                           !.removed = @ \ {r.old : r \in renames}] \in Tasks
      BY <2>1 DEF Tasks, BatchPcs
    <3> QED BY <1>3, <3>1, <3>2
  <2>7. unsure' \in SUBSET Files
    <3>1. renames \in SUBSET Renames BY <2>1 DEF Tasks
    <3> QED BY <1>6, <2>3, <3>1
  <2> QED BY <1>12, <2>4, <2>5, <2>6, <2>7 DEF Rekey
<1>13. CASE Remove(b)
  <2>1. batch' \in [Batches -> Tasks]
    <3>1. batch' = [batch EXCEPT ![b].pc = "files", ![b].removed = {}] BY <1>13 DEF Remove
    <3> HIDE DEF DUTypeOK
    <3>2. [batch[b] EXCEPT !.pc = "files", !.removed = {}] \in Tasks
      BY <1>3 DEF Tasks, BatchPcs
    <3> QED BY <1>3, <3>1, <3>2
  <2>2. \A store \in [Files -> Versions] :
          \A gone : Without(store, gone) \in [Files -> Versions]
    BY <1>1 DEF Without
  <2>3. PICK failed \in SUBSET batch[b].removed, stale \in SUBSET batch[b].removed :
          /\ opened' = [opened EXCEPT ![batch[b].index] = Without(@, batch[b].removed \ failed)]
          /\ known' = Without(known, batch[b].removed \ stale)
          /\ unsure' = unsure \cup failed
    BY <1>13 DEF Remove
  <2>4. known' \in [Files -> Versions] BY <2>2, <2>3
  <2>5. opened' \in [Handles -> [Files -> Versions]]
    <3>1. CASE batch[b].index \in Handles BY <2>2, <2>3, <3>1
    <3>2. CASE batch[b].index \notin Handles BY <2>3, <3>2
    <3> QED BY <3>1, <3>2
  <2>6. unsure' \in SUBSET Files
    <3>1. batch[b].removed \subseteq Files BY <1>3 DEF Tasks
    <3> QED BY <2>3, <3>1
  <2> QED BY <1>13, <2>1, <2>4, <2>5, <2>6 DEF Remove
<1>14. ASSUME NEW f \in Files, DropGone(b, f) \/ Prepare(b, f) \/ Skip(b, f)
       PROVE  /\ events' \in SUBSET Files /\ known' \in [Files -> Versions]
              /\ opened' \in [Handles -> [Files -> Versions]]
              /\ batch' \in [Batches -> Tasks] /\ unsure' \in SUBSET Files
  <2>1. CASE DropGone(b, f) BY <1>1, <1>3, <2>1 DEF DropGone, Tasks
  <2>2. CASE Prepare(b, f) BY <1>3, <2>2 DEF Prepare, Tasks, BatchPcs
  <2>3. CASE Skip(b, f) BY <1>3, <2>3 DEF Skip, Tasks
  <2> QED BY <1>14, <2>1, <2>2, <2>3
<1>15. CASE Write(b)
  <2>1. batch' \in [Batches -> Tasks]
    <3>1. batch' = [batch EXCEPT ![b].pc = "files", ![b].file = Nobody, ![b].text = 0]
      BY <1>15 DEF Write
    <3> HIDE DEF DUTypeOK
    <3>2. [batch[b] EXCEPT !.pc = "files", !.file = Nobody, !.text = 0] \in Tasks
      BY <1>1, <1>3 DEF Tasks, BatchPcs
    <3> QED BY <1>3, <3>1, <3>2
  <2>2. opened' \in [Handles -> [Files -> Versions]]
    <3>1. CASE disk[batch[b].file] = 0 BY <1>15, <3>1 DEF Write
    <3>2. CASE disk[batch[b].file] # 0
      <4>1. batch[b].text \in Versions BY <1>3 DEF Tasks
      <4>2. opened' = [opened EXCEPT ![batch[b].index][batch[b].file] = batch[b].text]
        BY <1>15, <3>2 DEF Write
      <4>3. \A h \in Handles : opened'[h] \in [Files -> Versions]
        BY <4>1, <4>2
      <4>4. opened' = [h \in Handles |-> opened'[h]] BY <4>2
      <4> HIDE DEF DUTypeOK
      <4> QED BY <4>3, <4>4
    <3> QED BY <3>1, <3>2
  <2> QED BY <1>15, <2>1, <2>2 DEF Write
<1>16. CASE EndBatch(b) BY <1>2, <1>3, <1>16 DEF EndBatch
<1>17. CASE Drop(b)
  <2>1. batch' = [batch EXCEPT ![b] = Resting] /\ unsure' = unsure \cup Ahead(b)
    BY <1>17 DEF Drop
  <2>2. batch' \in [Batches -> Tasks] BY <1>2, <1>3, <2>1
  <2> QED BY <1>5, <1>17, <2>1, <2>2 DEF Drop
<1>18. CASE WriteFails(b)
  <2>1. batch' = [batch EXCEPT ![b].pc = "files", ![b].file = Nobody, ![b].text = 0]
    BY <1>18 DEF WriteFails
  <2>2. [batch[b] EXCEPT !.pc = "files", !.file = Nobody, !.text = 0] \in Tasks
    BY <1>1, <1>3 DEF Tasks, BatchPcs
  <2>3. batch' \in [Batches -> Tasks] BY <1>3, <2>1, <2>2
  <2> QED BY <1>18, <2>3 DEF WriteFails
<1> QED
  BY <1>7, <1>8, <1>9, <1>10, <1>11, <1>12, <1>13, <1>14, <1>15, <1>16, <1>17, <1>18
  DEF BatchStep

LEMMA UpdatesTypeKept == DUTypeOK /\ [DUNext]_liveVars => DUTypeOK'
<1> SUFFICES ASSUME DUTypeOK, [DUNext]_liveVars PROVE DUTypeOK' OBVIOUS
<1>1. TCTypeOK' BY UsesTopicCache, TypeKept DEF DUTypeOK
<1>2. UNCHANGED liveVars => UNCHANGED updateVars BY DEF liveVars, updateVars
<1> QED BY <1>1, <1>2, TypeOfDisk, TypeOfReplacement, TypeOfBatch DEF DUNext

\* Every reachable state of the live index and of what keeps it current is well typed.
THEOREM UpdatesTypeCorrect == DUSpec => []DUTypeOK
BY UpdatesTypeInitially, UpdatesTypeKept, PTL DEF DUSpec

(***************************************************************************)
(* The invariant.                                                          *)
(***************************************************************************)
LEMMA UpdatesInvInitially == DUInit => UpdatesInv
<1> SUFFICES ASSUME DUInit PROVE UpdatesInv OBVIOUS
<1>1. \A b \in Batches : batch[b] = Resting BY DEF DUInit
<1>2. opened[live] = disk BY UpdatesAssumption DEF DUInit, Handles
<1> QED
  BY <1>1, <1>2, UpdatesAssumption
  DEF UpdatesInv, InStep, Committed, WritesLive, Current, Resting, Sure, Quiet

\* A file that is touched has an event due: nothing is said of it any more.
LEMMA InvOfDisk ==
  ASSUME DUInv, UNCHANGED <<batch, opened, live, unsure>>,
         NEW touched \in SUBSET Files, events' = events \cup touched,
         \A f \in Files \ touched : disk'[f] = disk[f]
  PROVE  UpdatesInv'
<1>1. Quiet' \subseteq Quiet /\ Sure' = Sure /\ \A f \in Quiet' : disk'[f] = disk[f]
  BY DEF Quiet, Sure
<1>2. \A b \in Batches : InStep(b)' /\ WritesLive(b)' /\ Due(b)' = Due(b)
  BY <1>1 DEF DUInv, UpdatesInv, InStep, WritesLive, Due, Olds
<1>3. \A b \in Batches : Committed(b)' BY <1>1 DEF DUInv, UpdatesInv, Committed
<1>4. Current' BY <1>1, <1>2 DEF DUInv, UpdatesInv, Current
<1> QED BY <1>2, <1>3, <1>4 DEF UpdatesInv

LEMMA InvOfReplacement ==
  ASSUME DUInv,
         \/ ReplaceBumps \/ ReplaceClears \/ Detach \/ UNCHANGED updateVars
         \/ \E rows \in [Files -> 0..(Cardinality(Files) + changes)] : BuildMerges(rows)
         \/ \E file \in Handles, kept \in SUBSET Files :
              Attach(file, [f \in Files |-> IF f \in kept THEN disk[f] ELSE 0])
  PROVE  UpdatesInv'
<1>1. CASE ReplaceBumps \/ ReplaceClears \/ UNCHANGED updateVars
  <2>1. UNCHANGED <<batch, opened, live, unsure, events, disk>>
    BY <1>1 DEF ReplaceBumps, ReplaceClears, ReplaceAside, updateVars
  <2>2. {} \in SUBSET Files /\ events' = events \cup {} /\ disk' = disk BY <2>1
  <2> QED BY <2>1, <2>2, InvOfDisk
<1>2. CASE Detach
  <2>1. live' = 0 /\ UNCHANGED <<batch, unsure, events, disk>>
    BY <1>2 DEF Detach, ReplaceAside
  <2>2. Quiet' = Quiet BY <2>1 DEF Sure, Quiet
  <2>3. \A b \in Batches : InStep(b)' /\ Committed(b)'
    BY <2>1, <2>2 DEF DUInv, UpdatesInv, InStep, Committed
  <2> QED BY <2>1, <2>3 DEF UpdatesInv, WritesLive, Current
\* Another index, or another build's: every file is unsure.
<1>3. ASSUME NEW file, NEW rows, Attach(file, rows) PROVE UpdatesInv'
  <2>1. unsure' = Files /\ UNCHANGED <<batch, events, disk>>
    BY <1>3 DEF Attach, ReplaceAside
  <2>2. Sure' = {} /\ Quiet' = {} BY <2>1 DEF Sure, Quiet
  <2>3. \A b \in Batches : InStep(b)' BY <2>1 DEF DUInv, UpdatesInv, InStep
  <2> QED BY <2>2, <2>3 DEF UpdatesInv, Committed, WritesLive, Current
\* A merge: the files that stay sure keep their rows.
<1>4. ASSUME NEW rows \in [Files -> 0..(Cardinality(Files) + changes)], BuildMerges(rows)
      PROVE  UpdatesInv'
  <2>1. /\ UNCHANGED <<batch, events, disk, live>>
        /\ unsure' = unsure \cup {f \in Files : rows[f] # opened[live][f]}
    BY <1>4 DEF BuildMerges
  <2>2. Sure' \subseteq Sure /\ Quiet' \subseteq Quiet BY <2>1 DEF Sure, Quiet
  <2>3. \A b \in Batches : InStep(b)' /\ WritesLive(b)' /\ Due(b)' = Due(b)
    BY <2>1, <2>2 DEF DUInv, UpdatesInv, InStep, WritesLive, Due, Olds
  <2>4. \A b \in Batches : Committed(b)' BY <2>1, <2>2 DEF DUInv, UpdatesInv, Committed
  <2>5. live \in Handles => opened'[live] = rows BY <1>4 DEF BuildMerges, DUInv, DUTypeOK
  <2>6. live # 0 => live \in Handles BY UpdatesAssumption DEF DUInv, DUTypeOK, Handles
  <2>7. \A f \in Quiet' : rows[f] = opened[live][f] BY <2>1 DEF Sure, Quiet
  <2>8. Current' BY <2>1, <2>2, <2>3, <2>5, <2>6, <2>7 DEF DUInv, UpdatesInv, Current
  <2> QED BY <2>3, <2>4, <2>8 DEF UpdatesInv
<1> QED BY <1>1, <1>2, <1>3, <1>4

\* A file another batch has ahead becomes unsure, any other is ahead of this one.
LEMMA InvOfDelivery ==
  ASSUME DUInv, NEW b \in Batches, NEW reported \in SUBSET events, Deliver(b, reported)
  PROVE  UpdatesInv'
<1> USE DEF DUInv, UpdatesInv
<1> DEFINE shared == {f \in reported : \E a \in Batches : f \in Ahead(a)}
<1>1. /\ batch[b] = Resting
      /\ events' = events \ reported /\ unsure' = (unsure \ reported) \cup shared
      /\ UNCHANGED <<disk, live, opened>>
  BY DEF Deliver, BatchAside, InStep
<1>2. /\ \A a \in Batches \ {b} : batch'[a] = batch[a]
      /\ batch'[b].pc = "index" /\ batch'[b].file = Nobody /\ batch'[b].renames = {}
      /\ batch'[b].changed = {f \in reported : disk[f] # 0}
      /\ batch'[b].removed = {f \in reported : disk[f] = 0}
  BY DEF Deliver, Resting, DUTypeOK
<1>3. reported \subseteq Files BY DEF DUTypeOK
<1>4. /\ \A f \in Sure' \ reported : f \in Sure
      /\ \A f \in Quiet' \ reported : f \in Quiet
      /\ \A a \in Batches, f \in reported : f \in Ahead(a) => f \notin Sure' /\ f \notin Quiet'
  BY <1>1 DEF Sure, Quiet
<1>5. ASSUME NEW a \in Batches \ {b} PROVE InStep(a)' /\ WritesLive(a)' /\ Due(a)' = Due(a)
  <2>1. batch'[a] = batch[a] BY <1>2
  <2>2. \A f \in Files : f \in batch[a].changed \cup batch[a].removed \cup {batch[a].file}
                           => f \in Ahead(a)
    BY DEF Ahead
  <2>3. Sure' \subseteq Files BY DEF Sure
  <2> QED BY <1>1, <1>4, <2>1, <2>2, <2>3 DEF InStep, WritesLive, Due, Olds
<1>6. ASSUME NEW a \in Batches \ {b} PROVE Committed(a)'
  <2>1. batch'[a] = batch[a] /\ disk' = disk BY <1>1, <1>2
  <2>2. /\ \A f \in Files : f \in batch[a].removed \cup {batch[a].file} => f \in Ahead(a)
        /\ \A r \in batch[a].renames : r.old \in Ahead(a)
    BY DEF Ahead
  <2>3. batch[a].renames \in SUBSET Renames /\ batch[a].changed \in SUBSET Files
    BY DEF DUTypeOK
  <2>4. \A r \in batch[a].renames : r.new \in Ahead(a) BY DEF InStep, Ahead
  <2>5. Quiet' \subseteq Files BY DEF Quiet, Sure
  <2>6. \A f \in Quiet' : f \in Ahead(a) => f \in Quiet BY <1>4
  <2> QED BY <2>1, <2>2, <2>4, <2>5, <2>6 DEF Committed
<1>7. InStep(b)' /\ Committed(b)' /\ WritesLive(b)'
  <2>1. Nobody \notin Quiet' BY UpdatesAssumption DEF Quiet, Sure
  <2> QED BY <1>1, <1>2, <2>1 DEF InStep, Committed, WritesLive
<1>8. Current'
  <2>1. Due(b) = {} BY <1>1, UpdatesAssumption DEF Due, Olds, Resting
  <2>2. reported \subseteq Due(b)' BY <1>2 DEF Due
  <2> QED BY <1>1, <1>4, <1>5, <2>1, <2>2 DEF Current
<1> QED BY <1>5, <1>6, <1>7, <1>8

\* A batch's step changes nothing for the others, and at most makes files unsure:
\* what it owes is only that its own files stay ahead of it or become current.
LEMMA InvOfOwnStep ==
  ASSUME DUInv, NEW b \in Batches, UNCHANGED <<disk, live, events>>,
         unsure \subseteq unsure',
         \A a \in Batches \ {b} : batch'[a] = batch[a],
         InStep(b)', Committed(b)', WritesLive(b)',
         live # 0 => \A f \in Quiet' :
           f \in Due(b) \/ opened[live][f] = disk[f]
             => f \in Due(b)' \/ opened'[live][f] = disk[f]
  PROVE  UpdatesInv'
<1>1. Sure' \subseteq Sure /\ Quiet' \subseteq Quiet BY DEF Sure, Quiet
<1>2. \A a \in Batches \ {b} : InStep(a)' /\ WritesLive(a)' /\ Due(a)' = Due(a)
  BY <1>1 DEF DUInv, UpdatesInv, InStep, WritesLive, Due, Olds
<1>3. \A a \in Batches \ {b} : Committed(a)' BY <1>1 DEF DUInv, UpdatesInv, Committed
<1>4. Current' BY <1>1, <1>2 DEF DUInv, UpdatesInv, Current
<1> QED BY <1>2, <1>3, <1>4 DEF UpdatesInv

\* The steps that leave the index alone: the batch keeps its files, gives all of
\* them up, or has none left; the one that takes the index takes the context's.
LEMMA InvBeforeWork ==
  ASSUME DUInv, NEW b \in Batches,
         \/ TakeIndex(b) \/ BatchBumps(b) \/ BatchClears(b) \/ Detect(b)
         \/ Drop(b) \/ EndBatch(b)
  PROVE  UpdatesInv'
<1> USE DEF DUInv, UpdatesInv
<1>1. UNCHANGED <<disk, live, events, opened>> /\ unsure \subseteq unsure'
  BY DEF TakeIndex, BatchBumps, BatchClears, Detect, Drop, EndBatch, BatchAside
<1>2. Quiet' \subseteq Quiet /\ Sure' \subseteq Sure BY <1>1 DEF Quiet, Sure
<1>3. Nobody \notin Quiet' BY UpdatesAssumption DEF Quiet, Sure
<1>4. \A a \in Batches \ {b} : batch'[a] = batch[a]
  BY DEF TakeIndex, BatchBumps, BatchClears, Detect, Drop, EndBatch, DUTypeOK
<1>5. InStep(b) /\ Committed(b) /\ WritesLive(b) OBVIOUS
<1> SUFFICES /\ InStep(b)' /\ Committed(b)' /\ WritesLive(b)'
             /\ live # 0 => \A f \in Quiet' : f \in Due(b) => f \in Due(b)'
  BY <1>1, <1>4, InvOfOwnStep
<1>6. CASE Drop(b) \/ EndBatch(b)
  <2>1. batch'[b] = Resting BY <1>6 DEF Drop, EndBatch, DUTypeOK
  <2>2. EndBatch(b) => Due(b) = {}
    BY <1>5, UpdatesAssumption DEF EndBatch, Due, Olds, InStep
  <2>3. Drop(b) => \A f \in Quiet' : f \notin Due(b)
    <3>1. Due(b) \subseteq Ahead(b) BY DEF Due, Olds, Ahead
    <3>2. Drop(b) => \A f \in Quiet' : f \notin Ahead(b) BY DEF Drop, Quiet, Sure
    <3> QED BY <3>1, <3>2
  <2> QED BY <1>1, <1>3, <1>6, <2>1, <2>2, <2>3 DEF Resting, InStep, Committed, WritesLive
<1>7. CASE TakeIndex(b)
  <2>1. batch'[b] = [batch[b] EXCEPT !.pc = "bump", !.index = live]
    BY <1>7 DEF TakeIndex, DUTypeOK
  <2>2. batch[b] \in Tasks BY DEF DUTypeOK, Tasks
  <2>3. batch[b].pc = "index" BY <1>7 DEF TakeIndex
  <2>4. /\ batch'[b].pc = "bump" /\ batch'[b].index = live /\ batch[b].renames = {}
        /\ batch'[b].changed = batch[b].changed /\ batch'[b].removed = batch[b].removed
        /\ batch'[b].renames = batch[b].renames /\ batch'[b].file = Nobody
        /\ batch[b].file = Nobody
    BY <1>5, <2>1, <2>2, <2>3 DEF Tasks, InStep
  <2> QED
    BY <1>1, <1>2, <1>3, <1>5, <2>4 DEF InStep, Committed, WritesLive, Due, Olds
<1>8. CASE BatchBumps(b) \/ BatchClears(b)
  <2>1. /\ batch[b].pc \in {"bump", "clear"} /\ batch'[b].pc \in {"clear", "detect"}
        /\ batch'[b].index = batch[b].index /\ batch'[b].file = batch[b].file
        /\ batch'[b].changed = batch[b].changed /\ batch'[b].removed = batch[b].removed
        /\ batch'[b].renames = batch[b].renames
    BY <1>8 DEF BatchBumps, BatchClears, DUTypeOK
  <2> QED
    BY <1>1, <1>2, <1>3, <1>5, <2>1 DEF InStep, Committed, WritesLive, Due, Olds
<1>9. CASE Detect(b)
  <2>1. PICK renames \in SUBSET DetectRenames(batch[b].changed) :
          batch' = [batch EXCEPT ![b].renames = renames,
                                 ![b].pc = IF renames = {} THEN "remove" ELSE "rekey"]
    BY <1>9 DEF Detect
  <2>2. /\ batch[b].pc = "detect"
        /\ batch'[b].pc = IF renames = {} THEN "remove" ELSE "rekey"
        /\ batch'[b].index = batch[b].index /\ batch'[b].file = batch[b].file
        /\ batch'[b].changed = batch[b].changed /\ batch'[b].removed = batch[b].removed
        /\ batch'[b].renames = renames
    <3>1. batch[b].pc = "detect" BY <1>9 DEF Detect
    <3>2. batch \in [Batches -> Tasks] BY DEF DUTypeOK, Tasks
    <3> DEFINE pc == IF renames = {} THEN "remove" ELSE "rekey"
    <3>3. batch' = [batch EXCEPT ![b].renames = renames, ![b].pc = pc] BY <2>1
    <3> HIDE DEF pc, DUInv, UpdatesInv
    <3>4. /\ batch'[b].pc = pc /\ batch'[b].index = batch[b].index
          /\ batch'[b].file = batch[b].file /\ batch'[b].changed = batch[b].changed
          /\ batch'[b].removed = batch[b].removed /\ batch'[b].renames = renames
      BY <3>2, <3>3 DEF Tasks
    <3> QED BY <3>1, <3>4 DEF pc
  <2>3. /\ \A r \in renames : r.new \in batch[b].changed /\ disk[r.old] = 0
                                 /\ r.content = disk[r.new]
        /\ \A r, s \in renames : r.new = s.new => r = s
    <3>1. batch[b].changed \in SUBSET Files BY DEF DUTypeOK
    <3> QED BY <3>1, RenamesDetected
  <2>4. batch[b].renames = {} /\ batch[b].file = Nobody BY <1>5, <2>2 DEF InStep
  <2>5. InStep(b)' /\ WritesLive(b)' BY <1>1, <1>2, <1>5, <2>2, <2>3, <2>4 DEF InStep, WritesLive
  <2>6. Committed(b)' BY <1>1, <1>2, <1>3, <1>5, <2>2, <2>3, <2>4 DEF Committed
  <2>7. Due(b) \subseteq Due(b)' BY <2>2, <2>4 DEF Due, Olds
  <2> QED BY <2>5, <2>6, <2>7
<1> QED BY <1>6, <1>7, <1>8, <1>9

\* The steps that write. A batch that has a sure file to deal with writes to the
\* context's index (WritesLive) what is on disk (Committed).
LEMMA InvOfRekey == ASSUME DUInv, NEW b \in Batches, Rekey(b) PROVE UpdatesInv'
<1> USE DEF DUInv, UpdatesInv
<1> DEFINE renames == batch[b].renames
           rows    == opened[batch[b].index]
<1>0. PICK failed \in SUBSET renames :
        /\ opened' = [opened EXCEPT ![batch[b].index] = Rekeyed(rows, renames \ failed)]
        /\ unsure' = unsure \cup {r.old : r \in failed} \cup {r.new : r \in failed}
                       \cup {r.new : r \in {x \in renames : rows[x.old] # x.content}}
  BY DEF Rekey
<1> DEFINE done == renames \ failed
<1>1. /\ UNCHANGED <<disk, live, events>> /\ unsure \subseteq unsure'
      /\ \A r \in renames : r.new \notin unsure' => rows[r.old] = r.content
      /\ \A r \in renames : r.new \notin unsure' \/ r.old \notin unsure' => r \in done
  BY <1>0 DEF Rekey, BatchAside
<1>2. Quiet' \subseteq Quiet /\ Sure' \subseteq Sure BY <1>1 DEF Quiet, Sure
<1>3. /\ \A a \in Batches \ {b} : batch'[a] = batch[a]
      /\ batch[b].pc = "rekey" /\ batch'[b].pc = "remove"
      /\ batch'[b].index = batch[b].index /\ batch'[b].file = batch[b].file
      /\ batch'[b].changed = batch[b].changed \ {r.new : r \in renames}
      /\ batch'[b].removed = batch[b].removed \ {r.old : r \in renames}
      /\ batch'[b].renames = {}
  <2>1. /\ batch[b].pc = "rekey"
        /\ batch' = [batch EXCEPT ![b].pc = "remove", ![b].renames = {},
                                  ![b].changed = @ \ {r.new : r \in renames},
                                  ![b].removed = @ \ {r.old : r \in renames}]
    BY DEF Rekey
  <2>2. batch \in [Batches -> Tasks] BY DEF DUTypeOK, Tasks
  <2> HIDE DEF DUInv, UpdatesInv, renames
  <2> QED BY <2>1, <2>2 DEF Tasks
<1>4. InStep(b) /\ Committed(b) /\ WritesLive(b) OBVIOUS
<1>5. batch[b].file = Nobody BY <1>3, <1>4 DEF InStep
<1>6. Nobody \notin Quiet' /\ Nobody \notin Sure' BY UpdatesAssumption DEF Quiet, Sure
<1>7. InStep(b)' BY <1>3, <1>4, <1>5 DEF InStep
<1>8. Committed(b)' BY <1>1, <1>2, <1>3, <1>4, <1>5, <1>6 DEF Committed
<1>9. WritesLive(b)' BY <1>1, <1>2, <1>3, <1>4 DEF WritesLive
<1>10. ASSUME live # 0, NEW f \in Quiet', f \in Due(b) \/ opened[live][f] = disk[f]
       PROVE  f \in Due(b)' \/ opened'[live][f] = disk[f]
  <2>1. f \in Quiet /\ f \in Sure /\ f \in Files /\ f \notin unsure'
    BY <1>2 DEF Quiet, Sure
  <2>4. opened' = [opened EXCEPT ![batch[b].index] = Rekeyed(rows, done)] BY <1>0
  <2>5. opened \in [Handles -> [Files -> Versions]] /\ live \in Handles
    BY <1>10, UpdatesAssumption DEF DUTypeOK, Handles
  <2>2. CASE batch[b].index # live
    <3>1. opened'[live] = opened[live] BY <2>2, <2>4, <2>5
    <3>2. f \notin batch[b].changed /\ f \notin batch[b].removed
      BY <1>3, <1>4, <1>10, <2>1, <2>2 DEF WritesLive
    <3>3. f \notin Due(b) BY <1>5, <1>6, <2>2, <3>2, UpdatesAssumption DEF Due
    <3> QED BY <1>10, <3>1, <3>3
  <2>3. CASE batch[b].index = live
    <3>1. opened'[live] = Rekeyed(opened[live], done)
      BY <2>3, <2>4, <2>5
    <3>2. CASE \E r \in renames : r.new = f
      <4>1. PICK r \in renames : r.new = f BY <3>2
      <4>2. r \in done BY <1>1, <2>1, <4>1
      <4>3. r = CHOOSE x \in done : x.new = f BY <1>4, <4>1, <4>2 DEF InStep
      <4>4. opened'[live][f] = opened[live][r.old] BY <2>1, <3>1, <4>1, <4>2, <4>3 DEF Rekeyed
      <4>5. opened[live][r.old] = r.content BY <1>1, <2>1, <2>3, <4>1
      <4>6. r.content = disk[f] BY <1>4, <2>1, <4>1 DEF Committed
      <4> QED BY <4>4, <4>5, <4>6
    <3>3. CASE (\E r \in renames : r.old = f) /\ ~\E r \in renames : r.new = f
      <4>1. PICK r \in renames : r.old = f BY <3>3
      <4>2. r \in done BY <1>1, <2>1, <4>1
      <4>3. opened'[live][f] = 0 BY <2>1, <3>1, <3>3, <4>1, <4>2 DEF Rekeyed
      <4>4. disk[f] = 0 BY <1>4, <2>1, <3>3 DEF Committed
      <4> QED BY <4>3, <4>4
    <3>4. CASE (~\E r \in renames : r.old = f) /\ ~\E r \in renames : r.new = f
      <4>1. opened'[live][f] = opened[live][f] BY <2>1, <3>1, <3>4 DEF Rekeyed
      <4>2. f \in Due(b) => f \in Due(b)' BY <1>3, <3>4 DEF Due, Olds
      <4> QED BY <1>10, <4>1, <4>2
    <3> QED BY <3>2, <3>3, <3>4
  <2> QED BY <2>2, <2>3
<1> QED BY <1>1, <1>3, <1>7, <1>8, <1>9, <1>10, InvOfOwnStep

\* Remove writes that the removed files are gone, but for some that become unsure,
\* and DropGone that one is.
LEMMA InvOfErasure ==
  ASSUME DUInv, NEW b \in Batches, NEW gone \in SUBSET Files,
         \/ /\ Remove(b) /\ gone \subseteq batch[b].removed
            /\ opened' = [opened EXCEPT ![batch[b].index] = Without(@, gone)]
            /\ batch[b].removed \ gone \subseteq unsure'
         \/ \E f \in Files : DropGone(b, f) /\ gone = {f}
  PROVE  UpdatesInv'
<1> USE DEF DUInv, UpdatesInv
<1>1. UNCHANGED <<disk, live, events>> /\ unsure \subseteq unsure'
  BY DEF Remove, DropGone, BatchAside
<1>2. Quiet' \subseteq Quiet /\ Sure' \subseteq Sure BY <1>1 DEF Quiet, Sure
<1>3. Nobody \notin Quiet' BY UpdatesAssumption DEF Quiet, Sure
<1>4. InStep(b) /\ Committed(b) /\ WritesLive(b) OBVIOUS
<1>5. opened \in [Handles -> [Files -> Versions]] BY DEF DUTypeOK
<1>6. /\ \A a \in Batches \ {b} : batch'[a] = batch[a]
      /\ batch[b].pc \in {"remove", "files"} /\ batch'[b].pc = "files"
      /\ batch'[b].index = batch[b].index /\ batch'[b].file = batch[b].file
      /\ batch'[b].changed \subseteq batch[b].changed /\ batch'[b].removed = {}
      /\ batch[b].changed \cup batch[b].removed
           \subseteq batch'[b].changed \cup gone \cup unsure'
      /\ batch'[b].renames = batch[b].renames
      /\ \A f \in gone : f \in batch[b].changed \cup batch[b].removed
  <2>1. ASSUME Remove(b), gone \subseteq batch[b].removed,
               batch[b].removed \ gone \subseteq unsure'
        PROVE  /\ \A a \in Batches \ {b} : batch'[a] = batch[a]
               /\ batch[b].pc = "remove" /\ batch'[b].pc = "files"
               /\ batch'[b].index = batch[b].index /\ batch'[b].file = batch[b].file
               /\ batch'[b].changed = batch[b].changed /\ batch'[b].removed = {}
               /\ batch'[b].renames = batch[b].renames
    BY <2>1 DEF Remove, DUTypeOK
  <2>2. ASSUME NEW f \in Files, DropGone(b, f), gone = {f}
        PROVE  /\ \A a \in Batches \ {b} : batch'[a] = batch[a]
               /\ batch[b].pc = "files" /\ batch'[b].pc = "files"
               /\ batch'[b].index = batch[b].index /\ batch'[b].file = batch[b].file
               /\ batch'[b].changed = batch[b].changed \ {f} /\ f \in batch[b].changed
               /\ batch'[b].removed = batch[b].removed
               /\ batch'[b].renames = batch[b].renames
    BY <2>2 DEF DropGone, DUTypeOK
  <2>3. batch[b].pc = "files" => batch[b].removed = {} BY <1>4 DEF InStep
  <2> QED BY <2>1, <2>2, <2>3
<1>7. batch[b].file = Nobody /\ batch[b].renames = {} BY <1>4, <1>6 DEF InStep
<1>8. \A f \in gone : f \in Quiet => disk[f] = 0
  BY <1>4 DEF Committed, DropGone
<1>9. /\ live # batch[b].index => opened'[live] = opened[live]
      /\ live = batch[b].index /\ live # 0 =>
           \A f \in Files : opened'[live][f] = IF f \in gone THEN 0 ELSE opened[live][f]
  <2>1. live # 0 => live \in Handles BY UpdatesAssumption DEF DUTypeOK, Handles
  <2>2. ASSUME opened' = [opened EXCEPT ![batch[b].index] = Without(@, gone)]
        PROVE  /\ live # batch[b].index => opened'[live] = opened[live]
               /\ live = batch[b].index /\ live # 0 =>
                    \A f \in Files : opened'[live][f] = IF f \in gone THEN 0 ELSE opened[live][f]
    BY <1>5, <2>1, <2>2 DEF Without
  <2>3. ASSUME NEW f \in Files, DropGone(b, f), gone = {f}
        PROVE  /\ live # batch[b].index => opened'[live] = opened[live]
               /\ live = batch[b].index /\ live # 0 =>
                    \A g \in Files : opened'[live][g] = IF g = f THEN 0 ELSE opened[live][g]
    <3>1. opened' = [opened EXCEPT ![batch[b].index][f] = 0] BY <2>3 DEF DropGone
    <3> QED BY <1>5, <2>1, <3>1
  <2> QED BY <2>2, <2>3
<1>10. InStep(b)' BY <1>6, <1>7 DEF InStep
<1>11. Committed(b)' BY <1>2, <1>3, <1>6, <1>7 DEF Committed
<1>12. WritesLive(b)' BY <1>1, <1>2, <1>4, <1>6 DEF WritesLive
<1>13. ASSUME live # 0, NEW f \in Quiet', f \in Due(b) \/ opened[live][f] = disk[f]
       PROVE  f \in Due(b)' \/ opened'[live][f] = disk[f]
  <2>1. f \in Quiet /\ f \in Sure /\ f \in Files BY <1>2 DEF Quiet, Sure
  <2>2. CASE batch[b].index = live
    <3>1. f \notin unsure' BY DEF Quiet, Sure
    <3>2. f \in Due(b) /\ f \notin gone => f \in Due(b)'
      BY <1>6, <1>7, <2>1, <3>1, UpdatesAssumption DEF Due, Olds
    <3> QED BY <1>1, <1>8, <1>9, <1>13, <2>1, <2>2, <3>2
  <2>3. CASE batch[b].index # live
    <3>1. f \notin batch[b].changed \cup batch[b].removed
      BY <1>4, <1>6, <1>13, <2>1, <2>3 DEF WritesLive
    <3>2. f \notin Due(b) BY <1>7, <2>3, <3>1, UpdatesAssumption DEF Due
    <3> QED BY <1>9, <1>13, <2>3, <3>2
  <2> QED BY <2>2, <2>3
<1> QED BY <1>1, <1>6, <1>10, <1>11, <1>12, <1>13, InvOfOwnStep

LEMMA InvOfPreparation ==
  ASSUME DUInv, NEW b \in Batches, NEW f \in Files, Prepare(b, f) \/ Skip(b, f)
  PROVE  UpdatesInv'
<1> USE DEF DUInv, UpdatesInv
<1>1. /\ UNCHANGED <<disk, live, events, opened>> /\ unsure \subseteq unsure'
      /\ Skip(b, f) => f \in unsure'
  BY DEF Prepare, Skip, BatchAside
<1>2. Quiet' \subseteq Quiet /\ Sure' \subseteq Sure BY <1>1 DEF Quiet, Sure
<1>3. Nobody \notin Quiet' /\ Nobody \notin Sure' BY UpdatesAssumption DEF Quiet, Sure
<1>4. InStep(b) /\ Committed(b) /\ WritesLive(b) OBVIOUS
<1>5. /\ \A a \in Batches \ {b} : batch'[a] = batch[a]
      /\ batch[b].pc = "files" /\ f \in batch[b].changed
      /\ batch'[b].changed = batch[b].changed \ {f}
      /\ batch'[b].index = batch[b].index /\ batch'[b].removed = batch[b].removed
      /\ batch'[b].renames = batch[b].renames
      /\ \/ batch'[b].pc = "files" /\ batch'[b].file = batch[b].file /\ f \in unsure'
         \/ /\ batch'[b].pc = "write" /\ disk[f] # 0
            /\ batch'[b].file = f /\ batch'[b].text = disk[f]
  <2>1. CASE Prepare(b, f) BY <2>1 DEF Prepare, DUTypeOK
  <2>2. CASE Skip(b, f) BY <1>1, <2>2 DEF Skip, DUTypeOK
  <2> QED BY <2>1, <2>2
<1>6. batch[b].file = Nobody /\ batch[b].renames = {} /\ batch[b].removed = {}
  BY <1>4, <1>5 DEF InStep
<1>7. InStep(b)' BY <1>5, <1>6 DEF InStep
<1>8. Committed(b)' BY <1>1, <1>3, <1>5, <1>6 DEF Committed
<1>9. WritesLive(b)' BY <1>1, <1>2, <1>3, <1>4, <1>5, <1>6 DEF WritesLive
<1>10. \A g \in Quiet' : g \in Due(b) => g \in Due(b)'
  <2>1. \A g \in Quiet' : g \in Files /\ g \notin unsure' BY DEF Quiet, Sure
  <2> QED BY <1>5, <1>6, <2>1, UpdatesAssumption DEF Due, Olds
<1> QED BY <1>1, <1>5, <1>7, <1>8, <1>9, <1>10, InvOfOwnStep

\* A file that is gone when its digest is taken was touched since it was read.
LEMMA InvOfWrite == ASSUME DUInv, NEW b \in Batches, Write(b) PROVE UpdatesInv'
<1> USE DEF DUInv, UpdatesInv
<1> DEFINE file == batch[b].file
<1>1. UNCHANGED <<disk, live, events, unsure>> BY DEF Write, BatchAside
<1>2. Quiet' = Quiet /\ Sure' = Sure BY <1>1 DEF Quiet, Sure
<1>3. Nobody \notin Quiet /\ Nobody \notin Sure BY UpdatesAssumption DEF Quiet, Sure
<1>4. InStep(b) /\ Committed(b) /\ WritesLive(b) OBVIOUS
<1>5. /\ \A a \in Batches \ {b} : batch'[a] = batch[a]
      /\ batch[b].pc = "write" /\ batch'[b].pc = "files" /\ batch'[b].file = Nobody
      /\ batch'[b].changed = batch[b].changed /\ batch'[b].index = batch[b].index
      /\ batch'[b].removed = batch[b].removed /\ batch'[b].renames = batch[b].renames
  BY DEF Write, DUTypeOK
<1>6. file \in Files /\ batch[b].text # 0 /\ batch[b].renames = {} /\ batch[b].removed = {}
  BY <1>4, <1>5 DEF InStep
<1>7. opened \in [Handles -> [Files -> Versions]] BY DEF DUTypeOK
<1>8. /\ \A h \in Handles, f \in Files :
           (h # batch[b].index \/ f # file) => opened'[h][f] = opened[h][f]
      /\ disk[file] # 0 /\ batch[b].index \in Handles
           => opened'[batch[b].index][file] = batch[b].text
  <2>1. CASE disk[file] = 0 BY <2>1 DEF Write
  <2>2. CASE disk[file] # 0
    <3>1. opened' = [opened EXCEPT ![batch[b].index][file] = batch[b].text]
      BY <2>2 DEF Write
    <3> QED BY <1>6, <1>7, <2>2, <3>1
  <2> QED BY <2>1, <2>2
<1>9. InStep(b)' BY <1>5, <1>6 DEF InStep
<1>10. Committed(b)' BY <1>2, <1>3, <1>5, <1>6 DEF Committed
<1>11. WritesLive(b)' BY <1>1, <1>2, <1>3, <1>4, <1>5 DEF WritesLive
<1>12. ASSUME live # 0, NEW f \in Quiet', f \in Due(b) \/ opened[live][f] = disk[f]
       PROVE  f \in Due(b)' \/ opened'[live][f] = disk[f]
  <2>1. f \in Quiet /\ f \in Sure /\ f \in Files BY <1>2 DEF Quiet, Sure
  <2>2. live \in Handles BY <1>12, UpdatesAssumption DEF DUTypeOK, Handles
  <2>3. CASE f = file
    <3>1. batch[b].index = live BY <1>4, <1>5, <1>12, <2>1, <2>3 DEF WritesLive
    <3>2. batch[b].text = disk[f] BY <1>4, <2>1, <2>3 DEF Committed
    <3> QED BY <1>6, <1>8, <2>2, <2>3, <3>1, <3>2
  <2>4. CASE f # file
    <3>1. opened'[live][f] = opened[live][f] BY <1>8, <2>1, <2>2, <2>4
    <3>2. f \in Due(b) => f \in Due(b)' BY <1>5, <1>6, <2>4 DEF Due, Olds
    <3> QED BY <1>12, <3>1, <3>2
  <2> QED BY <2>3, <2>4
<1> QED BY <1>1, <1>5, <1>9, <1>10, <1>11, <1>12, InvOfOwnStep

LEMMA InvOfFailedWrite ==
  ASSUME DUInv, NEW b \in Batches, WriteFails(b)
  PROVE  UpdatesInv'
<1> USE DEF DUInv, UpdatesInv
<1>1. UNCHANGED <<disk, live, events, opened>> /\ unsure' = unsure \cup ({batch[b].file} \cap Files)
  BY DEF WriteFails, BatchAside
<1>2. Quiet' \subseteq Quiet /\ Sure' \subseteq Sure BY <1>1 DEF Quiet, Sure
<1>3. Nobody \notin Quiet' /\ Nobody \notin Sure' /\ batch[b].file \notin Quiet'
  BY <1>1, UpdatesAssumption DEF Quiet, Sure
<1>4. InStep(b) /\ Committed(b) /\ WritesLive(b) OBVIOUS
<1>5. /\ \A a \in Batches \ {b} : batch'[a] = batch[a]
      /\ batch[b].pc = "write" /\ batch'[b].pc = "files" /\ batch'[b].file = Nobody
      /\ batch'[b].changed = batch[b].changed /\ batch'[b].index = batch[b].index
      /\ batch'[b].removed = batch[b].removed /\ batch'[b].renames = batch[b].renames
  BY DEF WriteFails, DUTypeOK
<1>6. batch[b].renames = {} /\ batch[b].removed = {} BY <1>4, <1>5 DEF InStep
<1>7. InStep(b)' BY <1>5, <1>6 DEF InStep
<1>8. Committed(b)' BY <1>3, <1>5, <1>6 DEF Committed
<1>9. WritesLive(b)' BY <1>1, <1>2, <1>3, <1>4, <1>5 DEF WritesLive
<1>10. \A f \in Quiet' : f \in Due(b) => f \in Due(b)' BY <1>3, <1>5, <1>6 DEF Due, Olds
<1> QED BY <1>1, <1>5, <1>7, <1>8, <1>9, <1>10, InvOfOwnStep

LEMMA InvOfBatch == ASSUME DUInv, NEW b \in Batches, BatchStep(b) PROVE UpdatesInv'
<1>1. \A f \in Files : {f} \in SUBSET Files OBVIOUS
<1>2. batch[b].removed \in SUBSET Files BY DEF DUInv, DUTypeOK
<1>3. ASSUME Remove(b) PROVE UpdatesInv'
  <2>1. PICK failed \in SUBSET batch[b].removed :
          /\ opened' = [opened EXCEPT ![batch[b].index] = Without(@, batch[b].removed \ failed)]
          /\ unsure' = unsure \cup failed
    BY <1>3 DEF Remove
  <2> DEFINE gone == batch[b].removed \ failed
  <2>2. /\ gone \in SUBSET Files /\ gone \subseteq batch[b].removed
        /\ batch[b].removed \ gone \subseteq unsure'
        /\ opened' = [opened EXCEPT ![batch[b].index] = Without(@, gone)]
    BY <1>2, <2>1
  <2> HIDE DEF gone
  <2> QED BY <1>3, <2>2, InvOfErasure
<1>4. ASSUME NEW f \in Files, DropGone(b, f) PROVE UpdatesInv'
  BY <1>1, <1>4, InvOfErasure
<1> QED
  BY <1>3, <1>4, InvBeforeWork, InvOfRekey, InvOfPreparation, InvOfWrite, InvOfFailedWrite
  DEF BatchStep

LEMMA UpdatesInvKept == DUInv /\ [DUNext]_liveVars => DUInv'
<1> SUFFICES ASSUME DUInv, [DUNext]_liveVars PROVE UpdatesInv'
  BY UpdatesTypeKept DEF DUInv
<1>1. ASSUME NEW f \in Files, WriteOnDisk(f) \/ DeleteOnDisk(f) PROVE UpdatesInv'
  <2>1. /\ events' = events \cup {f} /\ UNCHANGED <<batch, opened, live, unsure>>
        /\ \A g \in Files \ {f} : disk'[g] = disk[g]
    BY <1>1 DEF WriteOnDisk, DeleteOnDisk, Disturb, DUInv, DUTypeOK
  <2>2. {f} \in SUBSET Files OBVIOUS
  <2> QED BY <2>1, <2>2, InvOfDisk
<1>2. ASSUME NEW f \in Files, NEW g \in Files, RenameOnDisk(f, g) PROVE UpdatesInv'
  <2>1. /\ events' = events \cup {f, g} /\ UNCHANGED <<batch, opened, live, unsure>>
        /\ \A h \in Files \ {f, g} : disk'[h] = disk[h]
    BY <1>2 DEF RenameOnDisk, Disturb, DUInv, DUTypeOK
  <2>2. {f, g} \in SUBSET Files OBVIOUS
  <2> QED BY <2>1, <2>2, InvOfDisk
<1>3. ASSUME NEW f \in Files, List(f) PROVE UpdatesInv'
  <2>1. events' = events \cup {} /\ disk' = disk /\ UNCHANGED <<batch, opened, live, unsure>>
    BY <1>3 DEF List, onDisk
  <2>2. {} \in SUBSET Files OBVIOUS
  <2> QED BY <2>1, <2>2, InvOfDisk
<1>4. UNCHANGED liveVars => UNCHANGED updateVars BY DEF liveVars, updateVars
<1> QED
  BY <1>1, <1>2, <1>3, <1>4, InvOfReplacement, InvOfDelivery, InvOfBatch DEF DUNext

\* However edits, deletions and renames are split into batches, and in whatever
\* order these read, re-key, write and fail, a file nothing is ahead of any more has
\* its content in the index, unless one of the reasons QuietIsCurrent lists made it
\* unsure (process_directory_change).
THEOREM QuietCurrent == DUSpec => []QuietIsCurrent
<1>1. DUInv => QuietIsCurrent
  <2>1. ASSUME NEW b \in Batches PROVE Due(b) \subseteq Ahead(b) BY DEF Due, Olds, Ahead
  <2> QED BY <2>1 DEF DUInv, UpdatesInv, Current, QuietIsCurrent, Quiet, Sure
<1>2. DUInit => DUInv BY UpdatesTypeInitially, UpdatesInvInitially DEF DUInv
<1> QED BY <1>1, <1>2, UpdatesInvKept, PTL DEF DUSpec
================================================================================
