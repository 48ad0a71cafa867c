--------------------------- MODULE Workspaces_proofs ---------------------------
(***************************************************************************)
(* The workspace manager never serves a workspace with two contexts, the   *)
(* registry names no workspace twice and only ones that have manifests,    *)
(* and the adoption of an old library is whole, for any operations at once *)
(* and any number of workspaces and crashes.                               *)
(***************************************************************************)
EXTENDS Workspaces, LibraryAdoption_proofs, FiniteSetTheorems, SequenceTheorems

\* A task past its decision holds the switch lock.
Locked == {"install", "unlock", "retire", "erase", "remove", "copy", "enlist"}

ContextsInv ==
  /\ start.pc # "up" => /\ active = None /\ scoped = {} /\ switchLock = None
                        /\ \A t \in Tasks : task[t].pc = "idle" /\ task[t].closing = None
  /\ start.pc = "up" => active = registry.active
  /\ active \notin scoped
  /\ \A t \in Tasks : task[t].closing # None \/ task[t].pc \in Locked => switchLock = t
  /\ \A t \in Tasks : task[t].closing # None => task[t].closing \notin scoped \cup {active}
  /\ \A t \in Tasks : task[t].pc = "install" => task[t].id \notin scoped \cup {active}
  /\ \A t \in Tasks : task[t].pc = "remove" => task[t].other # None

WSInv == AdoptionInv /\ ContextsTypeOK /\ ContextsInv

USE NoneIsNoTask, NoneIsNoManifest

TaskRecords == [pc : TaskPcs, id : Ids, other : Ids \cup {None}, todo : SUBSET Ids,
                closing : Ids \cup {None}]

\* What the manager does to its workspaces leaves the library and startup alone.
ManagerLeaves ==
  /\ OthersRest
  /\ made' \in 0..MaxIds
  /\ manifest' \in [Ids -> Manifests \cup {None}]
  /\ RegistryShape' /\ HasRegistry'

LEMMA ManagerKeeps ==
  ASSUME AdoptionInv, start.pc = "up", ManagerLeaves
  PROVE  AdoptionInv'
BY UpKeeps DEF ManagerLeaves, OthersRest, legacyVars

LEMMA UpFacts ==
  ASSUME AdoptionInv, start.pc = "up"
  PROVE  /\ HasRegistry /\ RegistryShape /\ registry.active \in Ids
         /\ made \in 0..MaxIds /\ manifest \in [Ids -> Manifests \cup {None}]
BY DEF AdoptionInv, AdoptionTypes, FilesTypeOK, RegistryLast, RegistryShape, HasRegistry

LEMMA OnlyTaskLeaves ==
  ASSUME AdoptionInv, start.pc = "up", OthersRest, UNCHANGED <<manifest, registry, made>>
  PROVE  ManagerLeaves
BY UpFacts, RegistryShapeKept DEF ManagerLeaves

\* A new list of workspaces.
LEMMA IdsLeave ==
  ASSUME AdoptionInv, start.pc = "up", NEW ids, registry' = [registry EXCEPT !.ids = ids]
  PROVE  RegistryShape' /\ HasRegistry' /\ registry'.active = registry.active
BY UpFacts DEF RegistryShape, HasRegistry

LEMMA FirstTyped == ASSUME NEW S \in SUBSET Ids PROVE FirstOf(S) \in Ids \cup {None}
BY DEF FirstOf

LEMMA IdleTyped == Idle \in TaskRecords /\ Idle.pc = "idle" /\ Idle.closing = None
BY AdoptionAssumption DEF Idle, TaskRecords, TaskPcs, Ids

LEMMA InitInv == WSInit => WSInv
<1> SUFFICES ASSUME WSInit PROVE WSInv
  OBVIOUS
<1>1. AdoptionInv
  BY AdoptionInit DEF WSInit
<1>2. start.pc = "down"
  BY DownTyped DEF WSInit, LAInit
<1>3. Idle \in TaskRecords /\ Idle.pc = "idle" /\ Idle.closing = None
  BY IdleTyped
<1>4. task \in [Tasks -> TaskRecords] /\ \A t \in Tasks : task[t] = Idle
  BY <1>3 DEF WSInit
<1>5. ContextsTypeOK
  BY <1>4 DEF WSInit, ContextsTypeOK, TaskRecords
<1> QED
  BY <1>1, <1>2, <1>3, <1>4, <1>5 DEF WSInit, WSInv, ContextsInv, Locked

LEMMA StartUpInv == WSInv /\ StartUp => WSInv'
<1> SUFFICES ASSUME WSInv, StartUp PROVE WSInv'
  OBVIOUS
<1>1. AdoptionInv' /\ start.pc # "up"
  BY StartupKeeps DEF WSInv, StartUp
<1>2. /\ active' = IF start'.pc = "up" THEN registry'.active ELSE None
      /\ UNCHANGED <<docs, scoped, switchLock, task, torn>>
  BY DEF StartUp
<1>3. active' \in Ids \cup {None}
  BY <1>1, <1>2 DEF AdoptionInv, AdoptionTypes, RegistryShape
<1>4. ContextsTypeOK'
  BY <1>2, <1>3 DEF WSInv, ContextsTypeOK
<1>5. ContextsInv'
  BY <1>1, <1>2 DEF WSInv, ContextsInv, Locked
<1> QED
  BY <1>1, <1>4, <1>5 DEF WSInv

LEMMA CrashInv == WSInv /\ Crash => WSInv'
<1> SUFFICES ASSUME WSInv, Crash PROVE WSInv'
  OBVIOUS
<1>1. AdoptionInv' /\ start'.pc = "down"
  BY StopKeeps, DownTyped DEF WSInv, Crash, Stop
<1>2. /\ active' = None /\ scoped' = {} /\ switchLock' = None /\ task' = [t \in Tasks |-> Idle]
      /\ UNCHANGED <<docs, torn>>
  BY DEF Crash
<1>3. Idle \in TaskRecords /\ Idle.pc = "idle" /\ Idle.closing = None
  BY IdleTyped
<1>4. task' \in [Tasks -> TaskRecords] /\ \A t \in Tasks : task'[t] = Idle
  BY <1>2, <1>3
<1>5. ContextsTypeOK'
  BY <1>2, <1>4 DEF WSInv, ContextsTypeOK, TaskRecords
<1>6. ContextsInv'
  BY <1>1, <1>2, <1>3, <1>4 DEF ContextsInv, Locked
<1> QED
  BY <1>1, <1>5, <1>6 DEF WSInv


(***************************************************************************)
(* One task moves on: what its new record r must satisfy. The other tasks  *)
(* hold nothing unless one of them has the lock, and then contexts stay.   *)
(***************************************************************************)
LEMMA TaskMoves ==
  ASSUME WSInv, start.pc = "up", ManagerLeaves,
         NEW t \in Tasks, NEW r \in TaskRecords, task' = [task EXCEPT ![t] = r],
         docs' \in SUBSET Ids, torn' \in SUBSET Ids, scoped' \in SUBSET Ids,
         active' = registry'.active, active' \notin scoped',
         switchLock' \in {switchLock, t, None},
         switchLock \in {t, None} \/ UNCHANGED <<active, scoped, switchLock>>,
         r.closing # None \/ r.pc \in Locked => switchLock' = t,
         r.closing # None => r.closing \notin scoped' \cup {active'},
         r.pc = "install" => r.id \notin scoped' \cup {active'},
         r.pc = "remove" => r.other # None
  PROVE  WSInv'
<1>1. AdoptionInv' /\ start'.pc = "up"
  BY ManagerKeeps DEF WSInv, ManagerLeaves, OthersRest
<1>2. task \in [Tasks -> TaskRecords]
  BY DEF WSInv, ContextsTypeOK, TaskRecords
<1>3. task' \in [Tasks -> TaskRecords] /\ task'[t] = r /\ \A u \in Tasks \ {t} : task'[u] = task[u]
  BY <1>2
<1>4. active' \in Ids \cup {None} /\ switchLock' \in Tasks \cup {None}
  BY UpFacts DEF WSInv, ContextsTypeOK, ManagerLeaves, RegistryShape
<1>5. ContextsTypeOK'
  BY <1>3, <1>4 DEF ContextsTypeOK, TaskRecords
<1>6. ASSUME NEW u \in Tasks
      PROVE  /\ task'[u].closing # None \/ task'[u].pc \in Locked => switchLock' = u
             /\ task'[u].closing # None => task'[u].closing \notin scoped' \cup {active'}
             /\ task'[u].pc = "install" => task'[u].id \notin scoped' \cup {active'}
             /\ task'[u].pc = "remove" => task'[u].other # None
  <2>1. CASE u = t
    BY <1>3, <2>1
  <2>2. CASE u # t
    <3>1. task'[u] = task[u]
      BY <1>3, <2>2
    <3>2. CASE task[u].closing # None \/ task[u].pc \in Locked
      <4>1. switchLock = u
        BY <3>2 DEF WSInv, ContextsInv
      <4>2. UNCHANGED <<active, scoped, switchLock>>
        BY <2>2, <4>1
      <4> QED
        BY <3>1, <4>1, <4>2 DEF WSInv, ContextsInv
    <3>3. CASE ~(task[u].closing # None \/ task[u].pc \in Locked)
      BY <3>1, <3>3 DEF Locked
    <3> QED
      BY <3>2, <3>3
  <2> QED
    BY <2>1, <2>2
<1> QED
  BY <1>1, <1>5, <1>6 DEF WSInv, ContextsInv

\* A task that is not idle, or a context, there is only while the application is up.
LEMMA BusyIsUp ==
  ASSUME WSInv, NEW t \in Tasks, task[t].pc # "idle" \/ task[t].closing # None
  PROVE  start.pc = "up"
BY DEF WSInv, ContextsInv

LEMMA TaskTyped ==
  ASSUME WSInv, NEW t \in Tasks
  PROVE  /\ task[t] \in TaskRecords
         /\ docs \in SUBSET Ids /\ torn \in SUBSET Ids /\ scoped \in SUBSET Ids
         /\ active \notin scoped
         /\ start.pc = "up" => active = registry.active /\ active \in Ids
BY UpFacts DEF WSInv, ContextsTypeOK, TaskRecords, ContextsInv

\* Steps of tasks that make workspaces: no lock, no context.
LEMMA AsideInv ==
  ASSUME WSInv, start.pc = "up", ManagerLeaves, registry'.active = registry.active,
         NEW t \in Tasks, NEW r \in TaskRecords, task' = [task EXCEPT ![t] = r],
         r.closing = None, r.pc \notin Locked,
         UNCHANGED <<docs, active, scoped, switchLock, torn>>
  PROVE  WSInv'
<1>1. r.pc \notin {"install", "remove"}
  BY DEF Locked
<1> QED
  BY <1>1, TaskMoves, TaskTyped

LEMMA WriteNewInv ==
  ASSUME WSInv, start.pc = "up", NEW t \in Tasks, NEW kind \in Kinds, NEW parent \in Ids \cup {None},
         WriteNew(t, kind, parent)
  PROVE  WSInv'
<1> DEFINE r == [Idle EXCEPT !.pc = "register", !.id = made + 1]
           m == [kind |-> kind, parent |-> parent, roots |-> "none"]
<1>1. /\ made < MaxIds /\ made' = made + 1
      /\ manifest' = [manifest EXCEPT ![made + 1] = m]
      /\ task' = [task EXCEPT ![t] = r]
      /\ OthersRest
      /\ UNCHANGED <<registry, docs, active, scoped, switchLock, torn>>
  BY DEF WriteNew
<1>2. made + 1 \in Ids /\ made' \in 0..MaxIds
  BY <1>1, NewId, UpFacts DEF WSInv
<1>3. r \in TaskRecords /\ r.closing = None /\ r.pc = "register"
  BY <1>2, IdleTyped DEF TaskRecords, TaskPcs, Idle
<1>4. m \in Manifests
  BY DEF Manifests, Roots
<1>5. manifest' \in [Ids -> Manifests \cup {None}]
  BY <1>1, <1>4, UpFacts DEF WSInv
<1>6. ManagerLeaves /\ registry'.active = registry.active
  BY <1>1, <1>2, <1>5, UpFacts, RegistryShapeKept DEF ManagerLeaves, WSInv
<1> QED
  BY <1>1, <1>3, <1>6, AsideInv DEF Locked


LEMMA CreateInv == ASSUME WSInv, NEW t \in Tasks, Create(t) PROVE WSInv'
BY WriteNewInv DEF Create, CanUseRegistry, Kinds

LEMMA EnsureManagedInv == ASSUME WSInv, NEW t \in Tasks, EnsureManagedWorkspace(t) PROVE WSInv'
BY WriteNewInv DEF EnsureManagedWorkspace, CanUseRegistry, Kinds

LEMMA EnsureSpaceReadsInv ==
  ASSUME WSInv, NEW t \in Tasks, NEW id \in Ids, EnsureSpaceReads(t, id) PROVE WSInv'
<1> DEFINE r == [Idle EXCEPT !.pc = "space", !.id = id]
<1>1. start.pc = "up" /\ task' = [task EXCEPT ![t] = r] /\ OnlyTask /\ UNCHANGED switchLock
  BY DEF EnsureSpaceReads
<1>2. r \in TaskRecords /\ r.closing = None /\ r.pc = "space"
  BY IdleTyped DEF TaskRecords, TaskPcs, Idle
<1>3. ManagerLeaves
  BY <1>1, OnlyTaskLeaves DEF OnlyTask, WSInv
<1> QED
  BY <1>1, <1>2, <1>3, AsideInv DEF OnlyTask, Locked

LEMMA EnsureSpaceInv == ASSUME WSInv, NEW t \in Tasks, EnsureSpace(t) PROVE WSInv'
<1>1. start.pc = "up" /\ task[t].id \in Ids
  BY BusyIsUp, TaskTyped DEF EnsureSpace, TaskRecords
<1>2. CASE WriteNew(t, "projection", task[t].id)
  BY <1>1, <1>2, WriteNewInv DEF Kinds
<1>3. CASE task' = [task EXCEPT ![t] = Idle] /\ OnlyTask /\ UNCHANGED switchLock
  <2>1. ManagerLeaves
    BY <1>1, <1>3, OnlyTaskLeaves DEF OnlyTask, WSInv
  <2> QED
    BY <1>1, <1>3, <2>1, IdleTyped, AsideInv DEF OnlyTask, Locked
<1> QED
  BY <1>2, <1>3 DEF EnsureSpace

LEMMA RegisterInv == ASSUME WSInv, NEW t \in Tasks, Register(t) PROVE WSInv'
<1>1. /\ start.pc = "up"
      /\ registry' = [registry EXCEPT !.ids = Append(registry.ids, task[t].id)]
      /\ task' = [task EXCEPT ![t] = Idle] /\ OthersRest
      /\ UNCHANGED <<manifest, made, docs, active, scoped, switchLock, torn>>
  BY BusyIsUp DEF Register
<1>2. RegistryShape' /\ HasRegistry' /\ registry'.active = registry.active
  BY <1>1, IdsLeave DEF WSInv
<1>3. ManagerLeaves
  BY <1>1, <1>2, UpFacts DEF ManagerLeaves, WSInv
<1> QED
  BY <1>1, <1>2, <1>3, IdleTyped, AsideInv DEF Locked

(***************************************************************************)
(* Contexts that are opened and used without a task.                       *)
(***************************************************************************)
LEMMA ContextForInv == ASSUME WSInv, NEW id \in Ids, ContextFor(id) PROVE WSInv'
<1>1. /\ switchLock = None /\ start.pc = "up" /\ id # registry.active
      /\ scoped' = scoped \cup {id} /\ OthersRest
      /\ UNCHANGED <<manifest, registry, made, docs, active, switchLock, task, torn>>
  BY DEF ContextFor, CanUseRegistry
<1>2. AdoptionInv' /\ start'.pc = "up"
  BY <1>1, OnlyTaskLeaves, ManagerKeeps DEF WSInv, OthersRest
<1>3. ContextsTypeOK'
  BY <1>1 DEF WSInv, ContextsTypeOK
<1>4. \A t \in Tasks : task[t].closing = None /\ task[t].pc \notin Locked
  BY <1>1 DEF WSInv, ContextsInv
<1>5. ContextsInv'
  BY <1>1, <1>2, <1>4 DEF WSInv, ContextsInv, Locked
<1> QED
  BY <1>2, <1>3, <1>5 DEF WSInv

LEMMA ImportInv == ASSUME WSInv, NEW id \in Ids, Import(id) PROVE WSInv'
<1>1. /\ id \in scoped \cup {active} /\ docs' = docs \cup {id} /\ OthersRest
      /\ UNCHANGED <<manifest, registry, made, active, scoped, switchLock, task, torn>>
  BY DEF Import
<1>2. start.pc = "up"
  BY <1>1, NoneIsNoId DEF WSInv, ContextsInv
<1>3. AdoptionInv' /\ start'.pc = "up"
  BY <1>1, <1>2, OnlyTaskLeaves, ManagerKeeps DEF WSInv, OthersRest
<1>4. ContextsTypeOK'
  BY <1>1 DEF WSInv, ContextsTypeOK
<1>5. ContextsInv'
  BY <1>1, <1>2, <1>3 DEF WSInv, ContextsInv
<1> QED
  BY <1>3, <1>4, <1>5 DEF WSInv

(***************************************************************************)
(* Steps of the task that holds the switch lock.                           *)
(***************************************************************************)
LEMMA HolderInv ==
  ASSUME WSInv, ManagerLeaves, NEW t \in Tasks, NEW r \in TaskRecords,
         task[t].closing # None \/ task[t].pc \in Locked,
         task' = [task EXCEPT ![t] = r],
         r.closing \in {None, task[t].closing},
         r.pc = "install" => task[t].pc = "install" /\ r.id = task[t].id,
         r.pc = "remove" => task[t].pc = "remove" /\ r.other = task[t].other,
         docs' \in SUBSET Ids, torn' \in SUBSET Ids,
         registry'.active = registry.active, UNCHANGED <<active, scoped, switchLock>>
  PROVE  WSInv'
<1>1. start.pc = "up" /\ switchLock = t
  BY BusyIsUp DEF WSInv, ContextsInv, Locked
<1>2. task[t].closing # None => task[t].closing \notin scoped \cup {active}
  BY DEF WSInv, ContextsInv
<1>3. task[t].pc = "install" => task[t].id \notin scoped \cup {active}
  BY DEF WSInv, ContextsInv
<1>4. task[t].pc = "remove" => task[t].other # None
  BY DEF WSInv, ContextsInv
<1> QED
  BY <1>1, <1>2, <1>3, <1>4, TaskMoves, TaskTyped

LEMMA ShutdownEndsInv == ASSUME WSInv, NEW t \in Tasks, ShutdownEnds(t) PROVE WSInv'
<1> DEFINE r == [task[t] EXCEPT !.closing = None]
<1>1. task[t].closing # None /\ task' = [task EXCEPT ![t] = r] /\ OnlyTask /\ UNCHANGED switchLock
  BY DEF ShutdownEnds
<1>2. /\ r \in TaskRecords /\ r.closing = None
      /\ r.pc = task[t].pc /\ r.id = task[t].id /\ r.other = task[t].other
  BY TaskTyped DEF TaskRecords
<1>3. ManagerLeaves
  BY <1>1, BusyIsUp, OnlyTaskLeaves DEF OnlyTask, WSInv
<1> QED
  BY <1>1, <1>2, <1>3, HolderInv, TaskTyped DEF OnlyTask

\* The holder lets go of the lock when it awaits nothing any more.
LEMMA ReleaseInv ==
  ASSUME WSInv, ManagerLeaves, NEW t \in Tasks, task[t].pc \in Locked,
         task' = [task EXCEPT ![t] = Idle], switchLock' = None,
         docs' \in SUBSET Ids, torn' \in SUBSET Ids,
         registry'.active = registry.active, UNCHANGED <<active, scoped>>
  PROVE  WSInv'
<1>1. start.pc = "up" /\ switchLock = t
  BY BusyIsUp DEF WSInv, ContextsInv, Locked
<1> QED
  BY <1>1, IdleTyped, TaskMoves, TaskTyped DEF Locked


LEMMA UnlockInv == ASSUME WSInv, NEW t \in Tasks, Unlock(t) PROVE WSInv'
<1>1. ManagerLeaves
  BY BusyIsUp, OnlyTaskLeaves DEF Unlock, OnlyTask, WSInv
<1> QED
  BY <1>1, ReleaseInv, TaskTyped DEF Unlock, OnlyTask, Locked

LEMMA InstallInv == ASSUME WSInv, NEW t \in Tasks, Install(t) PROVE WSInv'
<1> DEFINE r == [task[t] EXCEPT !.pc = "unlock", !.closing = active]
<1>1. /\ task[t].pc = "install"
      /\ registry' = [registry EXCEPT !.active = task[t].id]
      /\ active' = task[t].id
      /\ task' = [task EXCEPT ![t] = r] /\ OthersRest
      /\ UNCHANGED <<manifest, made, docs, scoped, switchLock, torn>>
  BY DEF Install
<1>2. start.pc = "up" /\ switchLock = t
  BY <1>1, BusyIsUp DEF WSInv, ContextsInv, Locked
<1>3. task[t].id \in Ids /\ task[t].id \notin scoped \cup {active}
  BY <1>1, TaskTyped DEF WSInv, ContextsInv, TaskRecords
<1>4. r \in TaskRecords /\ r.closing = active /\ r.pc = "unlock"
  BY <1>2, TaskTyped DEF TaskRecords, TaskPcs
<1>5. RegistryShape' /\ HasRegistry' /\ registry'.active = task[t].id
  BY <1>1, <1>2, <1>3, UpFacts, NoneIsNoId DEF WSInv, RegistryShape, HasRegistry
<1>6. ManagerLeaves
  BY <1>1, <1>2, <1>5, UpFacts DEF ManagerLeaves, WSInv
<1>7. active \notin scoped /\ docs \in SUBSET Ids /\ torn \in SUBSET Ids /\ scoped \in SUBSET Ids
  BY TaskTyped
<1> HIDE DEF r
<1>8. r.closing # None => r.closing \notin scoped' \cup {active'}
  BY <1>1, <1>3, <1>4, <1>7
<1>9. active' = registry'.active /\ active' \notin scoped'
  BY <1>1, <1>3, <1>5
<1> QED
  BY <1>1, <1>2, <1>4, <1>6, <1>7, <1>8, <1>9, TaskMoves

LEMMA RetireInv == ASSUME WSInv, NEW t \in Tasks, Retire(t) PROVE WSInv'
<1>1. /\ task[t].pc = "retire" /\ OthersRest
      /\ UNCHANGED <<manifest, registry, made, docs, active, switchLock, torn>>
  BY DEF Retire
<1>2. PICK id \in task[t].todo \cap scoped :
        Retires(id) /\ task' = [task EXCEPT ![t] = [task[t] EXCEPT !.closing = id]]
  BY DEF Retire
<1> DEFINE r == [task[t] EXCEPT !.closing = id]
<1>3. start.pc = "up" /\ switchLock = t
  BY <1>1, BusyIsUp DEF WSInv, ContextsInv, Locked
<1>4. id \in Ids /\ r \in TaskRecords /\ r.closing = id /\ r.pc = "retire"
  BY <1>1, TaskTyped DEF TaskRecords
<1>5. ManagerLeaves
  BY <1>1, <1>3, OnlyTaskLeaves DEF WSInv
<1>6. /\ docs \in SUBSET Ids /\ torn \in SUBSET Ids /\ scoped \in SUBSET Ids
      /\ active \notin scoped /\ active = registry.active
  BY <1>3, TaskTyped
<1>7. scoped' \in SUBSET Ids /\ active' = registry'.active /\ active' \notin scoped'
  BY <1>1, <1>2, <1>6 DEF Retires
<1> HIDE DEF r
<1>8. r.closing # None => r.closing \notin scoped' \cup {active'}
  BY <1>1, <1>2, <1>4, <1>6 DEF Retires
<1> QED
  BY <1>1, <1>2, <1>3, <1>4, <1>5, <1>6, <1>7, <1>8, TaskMoves DEF r

LEMMA DeregisterInv == ASSUME WSInv, NEW t \in Tasks, Deregister(t) PROVE WSInv'
<1> DEFINE r == [task[t] EXCEPT !.pc = "erase"]
           kept == Without(task[t].todo)
<1>1. /\ task[t].pc = "retire" /\ task[t].closing = None
      /\ registry' = [registry EXCEPT !.ids = kept]
      /\ task' = [task EXCEPT ![t] = r] /\ OthersRest
      /\ UNCHANGED <<manifest, made, docs, active, scoped, switchLock, torn>>
  BY DEF Deregister
<1>2. start.pc = "up"
  BY <1>1, BusyIsUp
<1>3. r \in TaskRecords /\ r.closing = None /\ r.pc = "erase"
  BY <1>1, TaskTyped DEF TaskRecords, TaskPcs
<1> HIDE DEF kept, r
<1>4. RegistryShape' /\ HasRegistry' /\ registry'.active = registry.active
  BY <1>1, <1>2, IdsLeave DEF WSInv
<1>5. ManagerLeaves
  BY <1>1, <1>2, <1>4, UpFacts DEF ManagerLeaves, WSInv
<1> QED
  BY <1>1, <1>3, <1>4, <1>5, HolderInv, TaskTyped DEF Locked

LEMMA EraseInv == ASSUME WSInv, NEW t \in Tasks, Erase(t) PROVE WSInv'
<1>1. /\ task[t].pc = "erase" /\ OthersRest
      /\ UNCHANGED <<registry, made, active, scoped, switchLock, torn>>
  BY DEF Erase
<1>2. PICK id \in task[t].todo, removed \in BOOLEAN :
        /\ IF removed THEN manifest' = [manifest EXCEPT ![id] = None] /\ docs' = docs \ {id}
                      ELSE UNCHANGED <<manifest, docs>>
        /\ task' = [task EXCEPT ![t].todo = @ \ {id},
                                ![t].pc = IF task[t].todo = {id} THEN "unlock" ELSE @]
  BY DEF Erase
<1> DEFINE r == [task[t] EXCEPT !.todo = @ \ {id},
                                !.pc = IF task[t].todo = {id} THEN "unlock" ELSE @]
<1>3. task[t] \in TaskRecords /\ task \in [Tasks -> TaskRecords]
  BY TaskTyped DEF WSInv, ContextsTypeOK, TaskRecords
<1>4. task' = [task EXCEPT ![t] = r]
  BY <1>2, <1>3 DEF TaskRecords
<1>5. r \in TaskRecords /\ r.closing = task[t].closing /\ r.pc \in {"erase", "unlock"}
  BY <1>1, <1>3 DEF TaskRecords, TaskPcs
<1>6. start.pc = "up"
  BY <1>1, BusyIsUp
<1>7. manifest' \in [Ids -> Manifests \cup {None}] /\ docs' \in SUBSET Ids
  BY <1>2, <1>6, UpFacts, TaskTyped DEF WSInv
<1>8. ManagerLeaves /\ registry'.active = registry.active
  BY <1>1, <1>6, <1>7, UpFacts, RegistryShapeKept DEF ManagerLeaves, WSInv
<1> QED
  BY <1>1, <1>4, <1>5, <1>7, <1>8, HolderInv, TaskTyped DEF Locked

LEMMA RemoveRootInv == ASSUME WSInv, NEW t \in Tasks, RemoveRoot(t) PROVE WSInv'
<1> DEFINE r == [task[t] EXCEPT !.pc = "copy"]
<1>1. /\ task[t].pc = "remove" /\ task[t].closing = None
      /\ manifest' = [manifest EXCEPT ![task[t].other] = None]
      /\ docs' = docs \ {task[t].other} /\ torn' = torn \cup {task[t].other}
      /\ task' = [task EXCEPT ![t] = r] /\ OthersRest
      /\ UNCHANGED <<registry, made, active, scoped, switchLock>>
  BY DEF RemoveRoot
<1>2. start.pc = "up" /\ task[t].other \in Ids
  BY <1>1, BusyIsUp, TaskTyped DEF TaskRecords, WSInv, ContextsInv
<1>3. r \in TaskRecords /\ r.closing = None /\ r.pc = "copy"
  BY <1>1, TaskTyped DEF TaskRecords, TaskPcs
<1>4. manifest' \in [Ids -> Manifests \cup {None}]
  BY <1>1, <1>2, UpFacts DEF WSInv
<1>5. ManagerLeaves /\ registry'.active = registry.active
  BY <1>1, <1>2, <1>4, UpFacts, RegistryShapeKept DEF ManagerLeaves, WSInv
<1>6. docs' \in SUBSET Ids /\ torn' \in SUBSET Ids
  BY <1>1, <1>2, TaskTyped
<1> HIDE DEF r
<1> QED
  BY <1>1, <1>3, <1>5, <1>6, HolderInv DEF Locked


LEMMA CopyInv == ASSUME WSInv, NEW t \in Tasks, Copy(t) PROVE WSInv'
<1> DEFINE r == [task[t] EXCEPT !.pc = "enlist"]
           m == [kind |-> "corpus", parent |-> None, roots |-> "none"]
<1>1. /\ task[t].pc = "copy" /\ manifest' = [manifest EXCEPT ![Saved] = m]
      /\ docs' \in {docs, docs \cup {Saved}} /\ torn' = torn \ {Saved}
      /\ task' = [task EXCEPT ![t] = r] /\ OthersRest
      /\ UNCHANGED <<registry, made, active, scoped, switchLock>>
  BY DEF Copy
<1>2. start.pc = "up" /\ Saved \in Ids
  BY <1>1, BusyIsUp, AdoptionAssumption DEF Saved, Ids
<1>3. r \in TaskRecords /\ r.closing = task[t].closing /\ r.pc = "enlist"
  BY <1>1, TaskTyped DEF TaskRecords, TaskPcs
<1>4. m \in Manifests
  BY DEF Manifests, Kinds, Roots
<1>5. manifest' \in [Ids -> Manifests \cup {None}]
  BY <1>1, <1>2, <1>4, UpFacts DEF WSInv
<1>6. ManagerLeaves /\ registry'.active = registry.active
  BY <1>1, <1>2, <1>5, UpFacts, RegistryShapeKept DEF ManagerLeaves, WSInv
<1>7. docs' \in SUBSET Ids /\ torn' \in SUBSET Ids
  BY <1>1, <1>2, TaskTyped
<1> HIDE DEF r
<1> QED
  BY <1>1, <1>3, <1>6, <1>7, HolderInv DEF Locked

LEMMA RestoreFailsInv == ASSUME WSInv, NEW t \in Tasks, RestoreFails(t) PROVE WSInv'
<1>1. ManagerLeaves
  BY BusyIsUp, OnlyTaskLeaves DEF RestoreFails, OnlyTask, WSInv
<1> QED
  BY <1>1, ReleaseInv, TaskTyped DEF RestoreFails, OnlyTask, Locked

LEMMA EnlistInv == ASSUME WSInv, NEW t \in Tasks, Enlist(t) PROVE WSInv'
<1> DEFINE kept == Without({task[t].other})
           ids == IF Saved \in Range(kept) THEN kept ELSE Append(kept, Saved)
<1>1. /\ task[t].pc = "enlist" /\ start.pc = "up"
      /\ registry' = [registry EXCEPT !.ids = ids]
      /\ torn' = torn \ {task[t].other} /\ switchLock' = None
      /\ task' = [task EXCEPT ![t] = Idle] /\ OthersRest
      /\ UNCHANGED <<manifest, made, docs, active, scoped>>
  BY DEF Enlist, CanUseRegistry
<1> HIDE DEF ids
<1>2. RegistryShape' /\ HasRegistry' /\ registry'.active = registry.active
  BY <1>1, IdsLeave DEF WSInv
<1>3. ManagerLeaves
  BY <1>1, <1>2, UpFacts DEF ManagerLeaves, WSInv
<1>4. docs' \in SUBSET Ids /\ torn' \in SUBSET Ids
  BY <1>1, TaskTyped
<1> QED
  BY <1>1, <1>2, <1>3, <1>4, ReleaseInv DEF Locked

(***************************************************************************)
(* Taking the switch lock. The context whose shutdown is awaited has left  *)
(* the map.                                                                *)
(***************************************************************************)
LEMMA LocksInv ==
  ASSUME WSInv, NEW t \in Tasks, NEW r \in TaskRecords, Locks(t, r),
         scoped' \in SUBSET scoped,
         r.closing # None => r.closing \in scoped \ scoped',
         r.pc = "install" => r.id \notin scoped' \cup {active},
         r.pc = "remove" => r.other # None
  PROVE  WSInv'
<1>1. /\ switchLock = None /\ switchLock' = t /\ start.pc = "up"
      /\ task' = [task EXCEPT ![t] = r]
      /\ OthersRest /\ UNCHANGED <<manifest, registry, made, docs, active, torn>>
  BY DEF Locks, CanUseRegistry
<1>2. ManagerLeaves
  BY <1>1, OnlyTaskLeaves DEF WSInv
<1>3. /\ docs \in SUBSET Ids /\ torn \in SUBSET Ids /\ scoped \in SUBSET Ids
      /\ active \notin scoped /\ active = registry.active
  BY <1>1, TaskTyped
<1>4. scoped' \in SUBSET Ids /\ active' = registry'.active /\ active' \notin scoped'
  BY <1>1, <1>3
<1>5. r.closing # None => r.closing \notin scoped' \cup {active'}
  BY <1>1, <1>3
<1> QED
  BY <1>1, <1>2, <1>3, <1>4, <1>5, TaskMoves

LEMMA SwitchInv == ASSUME WSInv, NEW t \in Tasks, NEW id \in Ids, Switch(t, id) PROVE WSInv'
<1> DEFINE r == [Idle EXCEPT !.pc = "install", !.id = id, !.closing = Closing(id)]
<1>1. id # registry.active /\ Locks(t, r) /\ scoped' = scoped \ {id} /\ start.pc = "up"
  BY DEF Switch, Retires, Locks, CanUseRegistry
<1>2. /\ r \in TaskRecords /\ r.pc = "install" /\ r.id = id
      /\ r.closing = IF id \in scoped THEN id ELSE None
  BY IdleTyped DEF Closing, TaskRecords, TaskPcs, Idle
<1>3. active = registry.active
  BY <1>1, TaskTyped
<1> HIDE DEF r
<1> QED
  BY <1>1, <1>2, <1>3, LocksInv

LEMMA DeleteInv == ASSUME WSInv, NEW t \in Tasks, NEW id \in Ids, Delete(t, id) PROVE WSInv'
<1> DEFINE r == [Idle EXCEPT !.pc = "retire", !.todo = Removals(id)]
<1>1. Locks(t, r) /\ scoped' = scoped
  BY DEF Delete
<1>2. Removals(id) \in SUBSET Ids
  BY DEF Removals, ProjectionsOf, OfKind
<1>3. r \in TaskRecords /\ r.pc = "retire" /\ r.closing = None
  BY <1>2, IdleTyped DEF TaskRecords, TaskPcs, Idle
<1> HIDE DEF r
<1> QED
  BY <1>1, <1>3, LocksInv

LEMMA RestoreInv == ASSUME WSInv, NEW t \in Tasks, Restore(t) PROVE WSInv'
<1> DEFINE x == Existing
           r == [Idle EXCEPT !.pc = IF x = None THEN "copy" ELSE "remove",
                             !.other = x, !.closing = Closing(x)]
<1>1. Locks(t, r) /\ scoped' = scoped \ {x}
  BY DEF Restore, Retires
<1>2. x \in Ids \cup {None}
  BY FirstTyped DEF Existing, OfKind
<1>3. None \notin scoped
  BY NoneIsNoId, TaskTyped
<1> HIDE DEF x
<1>4. /\ r \in TaskRecords /\ r.pc \in {"copy", "remove"} /\ r.other = x
      /\ r.closing = IF x \in scoped THEN x ELSE None
      /\ r.pc = "remove" => x # None
  BY <1>2, IdleTyped DEF Closing, TaskRecords, TaskPcs, Idle
<1> HIDE DEF r
<1> QED
  BY <1>1, <1>4, LocksInv

LEMMA StepInv == WSInv /\ [WSNext]_workspaceVars => WSInv'
<1> SUFFICES ASSUME WSInv, [WSNext]_workspaceVars PROVE WSInv'
  OBVIOUS
<1>1. CASE StartUp
  BY <1>1, StartUpInv
<1>2. CASE Crash
  BY <1>2, CrashInv
<1>3. ASSUME NEW t \in Tasks, TaskStep(t) PROVE WSInv'
  BY <1>3, CreateInv, EnsureManagedInv, EnsureSpaceInv, RegisterInv, ShutdownEndsInv, UnlockInv,
     InstallInv, RetireInv, DeregisterInv, EraseInv, RestoreInv, RemoveRootInv, RestoreFailsInv,
     CopyInv, EnlistInv, EnsureSpaceReadsInv, SwitchInv, DeleteInv DEF TaskStep
<1>4. ASSUME NEW id \in Ids, ContextFor(id) \/ Import(id) PROVE WSInv'
  BY <1>4, ContextForInv, ImportInv
<1>5. CASE UNCHANGED workspaceVars
  BY <1>5 DEF workspaceVars, WSInv, ContextsInv, ContextsTypeOK, AdoptionInv, AdoptionTypes, FilesTypeOK,
     RegistryShape, HasRegistry, RegistryLast, EntriesKept, RootsKept, Recognised, AdoptionKnows, AlphaRoots,
     Unmoved
<1> QED
  BY <1>1, <1>2, <1>3, <1>4, <1>5 DEF WSNext

\* The invariant holds of every run.
THEOREM Invariant == WSSpec => []WSInv
BY InitInv, StepInv, PTL DEF WSSpec

\* No workspace is ever served by two contexts, for any number of operations at
\* once: an operation holds switch_lock from the moment it takes a context out
\* until that is shut down (context_for, switch, delete, restore).
THEOREM ServedOnce == WSSpec => []OneContextEach
<1>1. WSInv => OneContextEach
  BY DEF WSInv, ContextsInv, OneContextEach
<1> QED
  BY <1>1, Invariant, PTL

\* An old library is never split over two workspaces, however many entries it
\* has and however often startup is interrupted (MigrationPlan).
THEOREM SplitOverNone == WSSpec => []NeverSplit
<1>1. WSInv => NeverSplit
  BY SplitNever DEF WSInv
<1> QED
  BY <1>1, Invariant, PTL

\* An old library is registered whole (migrate_legacy_library): every entry in the
\* one workspace, every path in it as it is now.
THEOREM AdoptedAsAWhole == WSSpec => AdoptsWhole
<1>1. WSInv /\ [WSNext]_workspaceVars =>
        [~HasRegistry /\ HasRegistry' /\ alpha.found =>
           LET id == registry'.active
           IN  /\ \A e \in alpha.entries : copies'[e] = {} /\ home'[e] = id
               /\ stale' = {}
               /\ manifest'[id] =
                    User(Remapped(IF alpha.roots THEN "old" ELSE "none", Uploads \in alpha.entries))
               /\ settings' = "none"]_adoptionVars
  <2> SUFFICES ASSUME WSInv, [WSNext]_workspaceVars, ~HasRegistry, HasRegistry', alpha.found
               PROVE  LET id == registry'.active
                      IN  /\ \A e \in alpha.entries : copies'[e] = {} /\ home'[e] = id
                          /\ stale' = {}
                          /\ manifest'[id] = User(Remapped(IF alpha.roots THEN "old" ELSE "none",
                                                           Uploads \in alpha.entries))
                          /\ settings' = "none"
    OBVIOUS
  <2>1. start.pc # "up"
    BY DEF WSInv, AdoptionInv, RegistryLast
  <2>2. registry' # registry
    BY DEF HasRegistry
  <2>3. ASSUME NEW t \in Tasks PROVE ~TaskStep(t)
    BY <2>1, BusyIsUp DEF TaskStep, Create, EnsureManagedWorkspace, EnsureSpace, Register, ShutdownEnds,
       Unlock, Install, Retire, Deregister, Erase, Restore, RemoveRoot, RestoreFails, Copy, Enlist,
       EnsureSpaceReads, Switch, Delete, Locks, CanUseRegistry
  <2>4. ASSUME NEW id \in Ids PROVE ~ContextFor(id) /\ ~Import(id)
    BY <2>2 DEF ContextFor, Import
  <2>5. StartUp
    BY <2>2, <2>3, <2>4 DEF WSNext, Crash, Stop, workspaceVars
  <2> QED
    BY <2>5, AdoptedWhole DEF StartUp, WSInv
<1> QED
  BY <1>1, Invariant, PTL DEF WSSpec, AdoptsWhole


(***************************************************************************)
(* The registry. What is kept of it is in its order, each once.            *)
(***************************************************************************)
\* The kept entries have the places 1, 2, ... without a gap: as many places as
\* entries, and no two entries in one place.
LEMMA PlacesOfKept ==
  ASSUME NEW kept \in SUBSET Nat, IsFiniteSet(kept)
  PROVE  LET place(i) == Cardinality({k \in kept : k <= i})
         IN  /\ Cardinality(kept) \in Nat
             /\ \A i \in kept : place(i) \in 1..Cardinality(kept)
             /\ \A n \in 1..Cardinality(kept) : \E i \in kept : place(i) = n
             /\ \A i, j \in kept : place(i) = place(j) => i = j
<1> DEFINE upto(i) == {k \in kept : k <= i}
           place(i) == Cardinality(upto(i))
           n == Cardinality(kept)
<1>1. n \in Nat
  BY FS_CardinalityType
<1>2. ASSUME NEW i \in kept
      PROVE  IsFiniteSet(upto(i)) /\ place(i) \in Nat /\ place(i) <= n /\ place(i) # 0
  <2>1. upto(i) \subseteq kept /\ i \in upto(i)
    OBVIOUS
  <2>2. IsFiniteSet(upto(i)) /\ place(i) <= n
    BY <2>1, FS_Subset
  <2> QED BY <2>1, <2>2, FS_CardinalityType, FS_EmptySet
<1>3. ASSUME NEW i \in kept, NEW j \in kept, i < j PROVE place(i) # place(j)
  <2>1. j <= j /\ ~(j <= i) /\ \A k \in kept : k <= i => k <= j
    BY <1>3
  <2>2. upto(i) \subseteq upto(j) /\ j \in upto(j) /\ j \notin upto(i)
    BY <2>1, Zenon
  <2>3. IsFiniteSet(upto(j))
    BY <1>2
  <2> HIDE DEF upto
  <2> QED BY <2>2, <2>3, FS_Subset
<1>4. \A i, j \in kept : place(i) = place(j) => i = j
  BY <1>3
<1> DEFINE f == [i \in kept |-> place(i)]
<1>5. f \in Injection(kept, 1..n)
  <2>1. \A i \in kept : place(i) \in 1..n
    BY <1>1, <1>2
  <2> HIDE DEF place, n
  <2> QED BY <1>4, <2>1 DEF Injection, IsInjective
<1>6. IsFiniteSet(1..n) /\ Cardinality(1..n) = n
  BY <1>1, FS_Interval
<1>7. f \in Surjection(kept, 1..n)
  BY <1>5, <1>6, FS_Injection
<1>8. \A m \in 1..n : \E i \in kept : place(i) = m
  <2> HIDE DEF place, n
  <2> QED BY <1>7 DEF Surjection
<1> QED BY <1>1, <1>2, <1>4, <1>8

\* What is kept: every workspace that is not gone, and none twice.
LEMMA KeptOfRegistry ==
  ASSUME NEW gone, registry.ids \in Seq(Ids)
  PROVE  /\ Without(gone) \in Seq(Ids)
         /\ Range(Without(gone)) = Registered \ gone
         /\ IsInjective(registry.ids) => IsInjective(Without(gone))
<1> DEFINE ids == registry.ids
           kept == {i \in DOMAIN ids : ids[i] \notin gone}
           place(i) == Cardinality({k \in kept : k <= i})
           at(m) == CHOOSE i \in kept : place(i) = m
           n == Cardinality(kept)
<1>1. ids \in [DOMAIN ids -> Ids] /\ DOMAIN ids \subseteq Nat /\ IsFiniteSet(DOMAIN ids)
  <2>1. Len(ids) \in Nat /\ DOMAIN ids = 1..Len(ids) /\ ids \in [1..Len(ids) -> Ids]
    BY LenProperties
  <2> QED BY <2>1, FS_Interval
<1>2. kept \in SUBSET Nat /\ IsFiniteSet(kept)
  BY <1>1, FS_Subset
<1>3. /\ n \in Nat
      /\ \A i \in kept : place(i) \in 1..n
      /\ \A m \in 1..n : \E i \in kept : place(i) = m
      /\ \A i, j \in kept : place(i) = place(j) => i = j
  BY <1>2, PlacesOfKept
<1>4. Without(gone) = [m \in 1..n |-> ids[at(m)]]
  BY DEF Without
<1> HIDE DEF place, n, kept
<1>5. \A m \in 1..n : at(m) \in kept /\ place(at(m)) = m
  BY <1>3
<1>6. Without(gone) \in Seq(Ids)
  <2>1. \A m \in 1..n : ids[at(m)] \in Ids
    BY <1>1, <1>5 DEF kept
  <2>2. [m \in 1..n |-> ids[at(m)]] \in [1..n -> Ids]
    BY <2>1
  <2> QED BY <1>3, <1>4, <2>2, SeqDef
<1>7. \A m \in 1..n : ids[at(m)] \in Range(ids) \ gone
  BY <1>5 DEF kept, Range
<1>8. ASSUME NEW x \in Range(ids) \ gone PROVE \E m \in 1..n : ids[at(m)] = x
  <2>1. PICK i \in DOMAIN ids : ids[i] = x
    BY <1>8 DEF Range
  <2>2. i \in kept
    BY <1>8, <2>1 DEF kept
  <2>3. place(i) \in 1..n /\ at(place(i)) \in kept /\ place(at(place(i))) = place(i)
    BY <1>3, <1>5, <2>2
  <2>4. at(place(i)) = i
    BY <1>3, <2>2, <2>3
  <2> QED BY <2>1, <2>3, <2>4
<1>9. DOMAIN Without(gone) = 1..n /\ \A m \in 1..n : Without(gone)[m] = ids[at(m)]
  <2> HIDE DEF at, ids
  <2> QED BY <1>4
<1>10. ASSUME IsInjective(ids), NEW m \in 1..n, NEW k \in 1..n, ids[at(m)] = ids[at(k)]
       PROVE  m = k
  <2>1. at(m) \in DOMAIN ids /\ at(k) \in DOMAIN ids
    BY <1>5 DEF kept
  <2>2. at(m) = at(k)
    BY <1>10, <2>1 DEF IsInjective
  <2> HIDE DEF at
  <2> QED BY <1>5, <2>2
<1> HIDE DEF at
<1>11. Range(Without(gone)) = Registered \ gone
  <2>1. Range(Without(gone)) = Range(ids) \ gone
    <3> HIDE DEF ids
    <3> QED BY <1>7, <1>8, <1>9 DEF Range
  <2> QED BY <2>1 DEF Registered
<1>12. IsInjective(ids) => IsInjective(Without(gone))
  <2> HIDE DEF ids
  <2> QED BY <1>9, <1>10 DEF IsInjective
<1> QED BY <1>6, <1>11, <1>12


(***************************************************************************)
(* The registry and the manifests. What is registered was made, is named   *)
(* once and has its manifest; an operation that is about to register a     *)
(* workspace has written its manifest and nobody else knows it; what an    *)
(* operation is about to erase was taken from the registry.                *)
(***************************************************************************)
RegistryInv ==
  /\ ~HasRegistry => registry.ids = <<>>
  /\ registry.ids \in Seq(Ids) /\ IsInjective(registry.ids)
  /\ \A id \in Registered : id <= made /\ (manifest[id] # None \/ id \in torn)

MakingInv ==
  /\ plan # None => plan.id <= made
  /\ start.pc \notin {"down", "up"} => start.id <= made
  /\ start.pc = "fresh" => manifest[start.id] # None

TaskInv(t) ==
  /\ task[t].pc = "register" =>
       task[t].id <= made /\ task[t].id \notin Registered /\ manifest[task[t].id] # None
  /\ task[t].pc \in {"retire", "erase"} => \A id \in task[t].todo : id <= made
  /\ task[t].pc = "erase" => task[t].todo \cap Registered = {}
  /\ task[t].pc = "remove" => task[t].other \in Registered
  /\ task[t].pc = "enlist" => manifest[Saved] # None
  /\ task[t].closing # None => task[t].pc \in Locked

\* A workspace that is about to be registered is of one task only.
OwnDraft(t, u) ==
  task[t].pc = "register" =>
    /\ task[u].pc = "register" => u = t
    /\ task[u].pc \in {"retire", "erase"} => task[t].id \notin task[u].todo

ManifestsInv ==
  /\ RegistryInv /\ MakingInv
  /\ \A t \in Tasks : TaskInv(t)
  /\ \A t, u \in Tasks : OwnDraft(t, u)

LEMMA AppendedOnce ==
  ASSUME NEW s \in Seq(Ids), NEW id \in Ids
  PROVE  /\ Append(s, id) \in Seq(Ids)
         /\ Range(Append(s, id)) = Range(s) \cup {id}
         /\ IsInjective(s) /\ id \notin Range(s) => IsInjective(Append(s, id))
<1> DEFINE a == Append(s, id)
           n == Len(s) + 1
<1>1. /\ DOMAIN a = DOMAIN s \cup {n} /\ n \notin DOMAIN s
      /\ \A i \in DOMAIN s : a[i] = s[i]
      /\ a[n] = id /\ a \in Seq(Ids)
  <2>1. /\ a \in Seq(Ids) /\ Len(a) = n
        /\ \A i \in 1..Len(s) : a[i] = s[i]
        /\ a[n] = id
    BY AppendProperties
  <2>2. DOMAIN a = 1..n /\ DOMAIN s = 1..Len(s) /\ Len(s) \in Nat
    BY <2>1, LenProperties
  <2> QED BY <2>1, <2>2
<1> HIDE DEF a, n
<1>2. Range(a) = Range(s) \cup {id}
  BY <1>1 DEF Range
<1>3. IsInjective(s) /\ id \notin Range(s) => IsInjective(a)
  BY <1>1 DEF Range, IsInjective
<1> QED BY <1>1, <1>2, <1>3 DEF a

LEMMA RegisteredIds ==
  ASSUME registry.ids \in Seq(Ids)
  PROVE  Registered \subseteq Ids
<1> DEFINE s == registry.ids
<1>1. DOMAIN s = 1..Len(s) /\ s \in [1..Len(s) -> Ids]
  BY LenProperties
<1> QED BY <1>1 DEF Registered, Range

\* One workspace only.
LEMMA OnlyRegistered ==
  ASSUME NEW id \in Ids
  PROVE  <<id>> \in Seq(Ids) /\ Range(<<id>>) = {id} /\ IsInjective(<<id>>)
BY DEF Range, IsInjective

LEMMA RegisteredKept ==
  ASSUME RegistryInv, registry'.ids = registry.ids, HasRegistry => HasRegistry',
         made \in Nat, made' \in Nat, made <= made',
         \A id \in Registered : manifest[id] # None \/ id \in torn => manifest'[id] # None \/ id \in torn'
  PROVE  RegistryInv' /\ Registered' = Registered
<1>1. Registered' = Registered
  BY DEF Registered
<1>2. \A id \in Registered : id \in Nat
  BY RegisteredIds DEF RegistryInv, Ids
<1>3. \A id \in Registered : id <= made'
  BY <1>2 DEF RegistryInv
<1> QED BY <1>1, <1>3 DEF RegistryInv

LEMMA ManifestsInit == WSInit => ManifestsInv
<1> SUFFICES ASSUME WSInit PROVE ManifestsInv
  OBVIOUS
<1>1. start.pc = "down" /\ registry.ids = <<>>
  BY DownTyped DEF WSInit, LAInit, NoRegistry
<1>2. <<>> \in Seq(Ids) /\ IsInjective(<<>>) /\ Range(<<>>) = {}
  BY DEF IsInjective, Range
<1>3. RegistryInv
  BY <1>1, <1>2 DEF RegistryInv, Registered
<1>4. plan # None => plan.id <= made
  <2>1. PICK roots \in {"none", "old"}, begun \in BOOLEAN :
          /\ plan = IF begun THEN [id |-> 1, roots |-> roots, mapped |-> FALSE] ELSE None
          /\ made = IF begun THEN 1 ELSE 0
    BY DEF WSInit, LAInit
  <2> QED BY <2>1
<1>5. \A t \in Tasks : task[t].pc = "idle" /\ task[t].closing = None
  BY IdleTyped DEF WSInit
<1> QED BY <1>1, <1>3, <1>4, <1>5 DEF ManifestsInv, MakingInv, TaskInv, OwnDraft


\* While the application starts, and when it has ended, there are no tasks.
LEMMA NoTaskInv ==
  ASSUME RegistryInv', MakingInv',
         \A t \in Tasks : task'[t].pc = "idle" /\ task'[t].closing = None
  PROVE  ManifestsInv'
BY DEF ManifestsInv, TaskInv, OwnDraft

LEMMA ManifestsCrash == WSInv /\ ManifestsInv /\ Crash => ManifestsInv'
<1> SUFFICES ASSUME WSInv, ManifestsInv, Crash PROVE ManifestsInv'
  OBVIOUS
<1>1. /\ UNCHANGED <<manifest, registry, made, plan, torn>>
      /\ start'.pc = "down" /\ task' = [t \in Tasks |-> Idle]
  BY DownTyped DEF Crash, Stop, legacyVars
<1>2. RegistryInv'
  BY <1>1 DEF ManifestsInv, RegistryInv, HasRegistry, Registered
<1>3. MakingInv'
  BY <1>1 DEF ManifestsInv, MakingInv
<1> QED BY <1>1, <1>2, <1>3, NoTaskInv, IdleTyped

\* Startup: the plan and the new workspace are numbered as they are made, and what
\* is registered is the one workspace whose manifest was written before.
LEMMA ManifestsStartUp == WSInv /\ ManifestsInv /\ StartUp => ManifestsInv'
<1> SUFFICES ASSUME WSInv, ManifestsInv, StartUp PROVE ManifestsInv'
  OBVIOUS
<1>1. StartupStep /\ UNCHANGED <<task, torn>>
  BY DEF StartUp
<1>2. AdoptionInv /\ AdoptionInv' /\ start.pc # "up"
      /\ \A t \in Tasks : task'[t].pc = "idle" /\ task'[t].closing = None
  BY <1>1, StartupKeeps DEF WSInv, ContextsInv
<1>3. /\ made \in Nat /\ made' \in Nat /\ start \in Starts /\ start.id \in Ids
      /\ manifest \in [Ids -> Manifests \cup {None}]
      /\ plan # None => plan \in Plans /\ plan.id \in Nat
  BY <1>2, AdoptionAssumption DEF AdoptionInv, AdoptionTypes, FilesTypeOK, Starts, Plans, Ids
<1>4. RegistryInv /\ MakingInv
  BY DEF ManifestsInv
<1>5. CASE UNCHANGED <<manifest, registry, made>> /\ (plan' = plan \/ plan' = None)
           /\ (start'.pc \in {"down", "up"} \/ (start.pc \notin {"down", "up", "fresh"}
                /\ start'.id = start.id /\ start'.pc # "fresh"))
  <2>1. RegistryInv'
    BY <1>1, <1>5, <1>4 DEF RegistryInv, HasRegistry, Registered
  <2>2. MakingInv'
    BY <1>5, <1>4 DEF MakingInv
  <2> QED BY <1>2, <2>1, <2>2, NoTaskInv
<1>6. CASE Load
  <2>1. start'.pc = "up" /\ UNCHANGED <<manifest, registry, made, plan>>
    BY <1>3, <1>6, StepFields DEF Load, legacyVars, Steps
  <2> QED BY <1>5, <2>1
<1>7. CASE MoveEntry
  <2>1. start'.pc = "down" \/ (start'.pc = start.pc /\ start'.id = start.id)
    BY <1>3, <1>7, DownTyped DEF MoveEntry, Starts
  <2>2. start.pc = "move" /\ UNCHANGED <<manifest, registry, made, plan>>
    BY <1>7 DEF MoveEntry
  <2> QED BY <1>5, <2>1, <2>2
<1>8. CASE EndMoves
  <2>1. start'.pc = "remap" /\ start'.id = start.id
    BY <1>3, <1>8 DEF EndMoves, Starts
  <2>2. start.pc = "move" /\ UNCHANGED <<manifest, registry, made, plan>>
    BY <1>8 DEF EndMoves, legacyVars
  <2> QED BY <1>5, <2>1, <2>2
<1>9. CASE RemapStore
  <2>1. start'.pc = start.pc /\ start'.id = start.id
    BY <1>3, <1>9 DEF RemapStore, Starts
  <2>2. start.pc = "remap" /\ UNCHANGED <<manifest, registry, made, plan>>
    BY <1>9 DEF RemapStore
  <2> QED BY <1>5, <2>1, <2>2
<1>10. CASE ClearSettings
  <2>1. start'.pc = "register" /\ start'.id = start.id
    BY <1>3, <1>10 DEF ClearSettings, Starts
  <2>2. start.pc = "clear" /\ UNCHANGED <<manifest, registry, made, plan>>
    BY <1>10 DEF ClearSettings
  <2> QED BY <1>5, <2>1, <2>2
<1>11. CASE RemovePlan
  <2>1. start'.pc = "up" /\ plan' = None /\ UNCHANGED <<manifest, registry, made>>
    BY <1>11, DownTyped DEF RemovePlan
  <2> QED BY <1>5, <2>1
<1>12. CASE WritePlan
  <2>1. start.pc = "plan" /\ plan'.id = start.id /\ UNCHANGED <<manifest, registry, made, torn>>
    BY <1>1, <1>12 DEF WritePlan
  <2>2. start'.pc = "move" /\ start'.id = start.id
    BY <1>3, <1>12 DEF WritePlan, Starts
  <2>3. RegistryInv' /\ MakingInv'
    BY <1>4, <2>1, <2>2 DEF RegistryInv, HasRegistry, Registered, MakingInv
  <2> QED BY <1>2, <2>3, NoTaskInv
<1>13. CASE BeginAdoption \/ ResumeAdoption
  <2>1. /\ UNCHANGED <<manifest, registry, plan, torn>> /\ made <= made'
        /\ start'.pc = "plan" /\ start'.id <= made'
    BY <1>1, <1>3, <1>4, <1>13 DEF BeginAdoption, ResumeAdoption, Adopt, legacyVars, MakingInv
  <2>2. RegistryInv'
    BY <1>3, <1>4, <2>1, RegisteredKept DEF HasRegistry
  <2>3. MakingInv'
    BY <1>3, <1>4, <2>1 DEF MakingInv
  <2> QED BY <1>2, <2>2, <2>3, NoTaskInv
<1>14. CASE MakeDefault
  <2>1. /\ manifest' = [manifest EXCEPT ![made + 1] = User("none")] /\ made' = made + 1
        /\ made + 1 \in Ids /\ UNCHANGED <<registry, plan, torn>>
        /\ start'.pc = "fresh" /\ start'.id = made + 1
    BY <1>1, <1>2, <1>3, <1>14, NewId DEF MakeDefault, legacyVars, AdoptionInv, AdoptionTypes, FilesTypeOK, Starts
  <2>2. User("none") # None
    BY DEF User, Manifests, Kinds, Roots
  <2>3. manifest'[made + 1] # None /\ \A id \in Ids : manifest[id] # None => manifest'[id] # None
    BY <1>3, <2>1, <2>2
  <2>4. RegistryInv'
    BY <1>3, <1>4, <2>1, <2>3, RegisteredIds, RegisteredKept DEF HasRegistry, RegistryInv
  <2>5. MakingInv'
    BY <1>3, <1>4, <2>1, <2>3 DEF MakingInv
  <2> QED BY <1>2, <2>4, <2>5, NoTaskInv
<1>15. CASE WriteManifest
  <2>1. /\ start.pc = "remap" /\ start'.pc = "clear" /\ start'.id = start.id
        /\ manifest' = [manifest EXCEPT ![start.id] = User(start.roots)]
        /\ UNCHANGED <<registry, made, plan, torn>>
    BY <1>1, <1>3, <1>15 DEF WriteManifest, Starts, legacyVars
  <2>2. User(start.roots) # None
    BY <1>3 DEF User, Manifests, Kinds, Roots, Starts
  <2>3. \A id \in Ids : manifest[id] # None => manifest'[id] # None
    BY <1>3, <2>1, <2>2
  <2>4. RegistryInv'
    BY <1>3, <1>4, <2>1, <2>3, RegisteredIds, RegisteredKept DEF HasRegistry, RegistryInv
  <2>5. MakingInv'
    BY <1>4, <2>1 DEF MakingInv
  <2> QED BY <1>2, <2>4, <2>5, NoTaskInv
<1>16. CASE RegisterDefault \/ RegisterAdopted
  <2>1. /\ start.pc \in {"fresh", "register"} /\ UNCHANGED <<manifest, made, plan, torn>>
        /\ registry' = [active |-> start.id, ids |-> <<start.id>>]
        /\ start'.pc = "up" \/ (start'.pc = "unplan" /\ start'.id = start.id)
    BY <1>1, <1>3, <1>16, DownTyped DEF RegisterDefault, RegisterAdopted, Starts, legacyVars
  <2>2. manifest[start.id] # None /\ start.id <= made
    <3>1. CASE start.pc = "fresh"
      BY <1>4, <3>1 DEF MakingInv
    <3>2. CASE start.pc = "register"
      <4>1. manifest[start.id] = User(start.roots)
        BY <1>2, <3>2 DEF AdoptionInv, AdoptionKnows, RegistryLast, Planned, Ending
      <4>2. User(start.roots) # None
        BY <1>3 DEF User, Manifests, Kinds, Roots, Starts
      <4> QED BY <1>4, <3>2, <4>1, <4>2 DEF MakingInv
    <3> QED BY <2>1, <3>1, <3>2
  <2>3. /\ registry'.ids \in Seq(Ids) /\ IsInjective(registry'.ids) /\ Registered' = {start.id}
        /\ HasRegistry'
    BY <1>3, <2>1, OnlyRegistered, NoneIsNoId DEF Registered, HasRegistry
  <2>4. RegistryInv'
    BY <2>1, <2>2, <2>3 DEF RegistryInv
  <2>5. MakingInv'
    BY <1>4, <2>1, <2>2 DEF MakingInv
  <2> QED BY <1>2, <2>4, <2>5, NoTaskInv
<1> QED
  BY <1>1, <1>6, <1>7, <1>8, <1>9, <1>10, <1>11, <1>12, <1>13, <1>14, <1>15, <1>16 DEF StartupStep


LEMMA ManifestTypes ==
  ASSUME WSInv, start.pc = "up", ManifestsInv
  PROVE  /\ made \in Nat /\ manifest \in [Ids -> Manifests \cup {None}]
         /\ Registered \subseteq Ids /\ HasRegistry /\ RegistryShape
         /\ \A t \in Tasks : /\ task[t] \in TaskRecords /\ task[t].id \in Ids
                             /\ \A id \in task[t].todo : id \in Ids
BY UpFacts, TaskTyped, RegisteredIds DEF WSInv, ManifestsInv, RegistryInv, TaskRecords

\* While the application is up, startup has nothing under way.
LEMMA MakingIsOver ==
  ASSUME WSInv, start.pc = "up", ManifestsInv, OthersRest, made' \in Nat, made <= made'
  PROVE  MakingInv'
<1>1. start'.pc = "up" /\ plan' = plan
  BY DEF OthersRest
<1>2. plan # None => plan.id \in Nat
  BY DEF WSInv, AdoptionInv, AdoptionTypes, FilesTypeOK, Plans, Ids
<1>3. made \in Nat
  BY ManifestTypes
<1> QED BY <1>1, <1>2, <1>3 DEF ManifestsInv, MakingInv

\* A step of the task that holds the switch lock or takes it. The other tasks can
\* only be about to register a workspace.
LEMMA HolderManifests ==
  ASSUME WSInv, ManifestsInv, start.pc = "up", OthersRest, made' = made, RegistryInv',
         NEW t \in Tasks, switchLock \in {t, None},
         NEW r \in TaskRecords, task' = [task EXCEPT ![t] = r], r.pc # "register",
         \A u \in Tasks : task[u].pc = "register" =>
           task[u].id \notin Registered' /\ manifest'[task[u].id] # None,
         r.pc \in {"retire", "erase"} =>
           \A id \in r.todo : id <= made /\ \A u \in Tasks : task[u].pc = "register" => task[u].id # id,
         r.pc = "erase" => r.todo \cap Registered' = {},
         r.pc = "remove" => r.other \in Registered',
         r.pc = "enlist" => manifest'[Saved] # None,
         r.closing # None => r.pc \in Locked
  PROVE  ManifestsInv'
<1>1. task'[t] = r /\ \A u \in Tasks \ {t} : task'[u] = task[u]
  BY TaskTyped DEF WSInv, ContextsTypeOK
<1>2. MakingInv'
  BY ManifestTypes, MakingIsOver
<1>3. \A u \in Tasks \ {t} : task[u].pc \notin Locked
  BY DEF WSInv, ContextsInv
<1>4. ASSUME NEW u \in Tasks PROVE TaskInv(u)'
  <2>1. CASE u = t
    BY <1>1, <2>1 DEF TaskInv
  <2>2. CASE u # t
    <3>1. task'[u] = task[u] /\ task[u].pc \notin {"retire", "erase", "remove", "enlist"}
      BY <1>1, <1>3, <2>2 DEF Locked
    <3>2. TaskInv(u)
      BY DEF ManifestsInv
    <3> QED BY <3>1, <3>2 DEF TaskInv
  <2> QED BY <2>1, <2>2
<1>5. ASSUME NEW u \in Tasks, NEW v \in Tasks PROVE OwnDraft(u, v)'
  <2>1. OwnDraft(u, v)
    BY DEF ManifestsInv
  <2>2. CASE u = t
    BY <1>1, <2>2 DEF OwnDraft
  <2>3. CASE u # t /\ v = t
    BY <1>1, <2>3 DEF OwnDraft
  <2>4. CASE u # t /\ v # t
    BY <1>1, <2>1, <2>4 DEF OwnDraft
  <2> QED BY <2>2, <2>3, <2>4
<1> QED BY <1>2, <1>4, <1>5 DEF ManifestsInv

\* Its next record keeps what its operation is about.
LEMMA SameOperation ==
  ASSUME WSInv, ManifestsInv, start.pc = "up", OthersRest,
         UNCHANGED <<made, manifest, torn>>, registry'.ids = registry.ids, HasRegistry',
         NEW t \in Tasks, switchLock \in {t, None},
         NEW r \in TaskRecords, task' = [task EXCEPT ![t] = r],
         r.pc \notin {"register", "retire", "erase", "remove", "enlist"}
         \/ (r.pc = task[t].pc /\ r.id = task[t].id /\ r.todo = task[t].todo
             /\ r.other = task[t].other /\ task[t].pc # "register"),
         r.closing # None => r.pc \in Locked
  PROVE  ManifestsInv'
<1>1. RegistryInv' /\ Registered' = Registered
  BY ManifestTypes, RegisteredKept DEF ManifestsInv
<1>2. \A u \in Tasks : TaskInv(u) /\ \A v \in Tasks : OwnDraft(u, v)
  BY DEF ManifestsInv
<1>3. \A u \in Tasks : task[u].pc = "register" =>
           task[u].id \notin Registered' /\ manifest'[task[u].id] # None
  BY <1>1, <1>2 DEF TaskInv
<1>4. r.pc \in {"retire", "erase"} =>
           \A id \in r.todo : id <= made /\ \A u \in Tasks : task[u].pc = "register" => task[u].id # id
  BY <1>2 DEF TaskInv, OwnDraft
<1>5. /\ r.pc = "erase" => r.todo \cap Registered' = {}
      /\ r.pc = "remove" => r.other \in Registered'
      /\ r.pc = "enlist" => manifest'[Saved] # None
  BY <1>1, <1>2 DEF TaskInv
<1>6. r.pc # "register"
  OBVIOUS
<1> QED BY <1>1, <1>3, <1>4, <1>5, <1>6, HolderManifests

\* A step of a task that makes a workspace: it takes no lock.
LEMMA AsideManifests ==
  ASSUME WSInv, ManifestsInv, start.pc = "up", OthersRest,
         made' \in Nat, made <= made', RegistryInv', torn' = torn,
         NEW t \in Tasks, NEW r \in TaskRecords, task' = [task EXCEPT ![t] = r],
         r.pc \in {"idle", "space", "register"}, r.closing = None,
         \A id \in Ids : manifest[id] # None => manifest'[id] # None,
         \A id \in Registered' : id \in Registered \/ (task[t].pc = "register" /\ id = task[t].id),
         Registered \subseteq Registered',
         r.pc = "register" =>
           /\ r.id \in Ids /\ r.id > made /\ r.id <= made' /\ manifest'[r.id] # None
           /\ \A u \in Tasks : task[u].pc # "register"
  PROVE  ManifestsInv'
<1>1. task'[t] = r /\ \A u \in Tasks \ {t} : task'[u] = task[u]
  BY TaskTyped DEF WSInv, ContextsTypeOK
<1>2. MakingInv'
  BY ManifestTypes, MakingIsOver
<1>3. /\ made \in Nat /\ Ids \subseteq Nat /\ Saved \in Ids
      /\ \A u \in Tasks : task[u].id \in Ids /\ \A id \in task[u].todo : id \in Ids
      /\ \A u \in Tasks : TaskInv(u) /\ \A v \in Tasks : OwnDraft(u, v)
  BY ManifestTypes, AdoptionAssumption DEF Ids, Saved, ManifestsInv
<1>4. \A id \in Registered : id \in Ids /\ id <= made
  BY ManifestTypes DEF ManifestsInv, RegistryInv
<1>5. \A id \in Ids : id <= made => id <= made' /\ ~(id > made)
  <2>1. \A id \in Ids : id \in Nat
    BY DEF Ids
  <2> QED BY <1>3, <2>1
<1>6. r.pc = "register" => \A id \in Ids : id <= made => id # r.id
  BY <1>5
<1>7. ASSUME NEW u \in Tasks PROVE TaskInv(u)'
  <2>1. CASE u = t
    <3>1. r.pc = "register" => r.id \notin Registered'
      BY <1>4, <1>6
    <3> QED BY <1>1, <2>1, <3>1 DEF TaskInv
  <2>2. CASE u # t
    <3>1. task'[u] = task[u]
      BY <1>1, <2>2
    <3>2. task[u].pc = "register" => task[u].id \notin Registered'
      BY <1>3, <2>2 DEF TaskInv, OwnDraft
    <3>3. task[u].pc = "erase" => task[u].todo \cap Registered' = {}
      BY <1>3 DEF TaskInv, OwnDraft
    <3>4. task[u].pc = "register" => task[u].id <= made' /\ manifest'[task[u].id] # None
      BY <1>3, <1>5 DEF TaskInv
    <3>5. task[u].pc \in {"retire", "erase"} => \A id \in task[u].todo : id <= made'
      BY <1>3, <1>5 DEF TaskInv
    <3>6. /\ task[u].pc = "remove" => task[u].other \in Registered'
          /\ task[u].pc = "enlist" => manifest'[Saved] # None
          /\ task[u].closing # None => task[u].pc \in Locked
      BY <1>3 DEF TaskInv
    <3> QED BY <3>1, <3>2, <3>3, <3>4, <3>5, <3>6 DEF TaskInv
  <2> QED BY <2>1, <2>2
<1>8. ASSUME NEW u \in Tasks, NEW v \in Tasks PROVE OwnDraft(u, v)'
  <2>1. CASE u = t
    <3>1. CASE v = t
      BY <1>1, <2>1, <3>1 DEF OwnDraft
    <3>2. CASE v # t
      <4>1. task[v].pc \in {"retire", "erase"} => \A id \in task[v].todo : id \in Ids /\ id <= made
        BY <1>3 DEF TaskInv
      <4> QED BY <1>1, <1>6, <2>1, <3>2, <4>1 DEF OwnDraft
    <3> QED BY <3>1, <3>2
  <2>2. CASE u # t
    BY <1>1, <1>3, <2>2 DEF OwnDraft
  <2> QED BY <2>1, <2>2
<1> QED BY <1>2, <1>7, <1>8 DEF ManifestsInv


LEMMA WriteNewManifests ==
  ASSUME WSInv, ManifestsInv, start.pc = "up", \A u \in Tasks : task[u].pc # "register",
         NEW t \in Tasks, NEW kind \in Kinds, NEW parent \in Ids \cup {None},
         WriteNew(t, kind, parent)
  PROVE  ManifestsInv'
<1> DEFINE r == [Idle EXCEPT !.pc = "register", !.id = made + 1]
           m == [kind |-> kind, parent |-> parent, roots |-> "none"]
<1>1. /\ made < MaxIds /\ made' = made + 1
      /\ manifest' = [manifest EXCEPT ![made + 1] = m]
      /\ task' = [task EXCEPT ![t] = r]
      /\ OthersRest
      /\ UNCHANGED <<registry, torn>>
  BY DEF WriteNew
<1>2. /\ made + 1 \in Ids /\ made \in Nat /\ manifest \in [Ids -> Manifests \cup {None}]
      /\ Registered \subseteq Ids /\ HasRegistry
  BY <1>1, NewId, UpFacts, ManifestTypes DEF WSInv
<1>3. r \in TaskRecords /\ r.pc = "register" /\ r.id = made + 1 /\ r.closing = None
  BY <1>2, IdleTyped DEF TaskRecords, TaskPcs, Idle
<1>4. m \in Manifests
  BY DEF Manifests, Roots
<1> HIDE DEF m, r
<1>5. manifest'[made + 1] # None /\ \A id \in Ids : manifest[id] # None => manifest'[id] # None
  BY <1>1, <1>2, <1>4
<1>6. RegistryInv' /\ Registered' = Registered
  BY <1>1, <1>2, <1>5, RegisteredKept DEF ManifestsInv, HasRegistry
<1>7. made' \in Nat /\ made <= made' /\ r.id > made /\ r.id <= made' /\ r.id \in Ids
  BY <1>1, <1>2, <1>3
<1> QED BY <1>1, <1>3, <1>5, <1>6, <1>7, AsideManifests

\* A task that makes a workspace, reads or gives up leaves what is on disk alone.
LEMMA AsideReads ==
  ASSUME WSInv, ManifestsInv, start.pc = "up", OnlyTask,
         NEW t \in Tasks, NEW r \in TaskRecords, task' = [task EXCEPT ![t] = r],
         r.pc \in {"idle", "space"}, r.closing = None
  PROVE  ManifestsInv'
<1>1. OthersRest /\ UNCHANGED <<made, manifest, registry, torn>>
  BY DEF OnlyTask
<1>2. made' \in Nat /\ made <= made' /\ HasRegistry'
  BY <1>1, ManifestTypes DEF HasRegistry
<1>3. RegistryInv' /\ Registered' = Registered
  BY <1>1, <1>2, RegisteredKept DEF ManifestsInv
<1> QED BY <1>1, <1>2, <1>3, AsideManifests

LEMMA MakersManifests ==
  ASSUME WSInv, ManifestsInv, NEW t \in Tasks, NEW id \in Ids,
         Create(t) \/ EnsureManagedWorkspace(t) \/ EnsureSpace(t) \/ EnsureSpaceReads(t, id)
  PROVE  ManifestsInv'
<1>1. CASE Create(t) \/ EnsureManagedWorkspace(t)
  BY <1>1, WriteNewManifests DEF Create, EnsureManagedWorkspace, CanUseRegistry, Kinds
<1>2. CASE EnsureSpace(t)
  <2>1. start.pc = "up" /\ task[t].id \in Ids /\ \A u \in Tasks : task[u].pc # "register"
    BY <1>2, BusyIsUp, TaskTyped DEF EnsureSpace, TaskRecords
  <2>2. CASE WriteNew(t, "projection", task[t].id)
    BY <2>1, <2>2, WriteNewManifests DEF Kinds
  <2>3. CASE task' = [task EXCEPT ![t] = Idle] /\ OnlyTask
    BY <2>1, <2>3, AsideReads, IdleTyped
  <2> QED BY <1>2, <2>2, <2>3 DEF EnsureSpace
<1>3. CASE EnsureSpaceReads(t, id)
  <2> DEFINE r == [Idle EXCEPT !.pc = "space", !.id = id]
  <2>1. start.pc = "up" /\ task' = [task EXCEPT ![t] = r] /\ OnlyTask
    BY <1>3 DEF EnsureSpaceReads
  <2>2. r \in TaskRecords /\ r.pc = "space" /\ r.closing = None
    BY IdleTyped DEF TaskRecords, TaskPcs, Idle
  <2> HIDE DEF r
  <2> QED BY <2>1, <2>2, AsideReads
<1> QED BY <1>1, <1>2, <1>3

LEMMA RegisterManifests == ASSUME WSInv, ManifestsInv, NEW t \in Tasks, Register(t) PROVE ManifestsInv'
<1>1. /\ task[t].pc = "register" /\ start.pc = "up" /\ OthersRest
      /\ registry' = [registry EXCEPT !.ids = Append(registry.ids, task[t].id)]
      /\ task' = [task EXCEPT ![t] = Idle] /\ UNCHANGED <<manifest, made, torn>>
  BY BusyIsUp DEF Register
<1>2. /\ made \in Nat /\ task[t].id \in Ids /\ registry.ids \in Seq(Ids)
      /\ task[t].id <= made /\ task[t].id \notin Registered /\ manifest[task[t].id] # None
  BY <1>1, ManifestTypes DEF ManifestsInv, RegistryInv, TaskInv
<1>3. /\ registry'.ids \in Seq(Ids) /\ IsInjective(registry'.ids)
      /\ Registered' = Registered \cup {task[t].id} /\ HasRegistry'
  <2>1. registry'.ids = Append(registry.ids, task[t].id) /\ HasRegistry'
    BY <1>1, IdsLeave, ManifestTypes DEF WSInv, RegistryShape
  <2> QED BY <1>2, <2>1, AppendedOnce DEF ManifestsInv, RegistryInv, Registered
<1>4. RegistryInv'
  BY <1>1, <1>2, <1>3 DEF ManifestsInv, RegistryInv
<1>5. made' \in Nat /\ made <= made'
  BY <1>1, <1>2
<1> QED BY <1>1, <1>3, <1>4, <1>5, AsideManifests, IdleTyped

\* The steps of the holder that write nothing.
LEMMA HoldersManifests ==
  ASSUME WSInv, ManifestsInv, NEW t \in Tasks,
         ShutdownEnds(t) \/ Unlock(t) \/ Retire(t) \/ RestoreFails(t) \/ Install(t)
  PROVE  ManifestsInv'
<1>1. start.pc = "up" /\ switchLock = t
  BY BusyIsUp DEF WSInv, ContextsInv, Locked, ShutdownEnds, Unlock, Retire, RestoreFails, Install
<1>2. task[t] \in TaskRecords /\ task[t].pc # "register" /\ HasRegistry
      /\ (task[t].closing # None => task[t].pc \in Locked)
  BY <1>1, TaskTyped, ManifestTypes DEF ManifestsInv, TaskInv, Locked, ShutdownEnds, Unlock, Retire,
     RestoreFails, Install
<1>3. CASE ShutdownEnds(t)
  <2> DEFINE r == [task[t] EXCEPT !.closing = None]
  <2>1. /\ r \in TaskRecords /\ r.closing = None /\ r.pc = task[t].pc /\ r.id = task[t].id
        /\ r.todo = task[t].todo /\ r.other = task[t].other
    BY <1>2 DEF TaskRecords
  <2>2. task' = [task EXCEPT ![t] = r] /\ OthersRest /\ UNCHANGED <<made, manifest, torn, registry>>
    BY <1>3 DEF ShutdownEnds, OnlyTask
  <2> HIDE DEF r
  <2> QED BY <1>1, <1>2, <2>1, <2>2, SameOperation DEF HasRegistry
<1>4. CASE Unlock(t) \/ RestoreFails(t)
  <2>1. task' = [task EXCEPT ![t] = Idle] /\ OthersRest /\ UNCHANGED <<made, manifest, torn, registry>>
    BY <1>4 DEF Unlock, RestoreFails, OnlyTask
  <2> QED BY <1>1, <1>2, <2>1, IdleTyped, SameOperation DEF HasRegistry
<1>5. CASE Retire(t)
  <2>1. PICK id \in task[t].todo \cap scoped :
          task' = [task EXCEPT ![t] = [task[t] EXCEPT !.closing = id]]
    BY <1>5 DEF Retire
  <2> DEFINE r == [task[t] EXCEPT !.closing = id]
  <2>2. /\ r \in TaskRecords /\ r.pc = task[t].pc /\ r.id = task[t].id
        /\ r.todo = task[t].todo /\ r.other = task[t].other /\ r.pc \in Locked
    BY <1>2, <1>5 DEF TaskRecords, Retire, Locked
  <2>3. OthersRest /\ UNCHANGED <<made, manifest, torn, registry>>
    BY <1>5 DEF Retire
  <2> HIDE DEF r
  <2> QED BY <1>1, <1>2, <2>1, <2>2, <2>3, SameOperation DEF HasRegistry, r
<1>6. CASE Install(t)
  <2> DEFINE r == [task[t] EXCEPT !.pc = "unlock", !.closing = active]
  <2>1. /\ task' = [task EXCEPT ![t] = r] /\ OthersRest /\ UNCHANGED <<made, manifest, torn>>
        /\ registry' = [registry EXCEPT !.active = task[t].id]
    BY <1>6 DEF Install
  <2>2. r \in TaskRecords /\ r.pc = "unlock" /\ r.pc \in Locked
    BY <1>1, <1>2, TaskTyped DEF TaskRecords, TaskPcs, Locked
  <2>3. registry'.ids = registry.ids /\ HasRegistry'
    BY <1>1, <2>1, ManifestTypes, NoneIsNoId DEF RegistryShape, HasRegistry
  <2> HIDE DEF r
  <2> QED BY <1>1, <2>1, <2>2, <2>3, SameOperation
<1> QED BY <1>3, <1>4, <1>5, <1>6

LEMMA DeregisterManifests ==
  ASSUME WSInv, ManifestsInv, NEW t \in Tasks, Deregister(t) PROVE ManifestsInv'
<1> DEFINE r == [task[t] EXCEPT !.pc = "erase"]
           kept == Without(task[t].todo)
<1>1. /\ task[t].pc = "retire" /\ task[t].closing = None /\ start.pc = "up" /\ switchLock = t
      /\ registry' = [registry EXCEPT !.ids = kept]
      /\ task' = [task EXCEPT ![t] = r] /\ OthersRest
      /\ UNCHANGED <<manifest, made, torn>>
      /\ \A u \in Tasks : task[u].pc # "register"
  BY DEF Deregister, CanUseRegistry, WSInv, ContextsInv, Locked
<1>2. r \in TaskRecords /\ r.pc = "erase" /\ r.todo = task[t].todo /\ r.closing = None
  BY <1>1, TaskTyped DEF TaskRecords, TaskPcs
<1>3. /\ kept \in Seq(Ids) /\ IsInjective(kept) /\ Range(kept) = Registered \ task[t].todo
  BY KeptOfRegistry DEF ManifestsInv, RegistryInv
<1> HIDE DEF kept, r
<1>4. registry'.ids = kept /\ HasRegistry' /\ Registered' = Registered \ task[t].todo
  BY <1>1, <1>3, IdsLeave, ManifestTypes DEF WSInv, RegistryShape, Registered
<1>5. RegistryInv'
  BY <1>1, <1>3, <1>4 DEF ManifestsInv, RegistryInv
<1>6. \A id \in r.todo : id <= made
  BY <1>1, <1>2 DEF ManifestsInv, TaskInv
<1>7. r.todo \cap Registered' = {}
  BY <1>2, <1>4
<1> QED BY <1>1, <1>2, <1>5, <1>6, <1>7, HolderManifests

LEMMA EraseManifests == ASSUME WSInv, ManifestsInv, NEW t \in Tasks, Erase(t) PROVE ManifestsInv'
<1>1. /\ task[t].pc = "erase" /\ OthersRest /\ UNCHANGED <<registry, made, torn>>
      /\ start.pc = "up" /\ switchLock = t
  BY BusyIsUp DEF Erase, WSInv, ContextsInv, Locked
<1>2. PICK id \in task[t].todo, removed \in BOOLEAN :
        /\ IF removed THEN manifest' = [manifest EXCEPT ![id] = None] ELSE UNCHANGED manifest
        /\ task' = [task EXCEPT ![t].todo = @ \ {id},
                                ![t].pc = IF task[t].todo = {id} THEN "unlock" ELSE @]
  BY DEF Erase
<1> DEFINE r == [task[t] EXCEPT !.todo = @ \ {id},
                                !.pc = IF task[t].todo = {id} THEN "unlock" ELSE @]
<1>3. task[t] \in TaskRecords /\ task \in [Tasks -> TaskRecords]
  BY TaskTyped DEF WSInv, ContextsTypeOK, TaskRecords
<1>4. task' = [task EXCEPT ![t] = r]
  BY <1>2, <1>3 DEF TaskRecords
<1>5. /\ r \in TaskRecords /\ r.pc \in {"erase", "unlock"} /\ r.pc \in Locked
      /\ r.todo \subseteq task[t].todo
  BY <1>1, <1>3 DEF TaskRecords, TaskPcs, Locked
<1> HIDE DEF r
<1>6. TaskInv(t) /\ \A u \in Tasks : TaskInv(u) /\ OwnDraft(u, t)
  BY DEF ManifestsInv
<1>7. id \notin Registered /\ \A u \in Tasks : task[u].pc = "register" => task[u].id # id
  BY <1>1, <1>6 DEF TaskInv, OwnDraft
<1>8. \A x \in Ids : x # id => manifest'[x] = manifest[x]
  BY <1>1, <1>2, ManifestTypes
<1>9. RegistryInv' /\ Registered' = Registered
  BY <1>1, <1>7, <1>8, ManifestTypes, RegisteredKept DEF ManifestsInv, HasRegistry
<1>10. \A u \in Tasks : task[u].pc = "register" =>
           task[u].id \notin Registered' /\ manifest'[task[u].id] # None
  BY <1>1, <1>6, <1>7, <1>8, <1>9, ManifestTypes DEF TaskInv
<1>11. /\ \A x \in r.todo : x <= made /\ \A u \in Tasks : task[u].pc = "register" => task[u].id # x
       /\ r.todo \cap Registered' = {}
  BY <1>1, <1>5, <1>6, <1>9 DEF TaskInv, OwnDraft
<1> QED BY <1>1, <1>4, <1>5, <1>9, <1>10, <1>11, HolderManifests


\* The directory a restore replaces is torn until the registry forgets it.
LEMMA RemoveRootManifests ==
  ASSUME WSInv, ManifestsInv, NEW t \in Tasks, RemoveRoot(t) PROVE ManifestsInv'
<1> DEFINE r == [task[t] EXCEPT !.pc = "copy"]
           gone == task[t].other
<1>1. /\ task[t].pc = "remove" /\ task[t].closing = None /\ start.pc = "up" /\ switchLock = t
      /\ manifest' = [manifest EXCEPT ![gone] = None] /\ torn' = torn \cup {gone}
      /\ task' = [task EXCEPT ![t] = r] /\ OthersRest /\ UNCHANGED <<registry, made>>
  BY BusyIsUp DEF RemoveRoot, WSInv, ContextsInv, Locked
<1>2. r \in TaskRecords /\ r.pc = "copy" /\ r.closing = None
  BY <1>1, TaskTyped DEF TaskRecords, TaskPcs
<1>3. \A u \in Tasks : TaskInv(u)
  BY DEF ManifestsInv
<1>4. gone \in Registered
  BY <1>1, <1>3 DEF TaskInv
<1> HIDE DEF r, gone
<1>5. \A x \in Ids : x # gone => manifest'[x] = manifest[x]
  BY <1>1, ManifestTypes
<1>6. RegistryInv' /\ Registered' = Registered
  BY <1>1, <1>5, ManifestTypes, RegisteredKept DEF ManifestsInv, HasRegistry
<1>7. \A u \in Tasks : task[u].pc = "register" =>
           task[u].id \notin Registered' /\ manifest'[task[u].id] # None
  BY <1>1, <1>3, <1>4, <1>5, <1>6, ManifestTypes DEF TaskInv
<1> QED BY <1>1, <1>2, <1>6, <1>7, HolderManifests

LEMMA CopyManifests == ASSUME WSInv, ManifestsInv, NEW t \in Tasks, Copy(t) PROVE ManifestsInv'
<1> DEFINE r == [task[t] EXCEPT !.pc = "enlist"]
           m == [kind |-> "corpus", parent |-> None, roots |-> "none"]
<1>1. /\ task[t].pc = "copy" /\ manifest' = [manifest EXCEPT ![Saved] = m]
      /\ torn' = torn \ {Saved} /\ start.pc = "up" /\ switchLock = t
      /\ task' = [task EXCEPT ![t] = r] /\ OthersRest /\ UNCHANGED <<registry, made>>
  BY BusyIsUp DEF Copy, WSInv, ContextsInv, Locked
<1>2. r \in TaskRecords /\ r.pc = "enlist" /\ r.pc \in Locked
  BY <1>1, TaskTyped DEF TaskRecords, TaskPcs, Locked
<1>3. m \in Manifests
  BY DEF Manifests, Kinds, Roots
<1> HIDE DEF r, m
<1>4. Saved \in Ids
  BY AdoptionAssumption DEF Saved, Ids
<1>5. manifest'[Saved] # None /\ \A x \in Ids : x # Saved => manifest'[x] = manifest[x]
  BY <1>1, <1>3, <1>4, ManifestTypes
<1>6. RegistryInv' /\ Registered' = Registered
  BY <1>1, <1>5, ManifestTypes, RegisteredKept DEF ManifestsInv, HasRegistry
<1>7. \A u \in Tasks : task[u].pc = "register" =>
           task[u].id \notin Registered' /\ manifest'[task[u].id] # None
  BY <1>1, <1>5, <1>6, ManifestTypes DEF ManifestsInv, TaskInv
<1> QED BY <1>1, <1>2, <1>5, <1>6, <1>7, HolderManifests

\* The restored corpus is registered, and what it replaces is not any more.
LEMMA EnlistManifests == ASSUME WSInv, ManifestsInv, NEW t \in Tasks, Enlist(t) PROVE ManifestsInv'
<1> DEFINE gone == {task[t].other}
           kept == Without(gone)
           ids == IF Saved \in Range(kept) THEN kept ELSE Append(kept, Saved)
<1>1. /\ task[t].pc = "enlist" /\ start.pc = "up" /\ switchLock = t
      /\ registry' = [registry EXCEPT !.ids = ids]
      /\ torn' = torn \ gone
      /\ task' = [task EXCEPT ![t] = Idle] /\ OthersRest
      /\ UNCHANGED <<manifest, made>>
      /\ \A u \in Tasks : task[u].pc # "register"
  BY DEF Enlist, CanUseRegistry, WSInv, ContextsInv, Locked
<1>2. kept \in Seq(Ids) /\ IsInjective(kept) /\ Range(kept) = Registered \ gone
  BY KeptOfRegistry DEF ManifestsInv, RegistryInv
<1>3. Saved \in Ids /\ made \in Nat /\ Saved <= made
  BY AdoptionAssumption, ManifestTypes, <1>1 DEF Saved, Ids
<1> HIDE DEF kept
<1>4. ids \in Seq(Ids) /\ IsInjective(ids) /\ Range(ids) = (Registered \ gone) \cup {Saved}
  BY <1>2, <1>3, AppendedOnce
<1> HIDE DEF ids
<1>5. registry'.ids = ids /\ HasRegistry' /\ Registered' = (Registered \ gone) \cup {Saved}
  BY <1>1, <1>4, IdsLeave, ManifestTypes DEF WSInv, RegistryShape, Registered
<1>6. manifest[Saved] # None
  BY <1>1 DEF ManifestsInv, TaskInv
<1>7. RegistryInv'
  <2> HIDE DEF gone
  <2> QED BY <1>1, <1>3, <1>4, <1>5, <1>6 DEF ManifestsInv, RegistryInv
<1> QED BY <1>1, <1>7, IdleTyped, HolderManifests

\* Taking the lock: what is to go was found in the registry, which nobody is
\* about to extend.
LEMMA LocksManifests ==
  ASSUME WSInv, ManifestsInv, NEW t \in Tasks, NEW r \in TaskRecords, Locks(t, r),
         r.pc \in {"install", "retire", "remove", "copy"},
         r.pc = "retire" => r.todo \subseteq Registered,
         r.pc = "remove" => r.other \in Registered
  PROVE  ManifestsInv'
<1>1. /\ switchLock = None /\ start.pc = "up" /\ task' = [task EXCEPT ![t] = r]
      /\ OthersRest /\ UNCHANGED <<manifest, registry, made, torn>>
      /\ \A u \in Tasks : task[u].pc # "register"
  BY DEF Locks, CanUseRegistry
<1>2. RegistryInv' /\ Registered' = Registered
  BY <1>1, ManifestTypes, RegisteredKept DEF ManifestsInv, HasRegistry
<1>3. \A id \in Registered : id <= made
  BY DEF ManifestsInv, RegistryInv
<1>4. r.pc \in Locked
  BY DEF Locked
<1> QED BY <1>1, <1>2, <1>3, <1>4, HolderManifests

\* A search of the registry finds what is registered.
LEMMA FirstRegistered ==
  ASSUME NEW S \in SUBSET Ids, FirstOf(S) # None
  PROVE  FirstOf(S) \in Registered
<1> DEFINE first == {id \in S : \E i \in DOMAIN registry.ids :
                       registry.ids[i] = id /\ \A k \in 1..(i - 1) : registry.ids[k] \notin S}
<1>1. FirstOf(S) = IF first = {} THEN None ELSE CHOOSE id \in first : TRUE
  BY DEF FirstOf
<1>2. first \subseteq Registered
  BY DEF Registered, Range
<1> HIDE DEF first
<1> QED BY <1>1, <1>2

LEMMA TakersManifests ==
  ASSUME WSInv, ManifestsInv, NEW t \in Tasks, NEW id \in Ids,
         Switch(t, id) \/ Delete(t, id) \/ Restore(t)
  PROVE  ManifestsInv'
<1>1. CASE Switch(t, id)
  <2> DEFINE r == [Idle EXCEPT !.pc = "install", !.id = id, !.closing = Closing(id)]
  <2>1. r \in TaskRecords /\ r.pc = "install"
    BY IdleTyped DEF Closing, TaskRecords, TaskPcs, Idle
  <2>2. Locks(t, r)
    BY <1>1 DEF Switch
  <2> HIDE DEF r
  <2> QED BY <2>1, <2>2, LocksManifests
<1>2. CASE Delete(t, id)
  <2> DEFINE r == [Idle EXCEPT !.pc = "retire", !.todo = Removals(id)]
  <2>1. Removals(id) \in SUBSET Ids /\ Removals(id) \subseteq Registered
    BY <1>2 DEF Removals, ProjectionsOf, OfKind, Delete
  <2>2. r \in TaskRecords /\ r.pc = "retire" /\ r.todo = Removals(id)
    BY <2>1, IdleTyped DEF TaskRecords, TaskPcs, Idle
  <2>3. Locks(t, r)
    BY <1>2 DEF Delete
  <2> HIDE DEF r
  <2> QED BY <2>1, <2>2, <2>3, LocksManifests
<1>3. CASE Restore(t)
  <2> DEFINE x == Existing
             r == [Idle EXCEPT !.pc = IF x = None THEN "copy" ELSE "remove",
                               !.other = x, !.closing = Closing(x)]
  <2>1. Locks(t, r)
    BY <1>3 DEF Restore
  <2>2. x \in Ids \cup {None} /\ (x # None => x \in Registered)
    BY FirstTyped, FirstRegistered DEF Existing, OfKind
  <2> HIDE DEF x
  <2>3. /\ r \in TaskRecords /\ r.pc \in {"copy", "remove"} /\ r.other = x
        /\ r.pc = "remove" => x # None
    BY <2>2, IdleTyped DEF Closing, TaskRecords, TaskPcs, Idle
  <2> HIDE DEF r
  <2> QED BY <2>1, <2>2, <2>3, LocksManifests
<1> QED BY <1>1, <1>2, <1>3

\* Contexts are opened and used without touching the registry.
LEMMA ContextManifests ==
  ASSUME WSInv, ManifestsInv, NEW id \in Ids, ContextFor(id) \/ Import(id)
  PROVE  ManifestsInv'
BY DEF ContextFor, Import, OthersRest, ManifestsInv, RegistryInv, MakingInv, TaskInv, OwnDraft,
       HasRegistry, Registered

LEMMA ManifestsStep == WSInv /\ ManifestsInv /\ [WSNext]_workspaceVars => ManifestsInv'
<1> SUFFICES ASSUME WSInv, ManifestsInv, [WSNext]_workspaceVars PROVE ManifestsInv'
  OBVIOUS
<1>1. CASE StartUp
  BY <1>1, ManifestsStartUp
<1>2. CASE Crash
  BY <1>2, ManifestsCrash
<1>3. ASSUME NEW t \in Tasks, TaskStep(t) PROVE ManifestsInv'
  <2>1. Saved \in Ids
    BY AdoptionAssumption DEF Saved, Ids
  <2> QED BY <1>3, <2>1, MakersManifests, RegisterManifests, HoldersManifests, DeregisterManifests,
             EraseManifests, RemoveRootManifests, CopyManifests, EnlistManifests, TakersManifests
          DEF TaskStep
<1>4. ASSUME NEW id \in Ids, ContextFor(id) \/ Import(id) PROVE ManifestsInv'
  BY <1>4, ContextManifests
<1>5. CASE UNCHANGED workspaceVars
  BY <1>5 DEF workspaceVars, ManifestsInv, RegistryInv, MakingInv, TaskInv, OwnDraft, HasRegistry, Registered
<1> QED BY <1>1, <1>2, <1>3, <1>4, <1>5 DEF WSNext

\* The registry and the manifests agree in every run.
THEOREM ManifestsInvariant == WSSpec => []ManifestsInv
BY ManifestsInit, ManifestsStep, Invariant, PTL DEF WSSpec

\* Every state has the types of the files and of the tasks, and the registry lists
\* no workspace twice, whatever is restored into it (WorkspaceRegistry).
THEOREM RegistryTypeCorrect == WSSpec => []WSTypeOK
<1>1. WSInv /\ ManifestsInv => WSTypeOK
  <2> SUFFICES ASSUME WSInv, ManifestsInv PROVE WSTypeOK
    OBVIOUS
  <2>1. FilesTypeOK /\ RegistryShape /\ RegistryInv
    BY DEF WSInv, AdoptionInv, AdoptionTypes, ManifestsInv
  <2>2. PICK a, ids : registry = [active |-> a, ids |-> ids] /\ a \in Ids \cup {None} /\ ids \in Seq(Ids)
    BY <2>1 DEF RegistryShape, RegistryInv
  <2>3. registry.active = a /\ registry.ids = ids
    BY <2>2
  <2>4. a # None => registry \in Registries
    BY <2>2 DEF Registries
  <2>5. a = None => registry = NoRegistry
    BY <2>1, <2>2, <2>3 DEF HasRegistry, RegistryInv, NoRegistry
  <2> QED BY <2>1, <2>4, <2>5 DEF WSTypeOK, LATypeOK, WSInv, RegistryInv
<1> QED BY <1>1, Invariant, ManifestsInvariant, PTL

\* A registered workspace has its manifest in every state that a crash or another
\* operation can leave or see, but for those a restore tore down: delete takes the
\* registry before the files, create the files before the registry.
THEOREM RegisteredHaveManifests == WSSpec => []NamesManifests
<1>1. ManifestsInv => NamesManifests
  BY DEF ManifestsInv, RegistryInv, NamesManifests
<1> QED BY <1>1, ManifestsInvariant, PTL



(***************************************************************************)
(* The active workspace is registered, which load_registry asks of every   *)
(* registry. A switch activates what it found there and a deletion spares  *)
(* the active workspace, whatever runs between the decision, which is      *)
(* taken under the switch lock, and the write; a restore does not ask      *)
(* whether the workspace that it replaces is the active one.               *)
(***************************************************************************)
ListedInv ==
  \A t \in Tasks :
    /\ task[t].pc = "install" => task[t].id \in Registered
    /\ task[t].pc = "retire" => registry.active \notin task[t].todo

\* A restore puts its corpus in the place of the active workspace.
ReplacesActive == \E t \in Tasks : Enlist(t) /\ task[t].other = registry.active

UnlistedByRestoreOnly == [][RegistryLoads /\ ~RegistryLoads' => ReplacesActive]_workspaceVars

ListedNext == ListedInv' /\ (RegistryLoads /\ ~RegistryLoads' => ReplacesActive)

LEMMA LoadableIs == Loadable <=> HasRegistry /\ registry.active \in Registered
BY DEF Loadable, Registered, Range

\* A registry of which nothing is taken stays loadable.
LEMMA ListedMoves ==
  ASSUME WSInv, ListedInv, Registered \subseteq Registered',
         registry'.active = registry.active,
         NEW t \in Tasks, NEW r, task' = [task EXCEPT ![t] = r],
         r.pc = "install" => r.id \in Registered',
         r.pc = "retire" => registry.active \notin r.todo
  PROVE  ListedNext
<1>1. task'[t] = r /\ \A u \in Tasks \ {t} : task'[u] = task[u]
  BY DEF WSInv, ContextsTypeOK
<1>2. ListedInv'
  BY <1>1 DEF ListedInv
<1>3. RegistryLoads => RegistryLoads'
  BY LoadableIs DEF RegistryLoads, HasRegistry, Loadable, Registered, Range
<1> QED BY <1>2, <1>3 DEF ListedNext

\* The holder of the switch lock writes the registry: no other task is about to.
LEMMA ListedWrites ==
  ASSUME WSInv, NEW t \in Tasks, switchLock = t,
         NEW r, task' = [task EXCEPT ![t] = r], r.pc \notin {"install", "retire"}
  PROVE  ListedInv'
<1>1. task'[t] = r /\ \A u \in Tasks \ {t} : task'[u] = task[u]
  BY DEF WSInv, ContextsTypeOK
<1>2. \A u \in Tasks \ {t} : task[u].pc \notin {"install", "retire"}
  BY DEF WSInv, ContextsInv, Locked
<1> QED BY <1>1, <1>2 DEF ListedInv

\* Startup and a crash leave no operation under way; a registry that startup
\* writes lists the workspace it makes active.
LEMMA ListedProcess == WSInv /\ ListedInv /\ (StartUp \/ Crash) => ListedNext
<1> SUFFICES ASSUME WSInv, ListedInv, StartUp \/ Crash PROVE ListedNext
  OBVIOUS
<1>1. CASE Crash
  <2>1. registry' = registry /\ \A t \in Tasks : task'[t].pc = "idle"
    BY <1>1, IdleTyped DEF Crash, Stop
  <2> QED BY <2>1 DEF ListedNext, ListedInv, RegistryLoads, Loadable, HasRegistry
<1>2. CASE StartUp
  <2>1. StartupStep /\ task' = task /\ \A t \in Tasks : task[t].pc = "idle"
    BY <1>2, StartupKeeps DEF StartUp, WSInv, ContextsInv
  <2>2. ListedInv'
    BY <2>1 DEF ListedInv
  <2>3. CASE registry' = registry
    BY <2>2, <2>3 DEF ListedNext, RegistryLoads, Loadable, HasRegistry
  <2>4. CASE registry' = [active |-> start.id, ids |-> <<start.id>>]
    <3>1. registry'.active = start.id /\ registry'.ids = <<start.id>>
      BY <2>4
    <3>2. 1 \in DOMAIN registry'.ids /\ registry'.ids[1] = registry'.active
      BY <3>1
    <3> QED BY <2>2, <3>2 DEF ListedNext, RegistryLoads, Loadable
  <2> QED BY <2>1, <2>3, <2>4
       DEF StartupStep, Load, MakeDefault, RegisterDefault, BeginAdoption, ResumeAdoption, Adopt, WritePlan,
           MoveEntry, EndMoves, RemapStore, WriteManifest, ClearSettings, RegisterAdopted, RemovePlan
<1> QED BY <1>1, <1>2

\* The steps that leave the registry alone.
LEMMA ListedSame ==
  ASSUME WSInv, ListedInv, NEW t \in Tasks, NEW r, task' = [task EXCEPT ![t] = r],
         registry' = registry,
         \/ r.pc \notin {"install", "retire"}
         \/ r.pc = task[t].pc /\ r.id = task[t].id /\ r.todo = task[t].todo
  PROVE  ListedNext
<1>1. Registered' = Registered
  BY DEF Registered
<1> QED BY <1>1, ListedMoves DEF ListedInv

LEMMA ListedTasks ==
  ASSUME WSInv, ListedInv, NEW t \in Tasks, NEW id \in Ids,
         \/ Create(t) \/ EnsureManagedWorkspace(t) \/ EnsureSpace(t) \/ EnsureSpaceReads(t, id)
         \/ ShutdownEnds(t) \/ Unlock(t) \/ Retire(t) \/ Erase(t)
         \/ RemoveRoot(t) \/ RestoreFails(t) \/ Copy(t)
  PROVE  ListedNext
<1>1. task \in [Tasks -> TaskRecords] /\ task[t] \in TaskRecords
  BY TaskTyped DEF WSInv, ContextsTypeOK, TaskRecords
<1>2. PICK r : /\ task' = [task EXCEPT ![t] = r] /\ registry' = registry
               /\ \/ r.pc \notin {"install", "retire"}
                  \/ r.pc = task[t].pc /\ r.id = task[t].id /\ r.todo = task[t].todo
  <2>1. CASE Create(t) \/ EnsureManagedWorkspace(t)
    <3> DEFINE r == [Idle EXCEPT !.pc = "register", !.id = made + 1]
    <3>1. r.pc = "register"
      BY DEF Idle
    <3> QED BY <2>1, <3>1 DEF Create, EnsureManagedWorkspace, WriteNew
  <2>2. CASE EnsureSpace(t)
    <3> DEFINE r == [Idle EXCEPT !.pc = "register", !.id = made + 1]
    <3>1. r.pc = "register"
      BY DEF Idle
    <3> QED BY <2>2, <3>1, IdleTyped DEF EnsureSpace, WriteNew, OnlyTask
  <2>3. CASE EnsureSpaceReads(t, id)
    <3> DEFINE r == [Idle EXCEPT !.pc = "space", !.id = id]
    <3>1. r.pc = "space"
      BY DEF Idle
    <3> QED BY <2>3, <3>1 DEF EnsureSpaceReads, OnlyTask
  <2>4. CASE ShutdownEnds(t)
    <3> DEFINE r == [task[t] EXCEPT !.closing = None]
    <3>1. r.pc = task[t].pc /\ r.id = task[t].id /\ r.todo = task[t].todo
      BY <1>1 DEF TaskRecords
    <3> QED BY <2>4, <3>1 DEF ShutdownEnds, OnlyTask
  <2>5. CASE Unlock(t) \/ RestoreFails(t)
    BY <2>5, IdleTyped DEF Unlock, RestoreFails, OnlyTask
  <2>6. CASE Retire(t)
    <3>1. PICK x \in task[t].todo \cap scoped : task' = [task EXCEPT ![t] = [task[t] EXCEPT !.closing = x]]
      BY <2>6 DEF Retire
    <3>2. LET r == [task[t] EXCEPT !.closing = x]
          IN  r.pc = task[t].pc /\ r.id = task[t].id /\ r.todo = task[t].todo
      BY <1>1 DEF TaskRecords
    <3> QED BY <2>6, <3>1, <3>2 DEF Retire
  <2>7. CASE Erase(t)
    <3>1. PICK x \in task[t].todo :
            task' = [task EXCEPT ![t].todo = @ \ {x},
                                 ![t].pc = IF task[t].todo = {x} THEN "unlock" ELSE @]
      BY <2>7 DEF Erase
    <3> DEFINE r == [task[t] EXCEPT !.todo = @ \ {x},
                                    !.pc = IF task[t].todo = {x} THEN "unlock" ELSE @]
    <3>2. task' = [task EXCEPT ![t] = r]
      BY <1>1, <3>1 DEF TaskRecords
    <3>3. r.pc \notin {"install", "retire"}
      <4>1. task[t].pc = "erase"
        BY <2>7 DEF Erase
      <4>2. r.pc = IF task[t].todo = {x} THEN "unlock" ELSE task[t].pc
        BY <1>1 DEF TaskRecords
      <4> QED BY <4>1, <4>2
    <3> QED BY <2>7, <3>2, <3>3 DEF Erase
  <2>8. CASE RemoveRoot(t)
    <3> DEFINE r == [task[t] EXCEPT !.pc = "copy"]
    <3>1. r.pc = "copy"
      BY <1>1 DEF TaskRecords
    <3> QED BY <2>8, <3>1 DEF RemoveRoot
  <2>9. CASE Copy(t)
    <3> DEFINE r == [task[t] EXCEPT !.pc = "enlist"]
    <3>1. r.pc = "enlist"
      BY <1>1 DEF TaskRecords
    <3> QED BY <2>9, <3>1 DEF Copy
  <2> QED BY <2>1, <2>2, <2>3, <2>4, <2>5, <2>6, <2>7, <2>8, <2>9
<1> QED BY <1>2, ListedSame

\* What takes the lock decides by the registry as it is.
LEMMA ListedTakers ==
  ASSUME WSInv, ListedInv, NEW t \in Tasks, NEW id \in Ids,
         Switch(t, id) \/ Delete(t, id) \/ Restore(t)
  PROVE  ListedNext
<1>1. PICK r : /\ task' = [task EXCEPT ![t] = r] /\ registry' = registry
               /\ r.pc = "install" => r.id \in Registered
               /\ r.pc = "retire" => registry.active \notin r.todo
  <2>1. CASE Switch(t, id)
    <3> DEFINE r == [Idle EXCEPT !.pc = "install", !.id = id, !.closing = Closing(id)]
    <3>1. r.pc = "install" /\ r.id = id
      BY DEF Idle
    <3> QED BY <2>1, <3>1 DEF Switch, Locks
  <2>2. CASE Delete(t, id)
    <3> DEFINE r == [Idle EXCEPT !.pc = "retire", !.todo = Removals(id)]
    <3>1. r.pc = "retire" /\ r.todo = Removals(id)
      BY DEF Idle
    <3> QED BY <2>2, <3>1 DEF Delete, Locks
  <2>3. CASE Restore(t)
    <3> DEFINE r == [Idle EXCEPT !.pc = IF Existing = None THEN "copy" ELSE "remove",
                                 !.other = Existing, !.closing = Closing(Existing)]
    <3>1. r.pc \in {"copy", "remove"}
      BY DEF Idle
    <3> QED BY <2>3, <3>1 DEF Restore, Locks
  <2> QED BY <2>1, <2>2, <2>3
<1>2. Registered' = Registered
  BY <1>1 DEF Registered
<1> QED BY <1>1, <1>2, ListedMoves


LEMMA ListedRegister == ASSUME WSInv, ManifestsInv, ListedInv, NEW t \in Tasks, Register(t) PROVE ListedNext
<1>1. /\ start.pc = "up" /\ task' = [task EXCEPT ![t] = Idle]
      /\ registry' = [registry EXCEPT !.ids = Append(registry.ids, task[t].id)]
  BY BusyIsUp DEF Register
<1>2. /\ registry'.active = registry.active
      /\ registry'.ids = Append(registry.ids, task[t].id)
  BY <1>1, IdsLeave, ManifestTypes DEF WSInv, RegistryShape
<1>3. Registered \subseteq Registered'
  BY <1>1, <1>2, ManifestTypes, AppendedOnce DEF ManifestsInv, RegistryInv, Registered
<1> QED BY <1>1, <1>2, <1>3, ListedMoves, IdleTyped

LEMMA ListedInstall == ASSUME WSInv, ManifestsInv, ListedInv, NEW t \in Tasks, Install(t) PROVE ListedNext
<1> DEFINE r == [task[t] EXCEPT !.pc = "unlock", !.closing = active]
<1>1. /\ task[t].pc = "install" /\ switchLock = t /\ start.pc = "up" /\ task' = [task EXCEPT ![t] = r]
      /\ registry' = [registry EXCEPT !.active = task[t].id]
  BY DEF Install, CanUseRegistry, WSInv, ContextsInv, Locked
<1>2. r.pc = "unlock"
  BY TaskTyped DEF WSInv, TaskRecords
<1> HIDE DEF r
<1>3. ListedInv'
  BY <1>1, <1>2, ListedWrites
<1>4. registry'.active = task[t].id /\ registry'.ids = registry.ids
  BY <1>1, ManifestTypes DEF RegistryShape
<1>5. registry'.active \in Registered'
  BY <1>1, <1>4 DEF ListedInv, Registered
<1>6. RegistryLoads'
  BY <1>5 DEF RegistryLoads, Loadable, Registered, Range
<1> QED BY <1>3, <1>6 DEF ListedNext

\* A deletion spares the workspace that is active when it writes the registry.
LEMMA ListedDeregister == ASSUME WSInv, ManifestsInv, ListedInv, NEW t \in Tasks, Deregister(t) PROVE ListedNext
<1> DEFINE r == [task[t] EXCEPT !.pc = "erase"]
           kept == Without(task[t].todo)
<1>1. /\ task[t].pc = "retire" /\ switchLock = t /\ start.pc = "up" /\ Loadable
      /\ registry' = [registry EXCEPT !.ids = kept] /\ task' = [task EXCEPT ![t] = r]
  BY DEF Deregister, CanUseRegistry, WSInv, ContextsInv, Locked
<1>2. r.pc = "erase"
  BY <1>1, TaskTyped DEF TaskRecords
<1>3. Range(kept) = Registered \ task[t].todo
  BY KeptOfRegistry DEF ManifestsInv, RegistryInv
<1> HIDE DEF r, kept
<1>4. ListedInv'
  BY <1>1, <1>2, ListedWrites
<1>5. registry'.active = registry.active /\ registry'.ids = kept
  BY <1>1, IdsLeave, ManifestTypes DEF WSInv, RegistryShape
<1>6. registry.active \in Range(kept)
  BY <1>1, <1>3, LoadableIs DEF ListedInv
<1>7. RegistryLoads'
  BY <1>5, <1>6 DEF RegistryLoads, Loadable, Range
<1> QED BY <1>4, <1>7 DEF ListedNext

LEMMA ListedEnlist == ASSUME WSInv, ManifestsInv, ListedInv, NEW t \in Tasks, Enlist(t) PROVE ListedNext
<1> DEFINE gone == {task[t].other}
           kept == Without(gone)
           ids == IF Saved \in Range(kept) THEN kept ELSE Append(kept, Saved)
<1>1. /\ task[t].pc = "enlist" /\ switchLock = t /\ start.pc = "up" /\ Loadable
      /\ registry' = [registry EXCEPT !.ids = ids] /\ task' = [task EXCEPT ![t] = Idle]
  BY DEF Enlist, CanUseRegistry, WSInv, ContextsInv, Locked
<1>2. kept \in Seq(Ids) /\ Range(kept) = Registered \ gone
  BY KeptOfRegistry DEF ManifestsInv, RegistryInv
<1>3. Saved \in Ids
  BY AdoptionAssumption DEF Saved, Ids
<1> HIDE DEF kept
<1>4. Registered \ gone \subseteq Range(ids)
  BY <1>2, <1>3, AppendedOnce
<1> HIDE DEF ids
<1>5. ListedInv'
  BY <1>1, ListedWrites, IdleTyped
<1>6. registry'.active = registry.active /\ registry'.ids = ids
  BY <1>1, IdsLeave, ManifestTypes DEF WSInv, RegistryShape
<1>7. CASE task[t].other = registry.active
  BY <1>5, <1>7 DEF ListedNext, ReplacesActive
<1>8. CASE task[t].other # registry.active
  <2>1. registry.active \in Range(ids)
    BY <1>1, <1>4, <1>8, LoadableIs
  <2>2. RegistryLoads'
    BY <1>6, <2>1 DEF RegistryLoads, Loadable, Range
  <2> QED BY <1>5, <2>2 DEF ListedNext
<1> QED BY <1>7, <1>8

LEMMA ListedStep == WSInv /\ ManifestsInv /\ ListedInv /\ [WSNext]_workspaceVars => ListedNext
<1> SUFFICES ASSUME WSInv, ManifestsInv, ListedInv, [WSNext]_workspaceVars PROVE ListedNext
  OBVIOUS
<1>1. CASE StartUp \/ Crash
  BY <1>1, ListedProcess
<1>2. ASSUME NEW t \in Tasks, TaskStep(t) PROVE ListedNext
  <2>1. Saved \in Ids
    BY AdoptionAssumption DEF Saved, Ids
  <2> QED BY <1>2, <2>1, ListedTasks, ListedTakers, ListedRegister, ListedInstall, ListedDeregister, ListedEnlist
          DEF TaskStep
<1>3. CASE UNCHANGED <<registry, task>>
  BY <1>3 DEF ListedNext, ListedInv, RegistryLoads, Loadable, HasRegistry, Registered
<1>4. ASSUME NEW id \in Ids, ContextFor(id) \/ Import(id) PROVE UNCHANGED <<registry, task>>
  BY <1>4 DEF ContextFor, Import
<1> QED BY <1>1, <1>2, <1>3, <1>4 DEF WSNext, workspaceVars

\* The registry becomes one that no operation and no startup loads by one step
\* only: a restore that replaces the active workspace with its corpus. No switch,
\* deletion, crash or other operation, in whatever order they run, loses the active
\* workspace from the registry (WorkspaceRegistry, restore_managed_workspace).
THEOREM OnlyRestoresUnlist == WSSpec => UnlistedByRestoreOnly
<1>1. WSInit => ListedInv
  BY IdleTyped DEF WSInit, ListedInv
<1> QED BY <1>1, ListedStep, Invariant, ManifestsInvariant, PTL DEF WSSpec, ListedNext, UnlistedByRestoreOnly
=============================================================================
