------------------------------ MODULE Workspaces ------------------------------
(***************************************************************************)
(* The workspace manager (WorkspaceManager, crates/api/src/workspace.rs):  *)
(* the registry of workspaces and their directories on disk, the contexts  *)
(* open for them, and the operations that make, switch, delete and restore *)
(* workspaces, which run concurrently and are cut short by crashes.        *)
(* LibraryAdoption brings the application up.                              *)
(*                                                                         *)
(* One application keeps one managed corpus, with projections into one     *)
(* embedding space; there is a backup of the corpus 0.                     *)
(***************************************************************************)
EXTENDS LibraryAdoption, Functions, FiniteSets

CONSTANT Tasks  \* the operations that can be under way at once

ASSUME NoneIsNoTask == None \notin Tasks

\* A manifest that is missing or cannot be read.
ASSUME NoneIsNoManifest == None \notin Manifests

VARIABLES
  docs,        \* the managed workspaces whose index holds documents
  active,      \* the workspace of the active context
  scoped,      \* the workspaces with a context although they are not active
  switchLock,  \* the task that holds it
  task,
  torn         \* auxiliary: registered workspaces whose directory a restore removed

managerVars == <<docs, active, scoped, switchLock, task, torn>>
workspaceVars == <<copies, home, stale, settings, plan, manifest, registry, made, start, crashes, alpha,
                   docs, active, scoped, switchLock, task, torn>>

Saved == 0

\* A task works on the workspace id; other is the one a restore replaces; closing
\* is the context whose shutdown it awaits.
Idle == [pc |-> "idle", id |-> 0, other |-> None, todo |-> {}, closing |-> None]
TaskPcs == {"idle", "register", "space", "install", "unlock", "retire", "erase", "remove",
            "copy", "enlist"}

ContextsTypeOK ==
  /\ docs \in SUBSET Ids
  /\ active \in Ids \cup {None}
  /\ scoped \in SUBSET Ids
  /\ switchLock \in Tasks \cup {None}
  /\ task \in [Tasks -> [pc : TaskPcs, id : Ids, other : Ids \cup {None}, todo : SUBSET Ids,
                         closing : Ids \cup {None}]]
  /\ torn \in SUBSET Ids

WSTypeOK == LATypeOK /\ ContextsTypeOK /\ IsInjective(registry.ids)

WSInit ==
  /\ LAInit
  /\ docs = {} /\ active = None /\ scoped = {}
  /\ switchLock = None /\ task = [t \in Tasks |-> Idle] /\ torn = {}

(***************************************************************************)
(* The process.                                                            *)
(***************************************************************************)
\* WorkspaceManager::new opens a context for the active workspace.
StartUp ==
  /\ StartupStep
  /\ active' = IF start'.pc = "up" THEN registry'.active ELSE None
  /\ UNCHANGED <<docs, scoped, switchLock, task, torn>>

Crash ==
  /\ Stop
  /\ active' = None /\ scoped' = {}
  /\ switchLock' = None /\ task' = [t \in Tasks |-> Idle]
  /\ UNCHANGED <<docs, torn>>

(***************************************************************************)
(* The registry. registry_lock is held from the manifest's write to the    *)
(* registry's; the other uses of it are single steps, and fail when the    *)
(* registry does not load.                                                 *)
(***************************************************************************)
CanUseRegistry ==
  /\ start.pc = "up" /\ Loadable
  /\ \A t \in Tasks : task[t].pc # "register"

Registered == Range(registry.ids)

\* The managed workspaces, in the order of the registry, that a search of it
\* meets first; a manifest that cannot be read ends the search.
FirstOf(ids) ==
  LET first == {id \in ids : \E i \in DOMAIN registry.ids :
                  registry.ids[i] = id /\ \A k \in 1..(i - 1) : registry.ids[k] \notin ids}
  IN  IF first = {} THEN None ELSE CHOOSE id \in first : TRUE

Unreadable == {id \in Ids : manifest[id] = None}
OfKind(kinds) == {id \in Ids : manifest[id] # None /\ manifest[id].kind \in kinds}
ProjectionsOf(id) == {p \in OfKind({"projection"}) : manifest[p].parent = id}

OthersRest == UNCHANGED <<copies, home, stale, settings, plan, alpha, start, crashes>>
OnlyTask   == OthersRest /\ UNCHANGED <<manifest, registry, made, docs, active, scoped, torn>>

\* A new workspace: its manifest, and then the registry.
WriteNew(t, kind, parent) ==
  /\ made < MaxIds /\ made' = made + 1
  /\ manifest' = [manifest EXCEPT ![made + 1] =
                    [kind |-> kind, parent |-> parent, roots |-> "none"]]
  /\ task' = [task EXCEPT ![t] = [Idle EXCEPT !.pc = "register", !.id = made + 1]]
  /\ OthersRest
  /\ UNCHANGED <<registry, docs, active, scoped, switchLock, torn>>

Create(t) ==
  /\ task[t].pc = "idle" /\ CanUseRegistry
  /\ WriteNew(t, "user", None)

EnsureManagedWorkspace(t) ==
  /\ task[t].pc = "idle" /\ CanUseRegistry
  /\ FirstOf(Unreadable \cup OfKind({"corpus"})) = None
  /\ WriteNew(t, "corpus", None)

\* ensure_managed_space reads the corpus' manifest without a lock.
EnsureSpaceReads(t, corpus) ==
  /\ task[t].pc = "idle" /\ start.pc = "up"
  /\ corpus \in OfKind({"corpus"})
  /\ task' = [task EXCEPT ![t] = [Idle EXCEPT !.pc = "space", !.id = corpus]]
  /\ OnlyTask /\ UNCHANGED switchLock

EnsureSpace(t) ==
  /\ task[t].pc = "space" /\ \A u \in Tasks : task[u].pc # "register"
  /\ IF Loadable /\ FirstOf(Unreadable \cup ProjectionsOf(task[t].id)) = None
     THEN WriteNew(t, "projection", task[t].id)
     ELSE /\ task' = [task EXCEPT ![t] = Idle]
          /\ OnlyTask /\ UNCHANGED switchLock

Register(t) ==
  /\ task[t].pc = "register"
  /\ registry' = [registry EXCEPT !.ids = Append(@, task[t].id)]
  /\ task' = [task EXCEPT ![t] = Idle]
  /\ OthersRest
  /\ UNCHANGED <<manifest, made, docs, active, scoped, switchLock, torn>>

(***************************************************************************)
(* Contexts. switch_lock is held from the decision to the end of an        *)
(* operation, across the shutdowns it awaits.                              *)
(***************************************************************************)
\* A request for a workspace that is not active opens it, without activating it.
ContextFor(id) ==
  /\ switchLock = None /\ CanUseRegistry
  /\ id \in Registered \ {registry.active} /\ id \notin scoped
  /\ scoped' = scoped \cup {id}
  /\ OthersRest
  /\ UNCHANGED <<manifest, registry, made, docs, active, switchLock, task, torn>>

\* An import through an open context; catch_up_projection imports into projections.
Import(id) ==
  /\ id \in scoped \cup {active} /\ id \in OfKind({"corpus", "projection"})
  /\ id \notin docs /\ docs' = docs \cup {id}
  /\ OthersRest
  /\ UNCHANGED <<manifest, registry, made, active, scoped, switchLock, task, torn>>

\* The context that serves id, if any, leaves the map and is shut down.
Locks(t, step) ==
  /\ task[t].pc = "idle" /\ switchLock = None /\ switchLock' = t
  /\ CanUseRegistry
  /\ task' = [task EXCEPT ![t] = step]
  /\ OthersRest /\ UNCHANGED <<manifest, registry, made, docs, active, torn>>
Retires(id) == scoped' = scoped \ {id}
Closing(id) == IF id \in scoped THEN id ELSE None

ShutdownEnds(t) ==
  /\ task[t].closing # None
  /\ task' = [task EXCEPT ![t].closing = None]
  /\ OnlyTask /\ UNCHANGED switchLock

Unlock(t) ==
  /\ task[t].pc = "unlock" /\ task[t].closing = None
  /\ switchLock' = None
  /\ task' = [task EXCEPT ![t] = Idle]
  /\ OnlyTask

Switch_KeepsScoped(t, id) ==
  /\ id \in Registered \ {registry.active}
  /\ Locks(t, [Idle EXCEPT !.pc = "install", !.id = id])
  /\ UNCHANGED scoped
Switch(t, id) ==
  /\ id \in Registered \ {registry.active}
  /\ Locks(t, [Idle EXCEPT !.pc = "install", !.id = id, !.closing = Closing(id)])
  /\ Retires(id)

Install(t) ==
  /\ task[t].pc = "install" /\ task[t].closing = None
  /\ CanUseRegistry
  /\ registry' = [registry EXCEPT !.active = task[t].id]
  /\ active' = task[t].id
  /\ task' = [task EXCEPT ![t].pc = "unlock", ![t].closing = active]
  /\ OthersRest
  /\ UNCHANGED <<manifest, made, docs, scoped, switchLock, torn>>

(***************************************************************************)
(* Deletion: contexts first, registry second, files last. Removing a       *)
(* directory may fail, which leaves it to nobody.                          *)
(***************************************************************************)
Removals(id) == {id} \cup (ProjectionsOf(id) \cap Registered)

Delete(t, id) ==
  /\ id \in Registered
  /\ Registered \cap Unreadable = {}
  /\ registry.active \notin Removals(id)
  /\ Locks(t, [Idle EXCEPT !.pc = "retire", !.todo = Removals(id)])
  /\ UNCHANGED scoped

Retire(t) ==
  /\ task[t].pc = "retire" /\ task[t].closing = None
  /\ \E id \in task[t].todo \cap scoped :
       /\ Retires(id)
       /\ task' = [task EXCEPT ![t].closing = id]
  /\ OthersRest
  /\ UNCHANGED <<manifest, registry, made, docs, active, switchLock, torn>>

\* retain: the n-th workspace that stays is the one with n of them up to it.
Without(gone) ==
  LET kept     == {i \in DOMAIN registry.ids : registry.ids[i] \notin gone}
      place(i) == Cardinality({k \in kept : k <= i})
  IN  [n \in 1..Cardinality(kept) |-> registry.ids[CHOOSE i \in kept : place(i) = n]]

Deregister_FilesFirst(t) ==
  /\ task[t].pc = "retire" /\ task[t].closing = None
  /\ task[t].todo \cap scoped = {}
  /\ CanUseRegistry
  /\ manifest' = [id \in Ids |-> IF id \in task[t].todo THEN None ELSE manifest[id]]
  /\ task' = [task EXCEPT ![t].pc = "unlock"]
  /\ OthersRest
  /\ UNCHANGED <<registry, made, docs, active, scoped, switchLock, torn>>
Deregister(t) ==
  /\ task[t].pc = "retire" /\ task[t].closing = None
  /\ task[t].todo \cap scoped = {}
  /\ CanUseRegistry
  /\ registry' = [registry EXCEPT !.ids = Without(task[t].todo)]
  /\ task' = [task EXCEPT ![t].pc = "erase"]
  /\ OthersRest
  /\ UNCHANGED <<manifest, made, docs, active, scoped, switchLock, torn>>

Erase(t) ==
  /\ task[t].pc = "erase"
  /\ \E id \in task[t].todo, removed \in BOOLEAN :
       /\ IF removed THEN manifest' = [manifest EXCEPT ![id] = None] /\ docs' = docs \ {id}
                     ELSE UNCHANGED <<manifest, docs>>
       /\ task' = [task EXCEPT ![t].todo = @ \ {id},
                               ![t].pc = IF task[t].todo = {id} THEN "unlock" ELSE @]
  /\ OthersRest
  /\ UNCHANGED <<registry, made, active, scoped, switchLock, torn>>

(***************************************************************************)
(* Restoring the backup of a corpus. The managed workspace it replaces is  *)
(* the first one of the application, and must be empty.                    *)
(***************************************************************************)
Existing == FirstOf(OfKind({"corpus", "projection"}))

Restore(t) ==
  /\ Existing \notin docs
  /\ Locks(t, [Idle EXCEPT !.pc = IF Existing = None THEN "copy" ELSE "remove",
                           !.other = Existing, !.closing = Closing(Existing)])
  /\ Retires(Existing)

RemoveRoot(t) ==
  /\ task[t].pc = "remove" /\ task[t].closing = None
  /\ manifest' = [manifest EXCEPT ![task[t].other] = None]
  /\ docs' = docs \ {task[t].other}
  /\ torn' = torn \cup {task[t].other}
  /\ task' = [task EXCEPT ![t].pc = "copy"]
  /\ OthersRest
  /\ UNCHANGED <<registry, made, active, scoped, switchLock>>

\* The directory cannot be removed, the corpus is there already, or the backup
\* cannot be copied or verified.
RestoreFails(t) ==
  /\ task[t].pc \in {"remove", "copy"} /\ task[t].closing = None
  /\ switchLock' = None
  /\ task' = [task EXCEPT ![t] = Idle]
  /\ OnlyTask

\* Staged, verified and renamed into place. The backup may be of an empty corpus.
Copy(t) ==
  /\ task[t].pc = "copy" /\ manifest[Saved] = None
  /\ manifest' = [manifest EXCEPT ![Saved] =
                    [kind |-> "corpus", parent |-> None, roots |-> "none"]]
  /\ docs' \in {docs, docs \cup {Saved}}
  /\ torn' = torn \ {Saved}
  /\ task' = [task EXCEPT ![t].pc = "enlist"]
  /\ OthersRest
  /\ UNCHANGED <<registry, made, active, scoped, switchLock>>

Enlist_Appends(t) ==
  /\ task[t].pc = "enlist" /\ CanUseRegistry
  /\ registry' = [registry EXCEPT !.ids = Append(Without({task[t].other}), Saved)]
  /\ torn' = torn \ {task[t].other}
  /\ switchLock' = None
  /\ task' = [task EXCEPT ![t] = Idle]
  /\ OthersRest
  /\ UNCHANGED <<manifest, made, docs, active, scoped>>
Enlist(t) ==
  /\ task[t].pc = "enlist" /\ CanUseRegistry
  /\ LET kept == Without({task[t].other})
     IN  registry' = [registry EXCEPT !.ids =
           IF Saved \in Range(kept) THEN kept ELSE Append(kept, Saved)]
  /\ torn' = torn \ {task[t].other}
  /\ switchLock' = None
  /\ task' = [task EXCEPT ![t] = Idle]
  /\ OthersRest
  /\ UNCHANGED <<manifest, made, docs, active, scoped>>

TaskStep(t) ==
  \/ Create(t) \/ EnsureManagedWorkspace(t) \/ EnsureSpace(t) \/ Register(t)
  \/ ShutdownEnds(t) \/ Unlock(t) \/ Install(t)
  \/ Retire(t) \/ Deregister(t) \/ Erase(t)
  \/ Restore(t) \/ RemoveRoot(t) \/ RestoreFails(t) \/ Copy(t) \/ Enlist(t)
  \/ \E id \in Ids : EnsureSpaceReads(t, id) \/ Switch(t, id) \/ Delete(t, id)

WSNext ==
  \/ StartUp \/ Crash
  \/ \E t \in Tasks : TaskStep(t)
  \/ \E id \in Ids : ContextFor(id) \/ Import(id)

WSSpec == WSInit /\ [][WSNext]_workspaceVars

\* The user starts the application again, and its startup runs by itself.
Fairness == WF_workspaceVars(StartUp)

(***************************************************************************)
(* Properties.                                                             *)
(***************************************************************************)
\* No workspace is served by two contexts, counting those that are being shut
\* down: its databases are never held by two at once (scoped, switch).
OneContextEach ==
  /\ active \notin scoped
  /\ \A t \in Tasks : task[t].closing # None =>
       /\ task[t].closing \notin scoped \cup {active}
       /\ \A u \in Tasks \ {t} : task[u].closing # task[t].closing

\* A registered workspace has its manifest, which every listing reads, in every
\* state a crash can leave; but for those whose directory a restore removed
\* (delete: "contexts first, registry second, files last").
NamesManifests ==
  \A id \in Registered : manifest[id] # None \/ id \in torn

\* Startup gives up: an entry exists twice, or the registry cannot be loaded.
Refused == IF ~HasRegistry THEN plan = None /\ Ambiguous ELSE ~Loadable

\* Whatever step the last process ended at, the application comes up again unless
\* its state is one it refuses (initialize_workspace_registry).
StartsAgain == start.pc = "down" ~> start.pc = "up" \/ Refused

\* The active workspace is registered: load_registry refuses any other registry,
\* and with it every operation and every later startup.
RegistryLoads == HasRegistry => Loadable
=============================================================================
