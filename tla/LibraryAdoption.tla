--------------------------- MODULE LibraryAdoption ---------------------------
(***************************************************************************)
(* What the application does at startup before it can serve a workspace    *)
(* (initialize_workspace_registry, migrate_legacy_library,                 *)
(* crates/api/src/workspace.rs; workspace/relocation.rs): it loads the     *)
(* registry, or makes one with an empty workspace, or adopts the library   *)
(* of a release without workspaces, whose entries it moves one by one into *)
(* a new workspace. It may end between any two steps, by a crash or by an  *)
(* error, and is started again.                                            *)
(*                                                                         *)
(* Documents the user uploaded are one of the entries, and move with them: *)
(* the other entries, the roots in the settings and the manifest refer to  *)
(* them by path, which is "old" before and "new" after.                    *)
(***************************************************************************)
EXTENDS Naturals, Sequences

CONSTANTS
  None,
  Last,       \* the entries of an old library, in the order they are moved
  MaxIds,     \* bound: how many workspaces are ever made
  MaxCrashes  \* bound: how often the process ends

ASSUME AdoptionAssumption ==
  /\ Last \in Nat \ {0}
  /\ MaxIds \in Nat \ {0}
  /\ MaxCrashes \in Nat

Entries == 1..Last
Uploads == Last
Stores  == Entries \ {Uploads}

\* Workspaces are numbered as they are made; 0 is one that a backup was taken of.
Ids == 0..MaxIds

ASSUME NoneIsNoId == None \notin Ids

VARIABLES
  \* on disk
  copies,    \* the directories an entry is in: "data", "config"
  home,      \* the workspace it was moved to
  stale,     \* the stores that name uploads by their old path
  settings,  \* the roots the settings record
  plan,      \* .workspace-migration.json
  manifest,  \* the workspace.json of each workspace
  registry,  \* workspaces.json
  \* the process
  made,      \* how many ids were drawn
  start,     \* where startup is, and what it read
  crashes,
  alpha      \* auxiliary: the library there was in the beginning

legacyVars == <<copies, home, stale, settings, plan, alpha>>
adoptionVars == <<copies, home, stale, settings, plan, manifest, registry, made, start, crashes, alpha>>

Places == {"data", "config"}
Roots  == {"none", "old", "new"}
Kinds  == {"user", "corpus", "projection"}
Plans     == [id : Ids, roots : Roots, mapped : BOOLEAN]
Manifests == [kind : Kinds, parent : Ids \cup {None}, roots : Roots]
Registries == [active : Ids, ids : Seq(Ids)]
NoRegistry == [active |-> None, ids |-> <<>>]
Steps == {"plan", "move", "remap", "clear", "register", "unplan", "fresh", "up"}

Starts == [pc : Steps \cup {"down"}, id : Ids, roots : Roots, mapped : BOOLEAN,
           todo : SUBSET Entries]

ASSUME NoneIsNoPlan == None \notin Plans

Down == [pc |-> "down", id |-> 0, roots |-> "none", mapped |-> FALSE, todo |-> {}]

FilesTypeOK ==
  /\ copies \in [Entries -> SUBSET Places]
  /\ home \in [Entries -> Ids \cup {None}]
  /\ stale \in SUBSET Stores
  /\ settings \in Roots
  /\ plan \in Plans \cup {None}
  /\ manifest \in [Ids -> Manifests \cup {None}]
  /\ made \in 0..MaxIds
  /\ start \in Starts
  /\ crashes \in 0..MaxCrashes
  /\ alpha \in [entries : SUBSET Entries, roots : BOOLEAN, found : BOOLEAN]

LATypeOK == FilesTypeOK /\ registry \in Registries \cup {NoRegistry}

User(roots) == [kind |-> "user", parent |-> None, roots |-> roots]

\* contains_legacy_library asks for entries in the data directory only.
Recognised ==
  plan # None \/ (\E e \in Entries : "data" \in copies[e]) \/ settings # "none"

\* Nothing, or a library of an old release, whose entries are in the data or in
\* the configuration directory (or there are copies in both); or one that a
\* release which knew nothing of upload paths had begun to adopt.
LAInit ==
  /\ crashes = 0 /\ start = Down
  /\ registry = NoRegistry /\ manifest = [id \in Ids |-> None]
  /\ \E where \in [Entries -> SUBSET Places], roots \in {"none", "old"},
        begun, cleared \in BOOLEAN, moved \in 0..Last :
       /\ begun \/ (moved = 0 /\ ~cleared)
       /\ begun => \A e \in Entries : where[e] # Places
       /\ cleared => moved = Last
       /\ copies = [e \in Entries |-> IF e <= moved THEN {} ELSE where[e]]
       /\ home = [e \in Entries |-> IF e <= moved /\ where[e] # {} THEN 1 ELSE None]
       /\ settings = IF cleared THEN "none" ELSE roots
       /\ plan = IF begun THEN [id |-> 1, roots |-> roots, mapped |-> FALSE] ELSE None
       /\ made = IF begun THEN 1 ELSE 0
       /\ stale = {e \in Stores : where[e] # {} /\ where[Uploads] # {}}
       /\ alpha = [entries |-> {e \in Entries : where[e] # {}}, roots |-> roots # "none",
                   found |-> Recognised]

(***************************************************************************)
(* A startup that finds a registry, and one that finds nothing at all.     *)
(***************************************************************************)
HasRegistry == registry.active # None

Loadable == HasRegistry /\ \E i \in DOMAIN registry.ids : registry.ids[i] = registry.active

Load ==
  /\ start.pc = "down" /\ Loadable
  /\ start' = [start EXCEPT !.pc = "up"]
  /\ UNCHANGED <<manifest, registry, made, crashes>> /\ UNCHANGED legacyVars

MakeDefault ==
  /\ start.pc = "down" /\ ~HasRegistry /\ ~Recognised
  /\ made < MaxIds /\ made' = made + 1
  /\ manifest' = [manifest EXCEPT ![made + 1] = User("none")]
  /\ start' = [start EXCEPT !.pc = "fresh", !.id = made + 1]
  /\ UNCHANGED <<registry, crashes>> /\ UNCHANGED legacyVars

RegisterDefault ==
  /\ start.pc = "fresh"
  /\ registry' = [active |-> start.id, ids |-> <<start.id>>]
  /\ start' = [Down EXCEPT !.pc = "up"]
  /\ UNCHANGED <<manifest, made, crashes>> /\ UNCHANGED legacyVars

(***************************************************************************)
(* Adoption. A plan that an interrupted startup left is taken over; what   *)
(* it has not moved yet is found by looking. An entry that is in both      *)
(* directories is refused before anything is written.                      *)
(***************************************************************************)
Ambiguous == \E e \in Entries : Places \subseteq copies[e]

Unmoved_Everything == {e \in Entries : copies[e] # {} \/ home[e] # None}
Unmoved == {e \in Entries : copies[e] # {}}

\* relocation::plan: there are uploads, or there are moved ones.
Relocates(id) == copies[Uploads] # {} \/ home[Uploads] = id

Remapped(roots, mapped) == IF mapped /\ roots = "old" THEN "new" ELSE roots

Adopt(id, roots, mapped) ==
  /\ start.pc = "down" /\ ~HasRegistry /\ Recognised /\ ~Ambiguous
  /\ start' = [pc |-> "plan", id |-> id, roots |-> Remapped(roots, mapped),
               mapped |-> mapped, todo |-> Unmoved]
  /\ UNCHANGED <<manifest, registry, crashes>> /\ UNCHANGED legacyVars

BeginAdoption ==
  /\ plan = None
  /\ made < MaxIds /\ made' = made + 1
  /\ Adopt(made + 1, settings, Relocates(made + 1))

ResumeAdoption_Anew ==
  /\ plan # None
  /\ made < MaxIds /\ made' = made + 1
  /\ Adopt(made + 1, plan.roots, Relocates(made + 1))
ResumeAdoption_AsPlanned ==
  /\ plan # None /\ UNCHANGED made
  /\ Adopt(plan.id, plan.roots, plan.mapped)
ResumeAdoption ==
  /\ plan # None /\ UNCHANGED made
  /\ Adopt(plan.id, plan.roots, plan.mapped \/ Relocates(plan.id))

WritePlan ==
  /\ start.pc = "plan"
  /\ plan' = [id |-> start.id, roots |-> start.roots, mapped |-> start.mapped]
  /\ start' = [start EXCEPT !.pc = "move"]
  /\ UNCHANGED <<copies, home, stale, settings, alpha, manifest, registry, made, crashes>>

\* An entry is never moved over another one.
MoveEntry ==
  /\ start.pc = "move"
  /\ \E e \in start.todo :
       /\ \A f \in start.todo : e <= f
       /\ IF home[e] = start.id
          THEN start' = Down /\ UNCHANGED <<copies, home>>
          ELSE /\ copies' = [copies EXCEPT ![e] = {}]
               /\ home' = [home EXCEPT ![e] = start.id]
               /\ start' = [start EXCEPT !.todo = @ \ {e}]
  /\ UNCHANGED <<stale, settings, plan, alpha, manifest, registry, made, crashes>>

EndMoves ==
  /\ start.pc = "move" /\ start.todo = {}
  /\ start' = [start EXCEPT !.pc = "remap",
       !.todo = IF start.mapped THEN {e \in Stores : home[e] = start.id} ELSE {}]
  /\ UNCHANGED <<manifest, registry, made, crashes>> /\ UNCHANGED legacyVars

\* One transaction, or one file replaced, per store.
RemapStore ==
  /\ start.pc = "remap"
  /\ \E e \in start.todo :
       /\ \A f \in start.todo : e <= f
       /\ stale' = stale \ {e}
       /\ start' = [start EXCEPT !.todo = @ \ {e}]
  /\ UNCHANGED <<copies, home, settings, plan, alpha, manifest, registry, made, crashes>>

WriteManifest ==
  /\ start.pc = "remap" /\ start.todo = {}
  /\ manifest' = [manifest EXCEPT ![start.id] = User(start.roots)]
  /\ start' = [start EXCEPT !.pc = "clear"]
  /\ UNCHANGED <<registry, made, crashes>> /\ UNCHANGED legacyVars

ClearSettings ==
  /\ start.pc = "clear"
  /\ settings' = "none"
  /\ start' = [start EXCEPT !.pc = "register"]
  /\ UNCHANGED <<copies, home, stale, plan, alpha, manifest, registry, made, crashes>>

\* The registry makes the workspace real.
RegisterAdopted ==
  /\ start.pc = "register"
  /\ registry' = [active |-> start.id, ids |-> <<start.id>>]
  /\ start' = [start EXCEPT !.pc = "unplan"]
  /\ UNCHANGED <<manifest, made, crashes>> /\ UNCHANGED legacyVars

RemovePlan ==
  /\ start.pc = "unplan"
  /\ plan' = None
  /\ start' = [Down EXCEPT !.pc = "up"]
  /\ UNCHANGED <<copies, home, stale, settings, alpha, manifest, registry, made, crashes>>

StartupStep ==
  \/ Load \/ MakeDefault \/ RegisterDefault
  \/ BeginAdoption \/ ResumeAdoption \/ WritePlan
  \/ MoveEntry \/ EndMoves \/ RemapStore
  \/ WriteManifest \/ ClearSettings \/ RegisterAdopted \/ RemovePlan

\* The process ends, or a step of startup fails: what was written stays.
Stop ==
  /\ start.pc # "down"
  /\ crashes < MaxCrashes /\ crashes' = crashes + 1
  /\ start' = Down
  /\ UNCHANGED <<manifest, registry, made>> /\ UNCHANGED legacyVars

(***************************************************************************)
(* Properties.                                                             *)
(***************************************************************************)
\* When the registry is made, an old library that was found is wholly in the one
\* workspace it names: no entry is left behind or in another workspace, no store
\* refers to an upload by the path it no longer has, and the manifest has the
\* roots the settings had, by the paths they have now; however often startup was
\* interrupted, and also when an older release began it (migrate_legacy_library).
AdoptsWhole ==
  [][~HasRegistry /\ HasRegistry' /\ alpha.found =>
       LET id == registry'.active
       IN  /\ \A e \in alpha.entries : copies'[e] = {} /\ home'[e] = id
           /\ stale' = {}
           /\ manifest'[id] =
                User(Remapped(IF alpha.roots THEN "old" ELSE "none", Uploads \in alpha.entries))
           /\ settings' = "none"]_adoptionVars

\* Until there is a registry, what has moved is in the workspace that the plan
\* names: a library is never split over two (MigrationPlan).
NeverSplit ==
  ~HasRegistry =>
    \A e \in Entries : home[e] # None => plan # None /\ plan.id = home[e] /\ copies[e] = {}
=============================================================================
