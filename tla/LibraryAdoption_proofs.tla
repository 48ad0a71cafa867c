------------------------ MODULE LibraryAdoption_proofs ------------------------
(***************************************************************************)
(* The invariant of startup and of the adoption of an old library: what is *)
(* on disk, and what a startup under way has read, at each of its steps.   *)
(* Each step of startup keeps it, and so does the end of the process.      *)
(***************************************************************************)
EXTENDS LibraryAdoption, TLAPS

RegistryShape ==
  /\ registry = [active |-> registry.active, ids |-> registry.ids]
  /\ registry.active \in Ids \cup {None}

AdoptionTypes == FilesTypeOK /\ RegistryShape

\* The roots the adopting workspace must end up with.
AlphaRoots == Remapped(IF alpha.roots THEN "old" ELSE "none", Uploads \in alpha.entries)

Ending  == {"remap", "clear", "register"}
Planned == {"move"} \cup Ending

\* Every entry there was is somewhere, and what has moved is in the planned workspace.
EntriesKept ==
  /\ \A e \in Entries : e \in alpha.entries <=> copies[e] # {} \/ home[e] # None
  /\ \A e \in Entries : home[e] # None => plan # None /\ plan.id = home[e] /\ copies[e] = {}
  /\ stale \subseteq alpha.entries
  /\ stale # {} => Uploads \in alpha.entries

\* The settings or the plan know the roots, and a plan never says more of the
\* uploads than is true.
RootsKept ==
  /\ plan = None => settings = IF alpha.roots THEN "old" ELSE "none"
  /\ plan # None =>
       /\ plan.mapped => Uploads \in alpha.entries
       /\ plan.roots \in {"old", "new"} <=> alpha.roots
       /\ plan.roots = "new" => Uploads \in alpha.entries
  /\ alpha.found => Recognised

\* What a startup that adopts has read and has done.
AdoptionKnows ==
  /\ start.pc \in {"plan"} \cup Planned =>
       /\ start.mapped = (Uploads \in alpha.entries)
       /\ start.roots = AlphaRoots
  /\ start.pc \in Planned =>
       plan = [id |-> start.id, roots |-> start.roots, mapped |-> start.mapped]
  /\ start.pc = "plan" /\ plan # None => plan.id = start.id
  /\ start.pc \in {"plan", "move"} => start.todo = Unmoved
  /\ start.pc \in Ending => \A e \in Entries : copies[e] = {}
  /\ start.pc = "remap" => stale \subseteq start.todo
  /\ start.pc \in {"clear", "register"} => stale = {} /\ manifest[start.id] = User(start.roots)
  /\ start.pc = "register" => settings = "none"
  /\ start.pc = "fresh" => ~alpha.found

\* The registry exists exactly when the application is up or about to be.
RegistryLast ==
  /\ start.pc \in {"unplan", "up"} => HasRegistry
  /\ start.pc \in {"plan", "fresh"} \cup Planned => ~HasRegistry

AdoptionInv ==
  /\ AdoptionTypes
  /\ RegistryLast
  /\ ~HasRegistry => EntriesKept /\ RootsKept /\ AdoptionKnows

USE AdoptionAssumption, NoneIsNoId, NoneIsNoPlan

LEMMA NewId == made \in 0..MaxIds /\ made < MaxIds => made + 1 \in Ids /\ made + 1 \in 0..MaxIds
  BY DEF Ids

LEMMA DownTyped ==
  /\ Down \in Starts /\ Down.pc = "down"
  /\ [Down EXCEPT !.pc = "up"] \in Starts /\ [Down EXCEPT !.pc = "up"].pc = "up"
<1>1. Down \in Starts /\ Down.pc = "down"
  BY DEF Down, Starts, Roots, Ids
<1>2. "up" \in Steps
  BY DEF Steps
<1>3. \A s \in Starts : [s EXCEPT !.pc = "up"] \in Starts /\ [s EXCEPT !.pc = "up"].pc = "up"
  BY <1>2 DEF Starts
<1> QED
  BY <1>1, <1>3

LEMMA AdoptionInit == LAInit => AdoptionInv
<1> SUFFICES ASSUME LAInit PROVE AdoptionInv
  OBVIOUS
<1>1. PICK where \in [Entries -> SUBSET Places], roots \in {"none", "old"},
           begun \in BOOLEAN, cleared \in BOOLEAN, moved \in 0..Last :
       /\ begun \/ (moved = 0 /\ ~cleared)
       /\ begun => \A e \in Entries : where[e] # Places
       /\ cleared => moved = Last
       /\ copies = [e \in Entries |-> IF e <= moved THEN {} ELSE where[e]]
       /\ home = [e \in Entries |-> IF e <= moved /\ where[e] # {} THEN 1 ELSE None]
       /\ settings = IF cleared THEN "none" ELSE roots
       /\ plan = IF begun THEN [id |-> 1, roots |-> roots, mapped |-> FALSE] ELSE None
       /\ made = IF begun THEN 1 ELSE 0
       /\ stale = {e \in Stores : where[e] # {} /\ where[Uploads] # {}}
       /\ alpha = [entries |-> {e \in Entries : where[e] # {}}, roots |-> roots # "none",
                   found |-> Recognised]
  BY DEF LAInit
<1>2. crashes = 0 /\ start = Down /\ registry = NoRegistry /\ manifest = [id \in Ids |-> None]
  BY DEF LAInit
<1>3. 0 \in Ids /\ 1 \in Ids /\ Entries \subseteq Nat /\ Uploads \in Entries
  BY DEF Ids, Entries, Uploads
<1>4. Recognised \in BOOLEAN
  BY DEF Recognised
<1>5. plan # None <=> begun
  <2>1. [id |-> 1, roots |-> roots, mapped |-> FALSE] \in Plans
    BY <1>1, <1>3 DEF Plans, Roots
  <2> QED
    BY <1>1, <2>1
<1>6. FilesTypeOK
  BY <1>1, <1>2, <1>3, <1>4 DEF FilesTypeOK, Down, Starts, Places, Roots, Plans, Steps, Stores
<1>7. RegistryShape /\ ~HasRegistry
  BY <1>2 DEF RegistryShape, NoRegistry, HasRegistry
<1>8. EntriesKept
  <2>1. \A e \in Entries : e \in alpha.entries <=> copies[e] # {} \/ home[e] # None
    BY <1>1, <1>3
  <2>2. \A e \in Entries : home[e] # None => plan # None /\ plan.id = home[e] /\ copies[e] = {}
    <3>1. ASSUME NEW e \in Entries, home[e] # None
          PROVE  e <= moved /\ home[e] = 1 /\ copies[e] = {}
      BY <1>1, <3>1
    <3>2. ASSUME NEW e \in Entries, e <= moved PROVE begun
      BY <1>1, <1>3, <3>2 DEF Entries
    <3> QED
      BY <1>1, <1>5, <3>1, <3>2
  <2>3. stale \subseteq alpha.entries /\ (stale # {} => Uploads \in alpha.entries)
    BY <1>1, <1>3 DEF Stores
  <2> QED
    BY <2>1, <2>2, <2>3 DEF EntriesKept
<1>9. RootsKept
  <2>1. plan = None => settings = IF alpha.roots THEN "old" ELSE "none"
    BY <1>1, <1>5
  <2>2. CASE plan # None
    <3>1. plan.mapped = FALSE /\ plan.roots = roots
      BY <1>1, <2>2
    <3>2. alpha.roots = (roots # "none") /\ alpha.found = Recognised
      BY <1>1
    <3> QED
      BY <1>1, <2>1, <3>1, <3>2 DEF RootsKept
  <2>3. CASE plan = None
    BY <1>1, <2>1, <2>3 DEF RootsKept
  <2> QED
    BY <2>2, <2>3
<1>10. AdoptionKnows
  BY <1>2 DEF AdoptionKnows, Down, Planned, Ending
<1> QED
  BY <1>2, <1>6, <1>7, <1>8, <1>9, <1>10 DEF AdoptionInv, AdoptionTypes, RegistryLast, Down, Planned, Ending


(***************************************************************************)
(* A step that leaves the library, the settings and the plan alone keeps   *)
(* what is said of them.                                                   *)
(***************************************************************************)
LEMMA LibraryLeftAlone ==
  ASSUME UNCHANGED legacyVars, EntriesKept, RootsKept
  PROVE  EntriesKept' /\ RootsKept'
BY DEF legacyVars, EntriesKept, RootsKept, Recognised

LEMMA RegistryShapeKept == RegistryShape /\ UNCHANGED registry => RegistryShape' /\ HasRegistry' = HasRegistry
BY DEF RegistryShape, HasRegistry

LEMMA LoadKeeps == AdoptionInv /\ Load => AdoptionInv'
<1> SUFFICES ASSUME AdoptionInv, Load PROVE AdoptionInv'
  OBVIOUS
<1> USE DEF AdoptionInv, Load
<1>1. AdoptionTypes'
  BY RegistryShapeKept DEF AdoptionTypes, FilesTypeOK, Starts, legacyVars, Steps
<1>2. HasRegistry /\ HasRegistry'
  BY RegistryShapeKept DEF Loadable, AdoptionTypes
<1>3. start'.pc = "up"
  BY DEF AdoptionTypes, FilesTypeOK, Starts
<1> QED
  BY <1>1, <1>2, <1>3 DEF RegistryLast, Planned, Ending

LEMMA MakeDefaultKeeps == AdoptionInv /\ MakeDefault => AdoptionInv'
<1> SUFFICES ASSUME AdoptionInv, MakeDefault PROVE AdoptionInv'
  OBVIOUS
<1> USE DEF AdoptionInv, MakeDefault
<1>1. User("none") \in Manifests
  BY DEF User, Manifests, Kinds, Roots
<1>2. AdoptionTypes'
  BY <1>1, NewId, RegistryShapeKept DEF AdoptionTypes, FilesTypeOK, Starts, legacyVars, Steps
<1>3. ~HasRegistry /\ ~HasRegistry'
  BY RegistryShapeKept DEF AdoptionTypes
<1>4. start'.pc = "fresh"
  BY DEF AdoptionTypes, FilesTypeOK, Starts
<1>5. EntriesKept' /\ RootsKept'
  BY <1>3, LibraryLeftAlone
<1>6. ~alpha'.found
  BY <1>3 DEF RootsKept, legacyVars
<1>7. AdoptionKnows'
  BY <1>4, <1>6 DEF AdoptionKnows, Planned, Ending
<1> QED
  BY <1>2, <1>3, <1>4, <1>5, <1>7 DEF RegistryLast, Planned, Ending

LEMMA RegisterDefaultKeeps == AdoptionInv /\ RegisterDefault => AdoptionInv' /\ HasRegistry'
<1> SUFFICES ASSUME AdoptionInv, RegisterDefault PROVE AdoptionInv' /\ HasRegistry'
  OBVIOUS
<1> USE DEF AdoptionInv, RegisterDefault
<1>1. start.id \in Ids
  BY DEF AdoptionTypes, FilesTypeOK, Starts
<1>2. RegistryShape' /\ HasRegistry'
  BY <1>1 DEF RegistryShape, HasRegistry
<1>3. FilesTypeOK'
  BY DownTyped DEF AdoptionTypes, FilesTypeOK, legacyVars
<1>4. start'.pc = "up"
  BY DownTyped
<1> QED
  BY <1>2, <1>3, <1>4 DEF AdoptionTypes, RegistryLast, Planned, Ending

(***************************************************************************)
(* What a startup reads when it begins or resumes an adoption.             *)
(***************************************************************************)
LEMMA AdoptKeeps ==
  ASSUME AdoptionInv, made' \in 0..MaxIds,
         NEW id \in Ids, NEW roots \in Roots, NEW mapped \in BOOLEAN,
         Adopt(id, roots, mapped),
         plan # None => plan.id = id,
         mapped = (Uploads \in alpha.entries),
         Remapped(roots, mapped) = AlphaRoots
  PROVE  AdoptionInv'
<1> USE DEF AdoptionInv, Adopt
<1>1. start' = [pc |-> "plan", id |-> id, roots |-> AlphaRoots, mapped |-> mapped, todo |-> Unmoved]
  OBVIOUS
<1>2. AlphaRoots \in Roots /\ Unmoved \in SUBSET Entries
  BY DEF Remapped, AlphaRoots, Roots, Unmoved
<1>3. AdoptionTypes'
  BY <1>1, <1>2, RegistryShapeKept DEF AdoptionTypes, FilesTypeOK, Starts, legacyVars, Steps
<1>4. ~HasRegistry /\ ~HasRegistry'
  BY RegistryShapeKept DEF AdoptionTypes
<1>5. EntriesKept' /\ RootsKept'
  BY <1>4, LibraryLeftAlone
<1>6. AdoptionKnows'
  BY <1>1 DEF AdoptionKnows, Planned, Ending, Unmoved, AlphaRoots, legacyVars
<1> QED
  BY <1>1, <1>3, <1>4, <1>5, <1>6 DEF RegistryLast, Planned, Ending

LEMMA BeginAdoptionKeeps == AdoptionInv /\ BeginAdoption => AdoptionInv'
<1> SUFFICES ASSUME AdoptionInv, BeginAdoption PROVE AdoptionInv'
  OBVIOUS
<1> USE DEF AdoptionInv, BeginAdoption
<1>1. made + 1 \in Ids /\ made' \in 0..MaxIds
  BY NewId DEF AdoptionTypes, FilesTypeOK
<1>2. EntriesKept /\ RootsKept
  BY DEF Adopt
<1>3. Uploads \in Entries
  BY DEF Uploads, Entries
<1>4. \A e \in Entries : home[e] = None
  BY <1>2 DEF EntriesKept
<1>5. Relocates(made + 1) = (Uploads \in alpha.entries)
  BY <1>1, <1>2, <1>3, <1>4 DEF Relocates, EntriesKept
<1>6. Remapped(settings, Relocates(made + 1)) = AlphaRoots
  BY <1>2, <1>5 DEF RootsKept, Remapped, AlphaRoots
<1>7. settings \in Roots /\ Relocates(made + 1) \in BOOLEAN
  BY DEF AdoptionTypes, FilesTypeOK, Relocates
<1> QED
  BY <1>1, <1>5, <1>6, <1>7, AdoptKeeps

LEMMA ResumeAdoptionKeeps == AdoptionInv /\ ResumeAdoption => AdoptionInv'
<1> SUFFICES ASSUME AdoptionInv, ResumeAdoption PROVE AdoptionInv'
  OBVIOUS
<1> USE DEF AdoptionInv, ResumeAdoption
<1> DEFINE mapped == plan.mapped \/ Relocates(plan.id)
<1>1. plan \in Plans /\ made' \in 0..MaxIds
  BY DEF AdoptionTypes, FilesTypeOK
<1>2. plan.id \in Ids /\ plan.roots \in Roots /\ plan.mapped \in BOOLEAN
  BY <1>1 DEF Plans
<1>3. EntriesKept /\ RootsKept
  BY DEF Adopt
<1>4. Uploads \in Entries
  BY DEF Uploads, Entries
<1>5. mapped = (Uploads \in alpha.entries)
  BY <1>2, <1>3, <1>4 DEF Relocates, EntriesKept, RootsKept
<1>6. Remapped(plan.roots, mapped) = AlphaRoots
  BY <1>2, <1>3, <1>5 DEF RootsKept, Remapped, AlphaRoots, Roots
<1>7. mapped \in BOOLEAN
  BY <1>2 DEF Relocates
<1> QED
  BY <1>1, <1>2, <1>5, <1>6, <1>7, AdoptKeeps


LEMMA StepFields ==
  ASSUME NEW s \in Starts, NEW pc \in Steps, NEW n, n = [s EXCEPT !.pc = pc]
  PROVE  /\ n \in Starts
         /\ n.pc = pc /\ n.id = s.id /\ n.roots = s.roots /\ n.mapped = s.mapped /\ n.todo = s.todo
BY DEF Starts

LEMMA TodoFields ==
  ASSUME NEW s \in Starts, NEW todo \in SUBSET Entries, NEW n, n = [s EXCEPT !.todo = todo]
  PROVE  /\ n \in Starts
         /\ n.pc = s.pc /\ n.id = s.id /\ n.roots = s.roots /\ n.mapped = s.mapped /\ n.todo = todo
BY DEF Starts

LEMMA StepNames ==
  /\ "plan" \in Steps /\ "move" \in Steps /\ "remap" \in Steps /\ "clear" \in Steps
  /\ "register" \in Steps /\ "unplan" \in Steps /\ "fresh" \in Steps /\ "up" \in Steps
BY DEF Steps

LEMMA WritePlanKeeps == AdoptionInv /\ WritePlan => AdoptionInv'
<1> SUFFICES ASSUME AdoptionInv, WritePlan PROVE AdoptionInv'
  OBVIOUS
<1> USE DEF AdoptionInv, WritePlan
<1>1. start \in Starts /\ start.id \in Ids /\ start.roots \in Roots /\ start.mapped \in BOOLEAN
  BY DEF AdoptionTypes, FilesTypeOK, Starts
<1>2. /\ start' \in Starts /\ start'.pc = "move" /\ start'.id = start.id
      /\ start'.roots = start.roots /\ start'.mapped = start.mapped /\ start'.todo = start.todo
  BY <1>1, StepFields, StepNames
<1>3. plan' \in Plans /\ plan' # None
  BY <1>1 DEF Plans
<1>4. AdoptionTypes'
  BY <1>2, <1>3, RegistryShapeKept DEF AdoptionTypes, FilesTypeOK
<1>5. ~HasRegistry /\ ~HasRegistry'
  BY RegistryShapeKept DEF AdoptionTypes, RegistryLast
<1>6. start.mapped = (Uploads \in alpha.entries) /\ start.roots = AlphaRoots
  BY <1>5 DEF AdoptionKnows
<1>7. EntriesKept'
  BY <1>3, <1>5 DEF EntriesKept, AdoptionKnows
<1>8. RootsKept'
  BY <1>3, <1>6 DEF RootsKept, Recognised, AlphaRoots, Remapped
<1>9. AdoptionKnows'
  BY <1>2, <1>5, <1>6 DEF AdoptionKnows, Planned, Ending, AlphaRoots, Unmoved
<1> QED
  BY <1>2, <1>4, <1>5, <1>7, <1>8, <1>9 DEF RegistryLast, Planned, Ending

LEMMA MoveEntryKeeps == AdoptionInv /\ MoveEntry => AdoptionInv'
<1> SUFFICES ASSUME AdoptionInv, MoveEntry PROVE AdoptionInv'
  OBVIOUS
<1> USE DEF AdoptionInv
<1>1. start.pc = "move" /\ UNCHANGED <<stale, settings, plan, alpha, manifest, registry, made, crashes>>
  BY DEF MoveEntry
<1>2. PICK e \in start.todo :
        IF home[e] = start.id
        THEN start' = Down /\ UNCHANGED <<copies, home>>
        ELSE /\ copies' = [copies EXCEPT ![e] = {}]
             /\ home' = [home EXCEPT ![e] = start.id]
             /\ start' = [start EXCEPT !.todo = @ \ {e}]
  BY DEF MoveEntry
<1>3. start \in Starts /\ start.id \in Ids /\ start.todo \in SUBSET Entries /\ e \in Entries
  BY DEF AdoptionTypes, FilesTypeOK, Starts
<1>4. ~HasRegistry /\ ~HasRegistry'
  BY <1>1, RegistryShapeKept DEF AdoptionTypes, RegistryLast, Planned
<1>5. CASE home[e] = start.id
  <2>1. start' = Down /\ UNCHANGED <<copies, home>>
    BY <1>2, <1>5
  <2>2. AdoptionTypes'
    BY <1>1, <2>1, DownTyped, RegistryShapeKept DEF AdoptionTypes, FilesTypeOK
  <2>3. EntriesKept' /\ RootsKept'
    BY <1>1, <1>4, <2>1, LibraryLeftAlone DEF legacyVars
  <2> QED
    BY <1>4, <2>1, <2>2, <2>3, DownTyped DEF RegistryLast, AdoptionKnows, Planned, Ending
<1>6. CASE home[e] # start.id
  <2>1. /\ copies' = [copies EXCEPT ![e] = {}]
        /\ home' = [home EXCEPT ![e] = start.id]
        /\ start' = [start EXCEPT !.todo = @ \ {e}]
    BY <1>2, <1>6
  <2>2. /\ start' \in Starts /\ start'.pc = "move" /\ start'.id = start.id
        /\ start'.roots = start.roots /\ start'.mapped = start.mapped
        /\ start'.todo = start.todo \ {e}
    BY <1>1, <1>3, <2>1 DEF Starts
  <2>3. copies' \in [Entries -> SUBSET Places] /\ home' \in [Entries -> Ids \cup {None}]
    BY <1>3, <2>1 DEF AdoptionTypes, FilesTypeOK
  <2>4. AdoptionTypes'
    BY <1>1, <2>2, <2>3, RegistryShapeKept DEF AdoptionTypes, FilesTypeOK
  <2>5. EntriesKept /\ RootsKept /\ AdoptionKnows
    BY <1>4
  <2>6. start.id # None /\ plan # None /\ plan.id = start.id
    <3>1. plan = [id |-> start.id, roots |-> start.roots, mapped |-> start.mapped]
      BY <1>1, <2>5 DEF AdoptionKnows, Planned
    <3>2. plan \in Plans
      BY <1>3, <3>1 DEF Plans, Starts
    <3> QED
      BY <1>3, <3>1, <3>2
  <2>7. copies \in [Entries -> SUBSET Places] /\ home \in [Entries -> Ids \cup {None}]
    BY DEF AdoptionTypes, FilesTypeOK
  <2>8. e \in alpha.entries
    BY <1>1, <1>2, <2>5 DEF EntriesKept, AdoptionKnows, Unmoved
  <2>9. EntriesKept'
    <3>1. \A f \in Entries : f \in alpha'.entries <=> copies'[f] # {} \/ home'[f] # None
      BY <1>1, <1>3, <2>1, <2>5, <2>6, <2>7, <2>8 DEF EntriesKept
    <3>2. \A f \in Entries : home'[f] # None => plan' # None /\ plan'.id = home'[f] /\ copies'[f] = {}
      BY <1>1, <1>3, <2>1, <2>5, <2>6, <2>7 DEF EntriesKept
    <3> QED
      BY <1>1, <2>5, <3>1, <3>2 DEF EntriesKept
  <2>10. RootsKept'
    BY <1>1, <2>5, <2>6 DEF RootsKept, Recognised
  <2>11. start'.todo = Unmoved'
    BY <1>1, <1>3, <2>1, <2>2, <2>5, <2>7 DEF AdoptionKnows, Unmoved
  <2>12. AdoptionKnows'
    BY <1>1, <2>2, <2>5, <2>11 DEF AdoptionKnows, Planned, Ending, AlphaRoots
  <2> QED
    BY <1>4, <2>2, <2>4, <2>9, <2>10, <2>12 DEF RegistryLast, Planned, Ending
<1> QED
  BY <1>5, <1>6


LEMMA EndMovesKeeps == AdoptionInv /\ EndMoves => AdoptionInv'
<1> SUFFICES ASSUME AdoptionInv, EndMoves PROVE AdoptionInv'
  OBVIOUS
<1> DEFINE left == IF start.mapped THEN {e \in Stores : home[e] = start.id} ELSE {}
<1>1. start \in Starts /\ left \in SUBSET Entries
  BY DEF AdoptionInv, AdoptionTypes, FilesTypeOK, Stores
<1>2. /\ start.pc = "move" /\ start.todo = {}
      /\ start' = [start EXCEPT !.pc = "remap", !.todo = left]
      /\ UNCHANGED <<manifest, registry, made, crashes>> /\ UNCHANGED legacyVars
  BY DEF EndMoves
<1>3. /\ start' \in Starts /\ start'.pc = "remap" /\ start'.id = start.id
      /\ start'.roots = start.roots /\ start'.mapped = start.mapped /\ start'.todo = left
  BY <1>1, <1>2, StepNames DEF Starts
<1>4. AdoptionTypes'
  BY <1>2, <1>3, RegistryShapeKept DEF AdoptionInv, AdoptionTypes, FilesTypeOK, legacyVars
<1>5. ~HasRegistry /\ ~HasRegistry'
  BY <1>2, RegistryShapeKept DEF AdoptionInv, AdoptionTypes, RegistryLast, Planned
<1>6. EntriesKept /\ RootsKept /\ AdoptionKnows
  BY <1>5 DEF AdoptionInv
<1>7. EntriesKept' /\ RootsKept'
  BY <1>2, <1>6, LibraryLeftAlone
<1>8. \A e \in Entries : copies[e] = {}
  BY <1>2, <1>6 DEF AdoptionKnows, Unmoved
<1>9. plan = [id |-> start.id, roots |-> start.roots, mapped |-> start.mapped]
  BY <1>2, <1>6 DEF AdoptionKnows, Planned
<1>10. \A e \in alpha.entries \cap Entries : home[e] = start.id
  BY <1>6, <1>8, <1>9 DEF EntriesKept
<1>11. stale \subseteq left
  <2>1. stale \in SUBSET Stores
    BY DEF AdoptionInv, AdoptionTypes, FilesTypeOK
  <2>2. stale # {} => start.mapped
    BY <1>2, <1>6 DEF EntriesKept, AdoptionKnows, Planned
  <2> QED
    BY <1>6, <1>10, <2>1, <2>2 DEF EntriesKept, Stores
<1>12. AdoptionKnows'
  BY <1>2, <1>3, <1>6, <1>8, <1>9, <1>11 DEF AdoptionKnows, Planned, Ending, AlphaRoots, legacyVars
<1> QED
  BY <1>3, <1>4, <1>5, <1>7, <1>12 DEF AdoptionInv, RegistryLast, Planned, Ending

LEMMA RemapStoreKeeps == AdoptionInv /\ RemapStore => AdoptionInv'
<1> SUFFICES ASSUME AdoptionInv, RemapStore PROVE AdoptionInv'
  OBVIOUS
<1>1. PICK e \in start.todo : stale' = stale \ {e} /\ start' = [start EXCEPT !.todo = start.todo \ {e}]
  BY DEF RemapStore
<1>2. start.pc = "remap" /\ UNCHANGED <<copies, home, settings, plan, alpha, manifest, registry, made, crashes>>
  BY DEF RemapStore
<1>3. start \in Starts /\ start.todo \ {e} \in SUBSET Entries
  BY DEF AdoptionInv, AdoptionTypes, FilesTypeOK, Starts
<1>4. /\ start' \in Starts /\ start'.pc = "remap" /\ start'.id = start.id
      /\ start'.roots = start.roots /\ start'.mapped = start.mapped /\ start'.todo = start.todo \ {e}
  BY <1>1, <1>2, <1>3, TodoFields
<1>5. AdoptionTypes'
  BY <1>1, <1>2, <1>4, RegistryShapeKept DEF AdoptionInv, AdoptionTypes, FilesTypeOK
<1>6. ~HasRegistry /\ ~HasRegistry'
  BY <1>2, RegistryShapeKept DEF AdoptionInv, AdoptionTypes, RegistryLast, Planned, Ending
<1>7. EntriesKept /\ RootsKept /\ AdoptionKnows
  BY <1>6 DEF AdoptionInv
<1>8. EntriesKept'
  BY <1>1, <1>2, <1>7 DEF EntriesKept
<1>9. RootsKept'
  BY <1>2, <1>7 DEF RootsKept, Recognised
<1>10. AdoptionKnows'
  BY <1>1, <1>2, <1>4, <1>7 DEF AdoptionKnows, Planned, Ending, AlphaRoots
<1> QED
  BY <1>4, <1>5, <1>6, <1>8, <1>9, <1>10 DEF AdoptionInv, RegistryLast, Planned, Ending

LEMMA WriteManifestKeeps == AdoptionInv /\ WriteManifest => AdoptionInv'
<1> SUFFICES ASSUME AdoptionInv, WriteManifest PROVE AdoptionInv'
  OBVIOUS
<1>1. /\ start.pc = "remap" /\ start.todo = {}
      /\ manifest' = [manifest EXCEPT ![start.id] = User(start.roots)]
      /\ start' = [start EXCEPT !.pc = "clear"]
      /\ UNCHANGED <<registry, made, crashes>> /\ UNCHANGED legacyVars
  BY DEF WriteManifest
<1>2. start \in Starts /\ start.id \in Ids /\ start.roots \in Roots
  BY DEF AdoptionInv, AdoptionTypes, FilesTypeOK, Starts
<1>3. /\ start' \in Starts /\ start'.pc = "clear" /\ start'.id = start.id
      /\ start'.roots = start.roots /\ start'.mapped = start.mapped
  BY <1>1, <1>2, StepFields, StepNames
<1>4. User(start.roots) \in Manifests
  BY <1>2 DEF User, Manifests, Kinds
<1>5. manifest \in [Ids -> Manifests \cup {None}]
  BY DEF AdoptionInv, AdoptionTypes, FilesTypeOK
<1>6. manifest' \in [Ids -> Manifests \cup {None}] /\ manifest'[start.id] = User(start.roots)
  BY <1>1, <1>2, <1>4, <1>5
<1>7. AdoptionTypes'
  BY <1>1, <1>3, <1>6, RegistryShapeKept DEF AdoptionInv, AdoptionTypes, FilesTypeOK, legacyVars
<1>8. ~HasRegistry /\ ~HasRegistry'
  BY <1>1, RegistryShapeKept DEF AdoptionInv, AdoptionTypes, RegistryLast, Planned, Ending
<1>9. EntriesKept /\ RootsKept /\ AdoptionKnows
  BY <1>8 DEF AdoptionInv
<1>10. EntriesKept' /\ RootsKept'
  BY <1>1, <1>9, LibraryLeftAlone
<1>11. stale' = {}
  BY <1>1, <1>9 DEF AdoptionKnows, legacyVars
<1>12. AdoptionKnows'
  BY <1>1, <1>3, <1>6, <1>9, <1>11 DEF AdoptionKnows, Planned, Ending, AlphaRoots, legacyVars
<1> QED
  BY <1>3, <1>7, <1>8, <1>10, <1>12 DEF AdoptionInv, RegistryLast, Planned, Ending

LEMMA ClearSettingsKeeps == AdoptionInv /\ ClearSettings => AdoptionInv'
<1> SUFFICES ASSUME AdoptionInv, ClearSettings PROVE AdoptionInv'
  OBVIOUS
<1>1. /\ start.pc = "clear" /\ settings' = "none" /\ start' = [start EXCEPT !.pc = "register"]
      /\ UNCHANGED <<copies, home, stale, plan, alpha, manifest, registry, made, crashes>>
  BY DEF ClearSettings
<1>2. start \in Starts /\ start.id \in Ids /\ start.roots \in Roots /\ start.mapped \in BOOLEAN
  BY DEF AdoptionInv, AdoptionTypes, FilesTypeOK, Starts
<1>3. /\ start' \in Starts /\ start'.pc = "register" /\ start'.id = start.id
      /\ start'.roots = start.roots /\ start'.mapped = start.mapped
  BY <1>1, <1>2, StepFields, StepNames
<1>4. AdoptionTypes'
  BY <1>1, <1>3, RegistryShapeKept DEF AdoptionInv, AdoptionTypes, FilesTypeOK, Roots
<1>5. ~HasRegistry /\ ~HasRegistry'
  BY <1>1, RegistryShapeKept DEF AdoptionInv, AdoptionTypes, RegistryLast, Planned, Ending
<1>6. EntriesKept /\ RootsKept /\ AdoptionKnows
  BY <1>5 DEF AdoptionInv
<1>7. plan # None
  <2>1. plan = [id |-> start.id, roots |-> start.roots, mapped |-> start.mapped]
    BY <1>1, <1>6 DEF AdoptionKnows, Planned, Ending
  <2>2. plan \in Plans
    BY <1>2, <2>1 DEF Plans
  <2> QED
    BY <2>2
<1>8. EntriesKept' /\ RootsKept'
  BY <1>1, <1>6, <1>7 DEF EntriesKept, RootsKept, Recognised
<1>9. AdoptionKnows'
  BY <1>1, <1>3, <1>6 DEF AdoptionKnows, Planned, Ending, AlphaRoots
<1> QED
  BY <1>3, <1>4, <1>5, <1>8, <1>9 DEF AdoptionInv, RegistryLast, Planned, Ending


(***************************************************************************)
(* The registry is written when everything has landed.                     *)
(***************************************************************************)
LEMMA RegisterAdoptedKeeps == AdoptionInv /\ RegisterAdopted => AdoptionInv' /\ HasRegistry'
<1> SUFFICES ASSUME AdoptionInv, RegisterAdopted PROVE AdoptionInv' /\ HasRegistry'
  OBVIOUS
<1>1. /\ registry' = [active |-> start.id, ids |-> <<start.id>>]
      /\ start' = [start EXCEPT !.pc = "unplan"]
      /\ UNCHANGED <<manifest, made, crashes>> /\ UNCHANGED legacyVars
  BY DEF RegisterAdopted
<1>2. start \in Starts /\ start.id \in Ids
  BY DEF AdoptionInv, AdoptionTypes, FilesTypeOK, Starts
<1>3. start' \in Starts /\ start'.pc = "unplan"
  BY <1>1, <1>2, StepFields, StepNames
<1>4. RegistryShape' /\ HasRegistry'
  BY <1>1, <1>2 DEF RegistryShape, HasRegistry
<1>5. FilesTypeOK'
  BY <1>1, <1>3 DEF AdoptionInv, AdoptionTypes, FilesTypeOK, legacyVars
<1> QED
  BY <1>3, <1>4, <1>5 DEF AdoptionInv, AdoptionTypes, RegistryLast, Planned, Ending

\* The whole library, as AdoptsWhole states it, at the moment it is registered.
LEMMA RegisteredWhole ==
  ASSUME AdoptionInv, RegisterAdopted
  PROVE  /\ ~HasRegistry
         /\ registry'.active = start.id
         /\ \A e \in alpha.entries : copies'[e] = {} /\ home'[e] = start.id
         /\ stale' = {} /\ settings' = "none"
         /\ manifest'[start.id] = User(AlphaRoots)
<1>1. /\ start.pc = "register"
      /\ registry' = [active |-> start.id, ids |-> <<start.id>>]
      /\ manifest' = manifest /\ UNCHANGED legacyVars
  BY DEF RegisterAdopted
<1>2. ~HasRegistry
  BY <1>1 DEF AdoptionInv, RegistryLast, Planned, Ending
<1>3. EntriesKept /\ AdoptionKnows
  BY <1>2 DEF AdoptionInv
<1>4. alpha.entries \subseteq Entries
  BY DEF AdoptionInv, AdoptionTypes, FilesTypeOK
<1>5. plan.id = start.id
  BY <1>1, <1>3 DEF AdoptionKnows, Planned, Ending
<1>6. \A e \in alpha.entries : copies[e] = {} /\ home[e] = start.id
  BY <1>1, <1>3, <1>4, <1>5 DEF EntriesKept, AdoptionKnows, Ending
<1>7. stale = {} /\ settings = "none" /\ manifest[start.id] = User(start.roots) /\ start.roots = AlphaRoots
  BY <1>1, <1>3 DEF AdoptionKnows, Planned, Ending
<1> QED
  BY <1>1, <1>2, <1>6, <1>7 DEF legacyVars

LEMMA RemovePlanKeeps == AdoptionInv /\ RemovePlan => AdoptionInv' /\ HasRegistry /\ HasRegistry'
<1> SUFFICES ASSUME AdoptionInv, RemovePlan PROVE AdoptionInv' /\ HasRegistry /\ HasRegistry'
  OBVIOUS
<1>1. /\ start.pc = "unplan" /\ plan' = None /\ start' = [Down EXCEPT !.pc = "up"]
      /\ UNCHANGED <<copies, home, stale, settings, alpha, manifest, registry, made, crashes>>
  BY DEF RemovePlan
<1>2. HasRegistry /\ RegistryShape' /\ HasRegistry'
  BY <1>1, RegistryShapeKept DEF AdoptionInv, AdoptionTypes, RegistryLast
<1>3. FilesTypeOK'
  BY <1>1, DownTyped DEF AdoptionInv, AdoptionTypes, FilesTypeOK
<1> QED
  BY <1>1, <1>2, <1>3, DownTyped DEF AdoptionInv, AdoptionTypes, RegistryLast, Planned, Ending

LEMMA StopKeeps == AdoptionInv /\ Stop => AdoptionInv' /\ HasRegistry' = HasRegistry
<1> SUFFICES ASSUME AdoptionInv, Stop PROVE AdoptionInv' /\ HasRegistry' = HasRegistry
  OBVIOUS
<1>1. /\ start' = Down /\ crashes < MaxCrashes /\ crashes' = crashes + 1
      /\ UNCHANGED <<manifest, registry, made>> /\ UNCHANGED legacyVars
  BY DEF Stop
<1>2. RegistryShape' /\ HasRegistry' = HasRegistry
  BY <1>1, RegistryShapeKept DEF AdoptionInv, AdoptionTypes
<1>3. crashes' \in 0..MaxCrashes
  BY <1>1 DEF AdoptionInv, AdoptionTypes, FilesTypeOK
<1>4. FilesTypeOK'
  BY <1>1, <1>3, DownTyped DEF AdoptionInv, AdoptionTypes, FilesTypeOK, legacyVars
<1>5. ~HasRegistry' => EntriesKept' /\ RootsKept'
  BY <1>1, <1>2, LibraryLeftAlone DEF AdoptionInv
<1>6. AdoptionKnows'
  BY <1>1, DownTyped DEF AdoptionKnows, Planned, Ending
<1> QED
  BY <1>1, <1>2, <1>4, <1>5, <1>6, DownTyped DEF AdoptionInv, AdoptionTypes, RegistryLast, Planned, Ending

LEMMA StartupKeeps == AdoptionInv /\ StartupStep => AdoptionInv' /\ start.pc # "up"
<1> SUFFICES ASSUME AdoptionInv, StartupStep PROVE AdoptionInv' /\ start.pc # "up"
  OBVIOUS
<1>1. start.pc # "up"
  BY DEF StartupStep, Load, MakeDefault, RegisterDefault, BeginAdoption, ResumeAdoption, Adopt,
         WritePlan, MoveEntry, EndMoves, RemapStore, WriteManifest, ClearSettings, RegisterAdopted, RemovePlan
<1> QED
  BY <1>1, LoadKeeps, MakeDefaultKeeps, RegisterDefaultKeeps, BeginAdoptionKeeps, ResumeAdoptionKeeps,
     WritePlanKeeps, MoveEntryKeeps, EndMovesKeeps, RemapStoreKeeps, WriteManifestKeeps,
     ClearSettingsKeeps, RegisterAdoptedKeeps, RemovePlanKeeps DEF StartupStep

\* Once the application is up, what it does to its workspaces leaves the adoption alone.
LEMMA UpKeeps ==
  ASSUME AdoptionInv, start.pc = "up", UNCHANGED <<legacyVars, start, crashes>>,
         made' \in 0..MaxIds, manifest' \in [Ids -> Manifests \cup {None}],
         RegistryShape', HasRegistry'
  PROVE  AdoptionInv'
BY DEF AdoptionInv, AdoptionTypes, FilesTypeOK, RegistryLast, legacyVars, Planned, Ending

(***************************************************************************)
(* What the invariant implies.                                             *)
(***************************************************************************)
LEMMA SplitNever == AdoptionInv => NeverSplit
BY DEF AdoptionInv, EntriesKept, NeverSplit

\* Only adoption makes the registry of an old library, and it makes it whole.
LEMMA AdoptedWhole ==
  ASSUME AdoptionInv, StartupStep, ~HasRegistry, HasRegistry', alpha.found
  PROVE  LET id == registry'.active
         IN  /\ \A e \in alpha.entries : copies'[e] = {} /\ home'[e] = id
             /\ stale' = {}
             /\ manifest'[id] =
                  User(Remapped(IF alpha.roots THEN "old" ELSE "none", Uploads \in alpha.entries))
             /\ settings' = "none"
<1>1. ~RegisterDefault
  BY DEF AdoptionInv, AdoptionKnows, RegisterDefault
<1>2. registry' # registry
  BY DEF HasRegistry
<1>3. RegisterAdopted
  BY <1>1, <1>2 DEF StartupStep, Load, MakeDefault, BeginAdoption, ResumeAdoption, Adopt, WritePlan,
     MoveEntry, EndMoves, RemapStore, WriteManifest, ClearSettings, RemovePlan
<1> QED
  BY <1>3, RegisteredWhole DEF AlphaRoots
=============================================================================
