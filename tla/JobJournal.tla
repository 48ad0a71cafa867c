------------------------------ MODULE JobJournal ------------------------------
(***************************************************************************)
(* The index job journal (crates/core/src/embed/index/job.rs): one row per *)
(* build of a root and one per document of its scope, in a database beside *)
(* the index. The operators map a journal, the rows that exist by id, to   *)
(* the journal after one call; IndexStore keeps the state. Clocks do not   *)
(* run backwards, so the newest job is the one with the greatest id.       *)
(***************************************************************************)
EXTENDS Naturals, FiniteSets, FiniteSetsExt, Functions

CONSTANTS
  Docs,
  Roots,
  MaxJobs,        \* bound: how many jobs are ever begun
  HistoryPerRoot  \* HISTORY_PER_ROOT

ASSUME JournalAssumption ==
  /\ MaxJobs \in Nat
  /\ HistoryPerRoot \in Nat \ {0}

JobIds     == 1..MaxJobs
Verdicts   == {"Reused", "Indexed", "Empty", "Failed"}
Outcomes   == Verdicts \cup {"Pending"}
Closed     == {"Completed", "Failed", "Cancelled", "Interrupted"}
JobStates  == Closed \cup {"Running"}

\* A document the job has no row for is "no".
Job == [root : Roots, state : JobStates, docs : [Docs -> Outcomes \cup {"no"}]]
Journals == UNION {[ids -> Job] : ids \in SUBSET JobIds}

JobsOf(journal, root) == {j \in DOMAIN journal : journal[j].root = root}

WithOutcome(journal, j, outcome) == {d \in Docs : journal[j].docs[d] = outcome}

Latest(journal, root) == Max(JobsOf(journal, root))

\* The newest jobs of the root are kept, and whatever is still running.
Pruned(journal, root) ==
  LET old(j) == Cardinality({k \in JobsOf(journal, root) : k > j}) >= HistoryPerRoot
  IN  Restrict(journal, {j \in DOMAIN journal :
        journal[j].root # root \/ journal[j].state = "Running" \/ ~old(j)})

\* What a continuation takes over of the job it continues (0: of none, and of
\* none when that row is gone): its verdicts on documents outside the scope.
Inherited(journal, continues, scope) ==
  [d \in Docs |->
     IF /\ continues \in DOMAIN journal
        /\ d \notin scope
        /\ journal[continues].docs[d] \in Verdicts
     THEN journal[continues].docs[d] ELSE "no"]

BeginContinuing(journal, id, root, scope, continues) ==
  LET before == Inherited(journal, continues, scope)
      job    == [root |-> root, state |-> "Running",
                 docs |-> [d \in Docs |-> IF d \in scope THEN "Pending" ELSE before[d]]]
  IN  Pruned([j \in DOMAIN journal \cup {id} |-> IF j = id THEN job ELSE journal[j]], root)

\* An UPDATE changes the rows that exist. said gives every document of the
\* batch its outcome.
NoteOutcomes(journal, id, batch, said) ==
  [j \in DOMAIN journal |->
     IF j # id THEN journal[j]
     ELSE [journal[j] EXCEPT !.docs = [d \in Docs |->
             IF d \in batch /\ @[d] # "no" THEN said[d] ELSE @[d]]]]
NoteOutcome(journal, id, d, outcome) ==
  NoteOutcomes(journal, id, {d}, [x \in {d} |-> outcome])

Finish(journal, id, state) ==
  [j \in DOMAIN journal |-> IF j = id THEN [journal[j] EXCEPT !.state = state] ELSE journal[j]]

AdoptOrphanedJobs(journal) ==
  [j \in DOMAIN journal |->
     IF journal[j].state = "Running" THEN [journal[j] EXCEPT !.state = "Interrupted"]
     ELSE journal[j]]

ForgetRoot(journal, root) ==
  Restrict(journal, {j \in DOMAIN journal : journal[j].root # root})
=============================================================================
