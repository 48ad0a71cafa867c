----------------------------- MODULE MCIndexStore -----------------------------
(* Small instances of IndexStore for TLC. *)
EXTENDS IndexStore, TLC

CONSTANTS d1, d2, r1, r2, m1, m2

TwoDocs   == {d1, d2}
TwoRoots  == {r1, r2}
TwoModels == {m1, m2}

\* r2 is a directory below r1.
Nested == [root \in Roots |-> IF root = r1 THEN Docs ELSE Docs \ {d1}]

EitherModel == Permutations(Models)

\* One build with both roots and both models, beside what an earlier session left;
\* or no build and documents that change; or up to two builds of the outer root
\* with one model, an empty log and a change, a crash or a panic (none of them
\* once the first of two builds was attached). There the documents are alike, so
\* one changes. A commit stays in the log when the outer root is the only one, and
\* beside a build a restore runs only while files are replaced.
RootsUsed == {watched} \cup {jobs[j].root : j \in DOMAIN jobs}
                       \cup (IF dir.live = None THEN {} ELSE {h[1] : h \in dir.live.held})
ModelsUsed ==
  {selected} \cup (IF build = Idle THEN {} ELSE {build.model})
    \cup {dir[name].model : name \in {n \in {"live", "backup", "tmp"} : dir[n] # None}}
OneBuild ==
  /\ edits + crashes = 0 /\ lastJob < MaxJobs
  /\ dir.main = dir.live \/ RootsUsed = {r1}
  /\ loading # None /\ build # Idle =>
       loading.semantic /\ build.pc \in {"aside", "bare", "in", "reopen", "return"}
NoBuild == lastJob = 0 /\ crashes = 0
TwoBuilds ==
  /\ RootsUsed = {r1} /\ Cardinality(ModelsUsed) = 1
  /\ disk[d2] = 1 /\ edits + crashes <= 1
  /\ dir.main = dir.live
  /\ loading # None => crashes = 1 /\ build = Idle
  /\ lastJob = MaxJobs /\ embedder => edits + crashes = 0
EitherCase == OneBuild \/ NoBuild \/ TwoBuilds
===============================================================================
