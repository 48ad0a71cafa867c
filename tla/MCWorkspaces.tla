----------------------------- MODULE MCWorkspaces -----------------------------
(* Small instances of Workspaces for TLC. *)
EXTENDS Workspaces, FiniteSets

CONSTANTS t1, t2

TwoTasks == {t1, t2}

\* An operation that takes the switch lock excludes another one, and so do two
\* that make workspaces: one task of each sort is all that overlaps.
TwoSorts ==
  /\ task'[t1].pc \notin {"space", "register"}
  /\ task'[t2].pc \in {"idle", "space", "register"}

\* Either there was an old library, which is adopted across two crashes, or
\* workspaces are made, switched, deleted and restored, with one crash; one of
\* them at a time has documents, or a context without being active.
OldLibrary == alpha.found

CasesNext ==
  /\ WSNext /\ TwoSorts
  /\ OldLibrary => task' = [t \in Tasks |-> Idle] /\ scoped' = {}
  /\ OldLibrary \/ crashes' <= 1
  /\ Cardinality(scoped' \cup docs') <= 1

CasesSpec == WSInit /\ [][CasesNext]_workspaceVars /\ Fairness
===============================================================================
