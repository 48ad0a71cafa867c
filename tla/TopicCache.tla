------------------------------ MODULE TopicCache ------------------------------
(***************************************************************************)
(* The topic tree cache (topic_tree_for, crates/api/src/context.rs): a     *)
(* request reuses the cached tree when it was built at the current index   *)
(* revision, or builds one under a lock and installs it if the revision    *)
(* did not move meanwhile. Whoever changes the index raises the revision,  *)
(* and then clears the cache, before the change.                           *)
(*                                                                         *)
(* Of the index only the number of changes it went through is kept, and of *)
(* a tree how many of them it holds at least. Requests are for the same    *)
(* tree: those for another root, document or size never match.             *)
(***************************************************************************)
EXTENDS Naturals

CONSTANTS
  Requests,
  NoTree, Nobody,
  MaxRevision   \* bound: how often the cache is invalidated

ASSUME TopicAssumption ==
  /\ MaxRevision \in Nat
  /\ Nobody \notin Requests
  /\ NoTree \notin [rev : Nat, holds : Nat]

VARIABLES
  rev,        \* semantic_index_revision
  clearing,   \* invalidations that raised the revision and still have to clear
  slot,       \* topic_tree_caches
  holder,     \* topic_tree_build_lock
  request,
  cancelled,  \* the cancellation tokens
  written,    \* auxiliary: changes the index went through
  invalidated \* auxiliary: how many of them precede the current revision

topicVars == <<rev, clearing, slot, holder, request, cancelled, written, invalidated>>

Trees == [rev : Nat, holds : Nat]
Pcs == {"new", "look", "queue", "relook", "clone", "cluster", "again", "served", "ended"}
Over(r) == request[r].pc \in {"served", "ended"}

\* A request keeps the revision it works at, what it holds, and (auxiliary) the
\* revision it met first with the changes that preceded it.
TCTypeOK ==
  /\ rev \in Nat /\ clearing \in Nat
  /\ slot \in Trees \cup {NoTree}
  /\ holder \in Requests \cup {Nobody}
  /\ request \in [Requests -> [pc : Pcs, rev : Nat, holds : Nat, met : Nat, since : Nat]]
  /\ cancelled \in SUBSET Requests
  /\ written \in Nat /\ invalidated \in Nat

TCInit ==
  /\ rev = 0 /\ clearing = 0
  /\ slot = NoTree /\ holder = Nobody
  /\ request = [r \in Requests |->
                  [pc |-> "new", rev |-> 0, holds |-> 0, met |-> 0, since |-> 0]]
  /\ cancelled = {}
  /\ written = 0 /\ invalidated = 0

(***************************************************************************)
(* What others do: invalidate_topic_tree_cache in its two steps, a change  *)
(* of the index, and cancel_chunk_topics.                                  *)
(***************************************************************************)
Requesting == <<holder, request, cancelled>>

Bump ==
  /\ rev < MaxRevision
  /\ rev' = rev + 1 /\ clearing' = clearing + 1
  /\ invalidated' = written
  /\ UNCHANGED <<slot, written>> /\ UNCHANGED Requesting

Clear ==
  /\ clearing > 0
  /\ clearing' = clearing - 1 /\ slot' = NoTree
  /\ UNCHANGED <<rev, written, invalidated>> /\ UNCHANGED Requesting

Change ==
  /\ written' = written + 1
  /\ UNCHANGED <<rev, clearing, slot, invalidated>> /\ UNCHANGED Requesting

CancelRequest(r) ==
  /\ ~Over(r) /\ r \notin cancelled
  /\ cancelled' = cancelled \cup {r}
  /\ UNCHANGED <<rev, clearing, slot, holder, request, written, invalidated>>

(***************************************************************************)
(* A request.                                                              *)
(***************************************************************************)
IndexAside == UNCHANGED <<rev, clearing, cancelled, written, invalidated>>

Matches(r) == slot # NoTree /\ slot.rev = request[r].rev
Unlocked(r) == IF holder = r THEN Nobody ELSE holder

LoadRevision(r) ==
  /\ request[r].pc \in {"new", "again"} /\ r \notin cancelled
  /\ request' = [request EXCEPT ![r] =
       IF request[r].pc = "new"
       THEN [@ EXCEPT !.pc = "look", !.rev = rev, !.met = rev, !.since = invalidated]
       ELSE [@ EXCEPT !.pc = "look", !.rev = rev]]
  /\ UNCHANGED <<slot, holder>> /\ IndexAside

Look(r) ==
  /\ request[r].pc = "look" /\ ~Matches(r)
  /\ request' = [request EXCEPT ![r].pc = "queue"]
  /\ UNCHANGED <<slot, holder>> /\ IndexAside

\* The revision is loaded again once the build lock is held.
Acquire(r) ==
  /\ request[r].pc = "queue" /\ holder = Nobody
  /\ holder' = r
  /\ request' = [request EXCEPT ![r].pc = "relook", ![r].rev = rev]
  /\ UNCHANGED slot /\ IndexAside

Relook(r) ==
  /\ request[r].pc = "relook" /\ ~Matches(r)
  /\ request' = [request EXCEPT ![r].pc = "clone"]
  /\ UNCHANGED <<slot, holder>> /\ IndexAside

Hit(r) ==
  /\ request[r].pc \in {"look", "relook"} /\ Matches(r)
  /\ request' = [request EXCEPT ![r].pc = "served", ![r].holds = slot.holds]
  /\ holder' = Unlocked(r)
  /\ UNCHANGED slot /\ IndexAside

\* The handle of the index is cloned; its rows are read, and clustered, later.
CloneIndex(r) ==
  /\ request[r].pc = "clone"
  /\ request' = [request EXCEPT ![r].pc = "cluster", ![r].holds = written]
  /\ UNCHANGED <<slot, holder>> /\ IndexAside

\* The revision is compared with the caches locked.
Install_Always(r) ==
  /\ request[r].pc = "cluster" /\ r \notin cancelled
  /\ slot' = [rev |-> rev, holds |-> request[r].holds]
  /\ request' = [request EXCEPT ![r].pc = "served"]
  /\ holder' = Unlocked(r)
  /\ IndexAside
Install(r) ==
  /\ request[r].pc = "cluster" /\ r \notin cancelled
  /\ request[r].rev = rev
  /\ slot' = [rev |-> rev, holds |-> request[r].holds]
  /\ request' = [request EXCEPT ![r].pc = "served"]
  /\ holder' = Unlocked(r)
  /\ IndexAside

Retry_KeepsLock(r) ==
  /\ request[r].pc = "cluster" /\ r \notin cancelled
  /\ request[r].rev # rev
  /\ request' = [request EXCEPT ![r].pc = "again"]
  /\ UNCHANGED <<slot, holder>> /\ IndexAside
Retry(r) ==
  /\ request[r].pc = "cluster" /\ r \notin cancelled
  /\ request[r].rev # rev
  /\ request' = [request EXCEPT ![r].pc = "again"]
  /\ holder' = Unlocked(r)
  /\ UNCHANGED slot /\ IndexAside

\* A cancelled request is noticed in the loop, in the queue or after the build,
\* and the build fails also when there is no index or it cannot be read.
GiveUp(r) ==
  /\ \/ request[r].pc \in {"new", "again", "queue"} /\ r \in cancelled
     \/ request[r].pc = "cluster"
  /\ request' = [request EXCEPT ![r].pc = "ended"]
  /\ holder' = Unlocked(r)
  /\ UNCHANGED slot /\ IndexAside

RequestStep(r) ==
  \/ LoadRevision(r) \/ Look(r) \/ Acquire(r) \/ Relook(r) \/ Hit(r) \/ CloneIndex(r)
  \/ Install(r) \/ Retry(r) \/ GiveUp(r)

TCNext ==
  \/ Bump \/ Clear \/ Change
  \/ \E r \in Requests : RequestStep(r) \/ CancelRequest(r)

TCSpec == TCInit /\ [][TCNext]_topicVars

(***************************************************************************)
(* Properties.                                                             *)
(***************************************************************************)
\* A tree that is served holds every change of the index made before the last
\* invalidation the request found: whatever is installed, reused, cleared and
\* raised meanwhile (topic_tree_for). That is less than every change made
\* before the request, because an invalidation precedes the change it is for.
TreeIsFresh ==
  \A r \in Requests : request[r].pc = "served" => request[r].holds >= request[r].since

\* Every request is answered in the end, also when it waited for another's build
\* or lost its own to an invalidation.
EveryTopicAnswered == \A r \in Requests : request[r].pc # "new" ~> Over(r)
=============================================================================
