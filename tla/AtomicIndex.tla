----------------------------- MODULE AtomicIndex -----------------------------
(***************************************************************************)
(* What the files of the semantic index amount to: one index, which the    *)
(* next opener will find; what of it is in its file, not in a log beside   *)
(* that; and while a replacement is not settled the index before it.       *)
(* IndexStore implements this.                                             *)
(***************************************************************************)
CONSTANTS None, Roots, Docs
VARIABLES
  index, filed, previous,
  fresh  \* what a build has put together so far: an input, which nothing here changes
avars == <<index, filed, previous>>

Init == filed = index /\ previous = None

\* The index a build put together takes the place whole.
Replace ==
  /\ fresh # None
  /\ index' = fresh /\ filed' = fresh
  /\ previous' \in {index, None}

\* A merge, an update or a deletion concerns one root: what other roots hold
\* stays, and so does the row of a document this root does not hold.
SameButFor(old, new, root) ==
  /\ old # None /\ new # None /\ new.model = old.model
  /\ {h \in new.held : h[1] # root} = {h \in old.held : h[1] # root}
  /\ \A d \in Docs : <<root, d>> \notin old.held \cup new.held => new.rows[d] = old.rows[d]

\* A rename concerns two documents, in every root: the one has what the other
\* had, and that one is nobody's.
SameButRenamed(old, new, from, to) ==
  /\ old # None /\ new # None /\ new.model = old.model
  /\ new.rows[to] = old.rows[from]
  /\ \A root \in Roots :
       /\ <<root, from>> \notin new.held
       /\ <<root, to>> \in new.held <=> <<root, from>> \in old.held
  /\ \A d \in Docs \ {from, to} :
       /\ new.rows[d] = old.rows[d]
       /\ \A root \in Roots : <<root, d>> \in new.held <=> <<root, d>> \in old.held

Changed(old, new) ==
  \/ \E root \in Roots : SameButFor(old, new, root)
  \/ \E from, to \in Docs : from # to /\ SameButRenamed(old, new, from, to)

\* The change may stay in the log; an update of what was the index concerns no
\* later opener.
Update   == Changed(index, index') /\ filed' \in {filed, index'} /\ previous' \in {previous, None}
Outdated == Changed(previous, previous') /\ UNCHANGED <<index, filed>>

\* To make room for a replacement the log is deleted, and what was only there is
\* lost.
LoseLog  == fresh # None /\ index' = filed /\ UNCHANGED <<filed, previous>>

Settle   == previous # None /\ previous' = None /\ UNCHANGED <<index, filed>>
RollBack == previous # None /\ index' = previous /\ filed' = previous /\ previous' = None
Delete   == index # None /\ index' = None /\ filed' = None /\ previous' = None

Next == Replace \/ Update \/ Outdated \/ LoseLog \/ Settle \/ RollBack \/ Delete

Spec == Init /\ [][Next]_avars
=============================================================================
