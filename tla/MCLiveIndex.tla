------------------------------ MODULE MCLiveIndex ------------------------------
(* Small instances of DirectoryUpdates and TopicCache for TLC. *)
EXTENDS DirectoryUpdates, TLC

CONSTANTS f1, f2, b1, b2, q1, q2

TwoFiles    == {f1, f2}
TwoBatches  == {b1, b2}
TwoRequests == {q1, q2}

\* Three cases: the updates alone, as long as a file is sure; with one
\* file, a change beside one request or beside a replacement; and with that file
\* listed and unchanged, both requests beside replacements that keep its row.
Asked == cancelled \cup {r \in Requests : request[r].pc # "new"}
Kept  == replacing = "no" /\ live = 1
EitherCase ==
  \/ Asked = {} /\ Kept /\ unsure # Files
  \/ /\ disk[f2] = 0 /\ rev <= 2 /\ batch[b2].pc = "idle"
     /\ \/ changes = 0 /\ disk[f1] # 0 /\ known = disk /\ opened[1] = disk
        \/ changes = 1 /\ (IF Kept THEN Asked \subseteq {q1} ELSE Asked = {})
===============================================================================
