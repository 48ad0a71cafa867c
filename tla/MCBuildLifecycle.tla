--------------------------- MODULE MCBuildLifecycle ---------------------------
(* Small instances of BuildLifecycle for TLC. *)
EXTENDS BuildLifecycle, TLC

CONSTANTS b1, b2, b3, d1

OneBuild    == {b1}
TwoBuilds   == {b1, b2}
ThreeBuilds == {b1, b2, b3}
BuildsAndDownload == {b1, b2, d1}
OneDownload == {d1}
NoDownload  == {}

\* Index builds are interchangeable (used for safety runs only).
SymmetricBuilds == Permutations({b1, b2})
=============================================================================
