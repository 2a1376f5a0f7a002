----------------------------- MODULE MCRelease -----------------------------
(* Two commits report version v1 and one reports v2; one platform, whose   *)
(* archive and checksums two installations download.  Three builds are     *)
(* enough for a release that is created, left by an interrupted upload and *)
(* repaired, and for one whose creation is cancelled before that.          *)
EXTENDS Release, TLC

CONSTANTS commit1, commit2, commit3, v1, v2, darwin, i1, i2

MCVersionOf == commit1 :> v1 @@ commit2 :> v1 @@ commit3 :> v2

Symmetry == Permutations({commit1, commit2}) \cup Permutations(Installers)
=============================================================================
