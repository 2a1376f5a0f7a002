------------------------- MODULE MCWorkspaceConfig -------------------------
(* Two workspaces that may take one name in turn, two user entries and an  *)
(* internal one, two editors.                                              *)
EXTENDS WorkspaceConfig, TLC

CONSTANTS w1, w2, k1, k2, e1, e2

Symmetry == Permutations({w1, w2}) \cup Permutations({k1, k2}) \cup Permutations({e1, e2})
=============================================================================
