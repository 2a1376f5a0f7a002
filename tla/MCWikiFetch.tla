---------------------------- MODULE MCWikiFetch ----------------------------
(* Small instances of WikiFetch: the paths are the destinations.           *)
EXTENDS WikiFetch, TLC

CONSTANTS w1, w2, n1, n2, r1, r2, p1, p2, t1, t2, siteA, siteB, c1, c2

MCTypeOf   == [s \in Sources |-> PageType]
MCPaths    == Directories \X ProviderIds \X Names
MCFilename == [x \in MCPaths |-> x]

MCLowerCaseOf == ("A" :> "a") @@ ("a" :> "a") @@ ("7" :> "7")

MCItemSets ==
    SUBSET [provider : ProviderIds, key : ExternalKeys, name : Names]

Symmetry == Permutations(WorkspaceIds) \cup Permutations(WorkspaceNames)
              \cup Permutations(ResourceIds) \cup Permutations(Sources)
              \cup Permutations(Names) \cup Permutations(Procs)
=============================================================================
