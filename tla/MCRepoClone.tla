---------------------------- MODULE MCRepoClone ----------------------------
(* Small instances of RepoClone: the paths are the default destinations;   *)
(* two hosts may have a repository of one name.                            *)
EXTENDS RepoClone, TLC

CONSTANTS w1, w2, r1, r2, p1, p2, acmeApi, acmeWeb, api, web, hostA, hostB, c1, c2

MCTypeOf      == [s \in Sources |-> RepositoryType]
MCPaths       == Directories \X Names
MCDestination == [x \in MCPaths |-> x]
MCOwnerOf     == [k \in ExternalKeys |-> "acme"]
MCNameOf      == [k \in ExternalKeys |-> IF k = acmeWeb THEN web ELSE api]

MCLower ==
    [w \in Sources \cup {"https", "git", "acme", api, web, "GitHub", "github", "22"} |->
        IF w = "GitHub" THEN "github" ELSE w]

MCItemSets ==
    SUBSET {[provider |-> p, key |-> k, name |-> NameOf[k]] : p \in ProviderIds, k \in ExternalKeys}

Symmetry == Permutations(WorkspaceIds) \cup Permutations(ResourceIds)
              \cup Permutations(Sources) \cup Permutations(Procs)

(* Two repositories differ in nothing but their name.                      *)
SwapRepositories == acmeApi :> acmeWeb @@ acmeWeb :> acmeApi @@ api :> web @@ web :> api

SymmetryOfRepositories == Symmetry \cup {SwapRepositories}
=============================================================================
