------------------------ MODULE MCRefreshTransaction ------------------------
(* A small registry whose site reports two pages in sequences.             *)
EXTENDS RefreshTransaction, TLC

CONSTANTS w1, w2, r1, r2, r3, page, note, wikiSite, n1, n2, p1, p2, f1, f2

MCWorkspaceIds == {w1, w2}
MCResourceIds  == {r1, r2, r3}
MCTypeOf       == [s \in {wikiSite} |-> page]

Page(p) == [provider |-> p, key |-> "k", name |-> "title"]

(* Discovery may report nothing, two pages, one page twice (it moved       *)
(* between two result pages), or a page without an ID.                     *)
MCBatches ==
    {<<>>, <<Page(p1), Page(p2)>>, <<Page(p1), Page(p1)>>, <<Page(p1), Page(NULL)>>}

MCItemSets == {{batch[i] : i \in DOMAIN batch} : batch \in MCBatches}

Symmetry == Permutations(MCWorkspaceIds) \cup Permutations(MCResourceIds)
              \cup Permutations(WorkspaceNames) \cup Permutations(Paths)
=============================================================================
