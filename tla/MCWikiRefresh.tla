---------------------------- MODULE MCWikiRefresh ----------------------------
(* Up to four pages below a root page at the start, two per request, and   *)
(* two refreshes.  At least one page is left to add, so that an addition   *)
(* pushes others onto the next result page.  The order of the names of the *)
(* pages does not matter.                                                  *)
EXTENDS WikiRefresh

CONSTANTS p1, p2, p3, p4, p5, root

MCFirstSites == {<<>>, <<p1>>, <<p1, p2>>, <<p1, p2, p3>>, <<p1, p2, p3, p4>>}
=============================================================================
