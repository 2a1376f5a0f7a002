------------------------- MODULE ConfluenceDiscover -------------------------
(***************************************************************************)
(* The discovery of the pages of a space, or of the descendants of a root  *)
(* page, by offset: each request names the index to start from, and        *)
(* the site answers with the pages from there in its present order.  Pages *)
(* are added and removed between two requests, which shifts the others.    *)
(***************************************************************************)
EXTENDS Naturals, Sequences, SequencesExt

CONSTANTS
    Pages,       \* page IDs
    RootPage,    \* the configured root page, NULL for the whole space
    Limit,       \* results per request
    FirstSites,  \* the sites that are considered at the start
    MaxEdits,    \* bound on the edits and the wrong sizes during one discovery
    NULL

ASSUME DiscoverAssumption ==
    /\ Limit \in Nat \ {0}
    /\ MaxEdits \in Nat
    /\ NULL \notin Pages
    /\ RootPage \in Pages \cup {NULL}

IsSite(pages) == IsInjective(pages) /\ RootPage \notin Range(pages)

ASSUME SitesAssumption == \A pages \in FirstSites : pages \in Seq(Pages) /\ IsSite(pages)

VARIABLES
    site,     \* the pages to discover, in the order of the site
    edits,    \* how often the site changed since the discovery began
    kept,     \* the pages that were there all the time
    removed,  \* whether a page was removed since
    wrong,    \* how often the site has reported a wrong size since
    client    \* the running or finished discovery

discover == <<site, edits, kept, removed, wrong, client>>

Client == [pc : {"none", "root", "paging", "done", "failed"},
           start : Nat, seen : SUBSET Nat, found : Seq(Pages)]

NewClient == [pc |-> IF RootPage = NULL THEN "paging" ELSE "root",
              start |-> 0, seen |-> {}, found |-> <<>>]

Running == client.pc \in {"root", "paging"}

DiscoverInit ==
    /\ site \in FirstSites
    /\ edits = 0
    /\ kept = Range(site)
    /\ removed = FALSE
    /\ wrong = 0
    /\ client = [NewClient EXCEPT !.pc = "none"]

-----------------------------------------------------------------------------
(* Client.Discover *)

StartDiscovery ==
    /\ ~Running
    /\ client' = NewClient
    /\ edits' = 0
    /\ kept' = Range(site)
    /\ removed' = FALSE
    /\ wrong' = 0
    /\ UNCHANGED site

(* The root page is the first page, and its descendants follow.            *)
FetchRoot ==
    /\ client.pc = "root"
    /\ client' = [client EXCEPT !.pc = "paging", !.found = <<RootPage>>]
    /\ UNCHANGED <<site, edits, kept, removed, wrong>>

(* A request that fails, or a page that is not of the space.               *)
FailDiscovery ==
    /\ Running
    /\ client' = [client EXCEPT !.pc = "failed"]
    /\ UNCHANGED <<site, edits, kept, removed, wrong>>

(* What the site has from an index on.                                     *)
Honest(start) ==
    LET results == SubSeq(site, start + 1, IF start + Limit < Len(site) THEN start + Limit ELSE Len(site))
    IN  [start |-> start, results |-> results, size |-> Len(results),
         next |-> start + Limit < Len(site)]

(* The answer of the site to a request; a faulty one repeats a result page *)
(* or promises more where there is nothing.                                *)
Answers(start) ==
    {Honest(start), [Honest(start) EXCEPT !.start = 0], [Honest(start) EXCEPT !.size = 0],
     [Honest(start) EXCEPT !.next = TRUE]}

(* A wrong size that is positive and followed by a promise of more, which  *)
(* the client believes.                                                    *)
WrongAnswers(start) ==
    {[Honest(start) EXCEPT !.size = size, !.next = TRUE] :
        size \in (1 .. Limit + 1) \ {Honest(start).size}}

(* Fault: the next start is one too far.                                   *)
ReceiveSkipping(answer) ==
    LET found == client.found \o answer.results
    IN  client' = IF answer.next
                  THEN [client EXCEPT !.start = @ + answer.size + 1, !.found = found]
                  ELSE [client EXCEPT !.pc = "done", !.found = found]

(* Fault: a page that was found before is taken for the end.               *)
ReceiveUntilKnown(answer) ==
    LET found == client.found \o answer.results
        asked == [client EXCEPT !.seen = @ \cup {client.start}]
    IN  client' =
          IF client.start \in client.seen \/ answer.start # client.start
          THEN [asked EXCEPT !.pc = "failed"]
          ELSE IF ~answer.next \/ Range(answer.results) \cap Range(client.found) # {}
          THEN [asked EXCEPT !.pc = "done", !.found = found]
          ELSE IF answer.size <= 0
          THEN [asked EXCEPT !.pc = "failed", !.found = found]
          ELSE [asked EXCEPT !.start = @ + answer.size, !.found = found]

(* Fault: a repeated page makes the discovery start again.                 *)
ReceiveRestarting(answer) ==
    LET found == client.found \o answer.results
    IN  client' =
          IF client.start \in client.seen \/ answer.start # client.start
          THEN NewClient
          ELSE IF ~answer.next
          THEN [client EXCEPT !.pc = "done", !.found = found]
          ELSE [client EXCEPT !.seen = @ \cup {client.start}, !.start = @ + answer.size,
                              !.found = found]

(* One turn of the loop with the given answer.                             *)
Receive(answer) ==
    LET found == client.found \o answer.results
        asked == [client EXCEPT !.seen = @ \cup {client.start}]
    IN  client' =
          IF client.start \in client.seen \/ answer.start # client.start
          THEN [asked EXCEPT !.pc = "failed"]
          ELSE IF ~answer.next
          THEN [asked EXCEPT !.pc = "done", !.found = found]
          ELSE IF answer.size <= 0
          THEN [asked EXCEPT !.pc = "failed", !.found = found]
          ELSE [asked EXCEPT !.start = @ + answer.size, !.found = found]

RequestPage ==
    /\ client.pc = "paging"
    /\ \/ /\ \E answer \in Answers(client.start) : Receive(answer)
          /\ wrong' = wrong
       \/ /\ edits + wrong < MaxEdits
          /\ \E answer \in WrongAnswers(client.start) : Receive(answer)
          /\ wrong' = wrong + 1
    /\ UNCHANGED <<site, edits, kept, removed>>

-----------------------------------------------------------------------------
(* The authors of the site. *)

Editable == Running /\ edits + wrong < MaxEdits

AddPage(page, i) ==
    /\ Editable
    /\ page \notin Range(site) \cup {RootPage}
    /\ site' = InsertAt(site, i, page)
    /\ edits' = edits + 1
    /\ UNCHANGED <<kept, removed, wrong, client>>

RemovePage(i) ==
    /\ Editable
    /\ kept' = kept \ {site[i]}
    /\ site' = RemoveAt(site, i)
    /\ edits' = edits + 1
    /\ removed' = TRUE
    /\ UNCHANGED <<wrong, client>>

EditSite ==
    \/ \E page \in Pages, i \in 1 .. Len(site) + 1 : AddPage(page, i)
    \/ \E i \in 1 .. Len(site) : RemovePage(i)

DiscoveryStep == FetchRoot \/ RequestPage \/ FailDiscovery

-----------------------------------------------------------------------------
(* Properties. *)

(* The site and the client have their types.                               *)
DiscoverTypeOK ==
    /\ site \in Seq(Pages) /\ IsSite(site)
    /\ edits \in Nat /\ wrong \in Nat /\ edits + wrong <= MaxEdits
    /\ kept \subseteq Range(site)
    /\ removed \in BOOLEAN
    /\ client \in Client

(* A discovery that succeeds on a site that did not change, and that       *)
(* reported no wrong size, returns every page of it once, in order, the    *)
(* root page first.                                                        *)
QuietIsExact ==
    (client.pc = "done" /\ edits = 0 /\ wrong = 0) =>
        client.found = (IF RootPage = NULL THEN <<>> ELSE <<RootPage>>) \o site

(* Pages that are added in between push others onto the next result page,  *)
(* where they are reported twice, but no page that was there all the time  *)
(* is missed; only a removal, or a wrong size, can hide one.               *)
AdditionsHideNothing ==
    (client.pc = "done" /\ ~removed /\ wrong = 0) => kept \subseteq Range(client.found)
=============================================================================
