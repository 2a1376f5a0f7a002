----------------------------- MODULE Selection -----------------------------
(***************************************************************************)
(* How the selectors of repo clone and wiki fetch choose among the listed  *)
(* resources.  A selector is a key (the owner/name of a repository, the ID *)
(* of a page) or else a unique name (the short name, the title).           *)
(* Resources of several hosts or sites may have one key:                   *)
(* repository.Select then takes the last of the list, wiki.Select the      *)
(* first.                                                                  *)
(***************************************************************************)
EXTENDS Naturals, Sequences, FiniteSets, FiniteSetsExt, SequencesExt

(* A listing is a sequence of rows with a resource, a key and a name.      *)
Keyed(rows, selector) == {i \in DOMAIN rows : rows[i].key = selector}
Named(rows, selector) == {i \in DOMAIN rows : rows[i].name = selector}

(* A map keeps the last row of a key; the loop over the pages stops at the *)
(* first.                                                                  *)
ByKey(rows, selector, domain) ==
    IF domain = "repository" THEN {Max(Keyed(rows, selector))}
                             ELSE {Min(Keyed(rows, selector))}

(* Fault: the loop over the pages does not stop at the first of a key.     *)
MatchesEvery(rows, selector, domain) ==
    IF Keyed(rows, selector) # {} THEN Keyed(rows, selector) ELSE Named(rows, selector)

Matches(rows, selector, domain) ==
    IF Keyed(rows, selector) # {} THEN ByKey(rows, selector, domain)
                                  ELSE Named(rows, selector)

(* Not found or ambiguous: one such selector fails the command.            *)
Accepted(rows, selectors, domain) ==
    \A k \in DOMAIN selectors : Cardinality(Matches(rows, selectors[k], domain)) = 1

(* Fault: a resource named twice is selected twice.                        *)
AddEach(selected, row) == Append(selected, row)

AddOnce(selected, row) ==
    IF \E i \in DOMAIN selected : selected[i].resource = row.resource
    THEN selected
    ELSE Append(selected, row)

(* Select, for selectors that are accepted.                                *)
Selected(rows, selectors, domain) ==
    LET add(selected, selector) ==
          AddOnce(selected, rows[CHOOSE i \in Matches(rows, selector, domain) : TRUE])
    IN  FoldLeft(add, <<>>, selectors)

-----------------------------------------------------------------------------
(* What a selection has to be. *)

(* A row the user of the selector may have meant: one of that key, or when *)
(* there is none the only one of that name.                                *)
Meant(rows, selector) ==
    IF Keyed(rows, selector) # {} THEN {rows[i] : i \in Keyed(rows, selector)}
    ELSE IF Cardinality(Named(rows, selector)) = 1
         THEN {rows[i] : i \in Named(rows, selector)}
         ELSE {}

(* Every selector is answered with a selected row it may mean, the same    *)
(* one whenever it is repeated; every selected row answers a selector, and *)
(* the rows are distinct, in the order in which they were first named.     *)
Answering(answer, chosen, rows, selectors) ==
    LET first(i) == Min({k \in DOMAIN selectors : answer[k] = i})
    IN  /\ \A k \in DOMAIN selectors :
              /\ chosen[answer[k]] \in Meant(rows, selectors[k])
              /\ \A j \in DOMAIN selectors :
                    selectors[j] = selectors[k] => answer[j] = answer[k]
        /\ \A i \in DOMAIN chosen : \E k \in DOMAIN selectors : answer[k] = i
        /\ \A i, j \in DOMAIN chosen :
              i < j => chosen[i].resource # chosen[j].resource /\ first(i) < first(j)

(* Every selector has a row it may mean, or nothing is selected.           *)
IsSelection(rows, selectors, domain) ==
    /\ Accepted(rows, selectors, domain)
          <=> \A k \in DOMAIN selectors : Meant(rows, selectors[k]) # {}
    /\ Accepted(rows, selectors, domain) =>
          LET chosen == Selected(rows, selectors, domain)
          IN  \E answer \in [DOMAIN selectors -> DOMAIN chosen] :
                  Answering(answer, chosen, rows, selectors)
=============================================================================
