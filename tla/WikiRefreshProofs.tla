-------------------------- MODULE WikiRefreshProofs --------------------------
(***************************************************************************)
(* What a wiki refresh shows and finds, for sites, result pages and roots  *)
(* of every size, any number of edits and of refreshes.  Two invariants    *)
(* are kept apart: where the two goroutines are when one of them writes,   *)
(* and what the client has while it goes through the result pages.         *)
(***************************************************************************)
EXTENDS WikiRefresh, SequenceTheorems, TLAPS

-----------------------------------------------------------------------------
(* What an insertion and a removal do to a sequence.                       *)

LEMMA InsertAtFacts ==
    ASSUME NEW S, NEW s \in Seq(S), NEW i \in 1 .. Len(s) + 1, NEW e \in S
    PROVE  /\ InsertAt(s, i, e) \in Seq(S)
           /\ Len(InsertAt(s, i, e)) = Len(s) + 1
           /\ \A k \in 1 .. Len(s) + 1 :
                InsertAt(s, i, e)[k] = IF k < i THEN s[k] ELSE IF k = i THEN e ELSE s[k - 1]
  <1> DEFINE before == SubSeq(s, 1, i - 1)
             after  == SubSeq(s, i, Len(s))
  <1>1. /\ before \in Seq(S) /\ Len(before) = i - 1
        /\ \A k \in 1 .. i - 1 : before[k] = s[k]
    BY SubSeqProperties, ElementOfSeq
  <1>2. /\ after \in Seq(S) /\ Len(after) = Len(s) - i + 1
        /\ \A k \in 1 .. Len(s) - i + 1 : after[k] = s[i + k - 1]
    BY SubSeqProperties, ElementOfSeq
  <1> HIDE DEF before, after
  <1>3. /\ before \o <<e>> \in Seq(S) /\ Len(before \o <<e>>) = i
        /\ \A k \in 1 .. i : (before \o <<e>>)[k] = IF k < i THEN s[k] ELSE e
    BY <1>1, ConcatProperties
  <1>4. InsertAt(s, i, e) = (before \o <<e>>) \o after
    BY DEF InsertAt, before, after
  <1> QED BY SMTT(30), <1>2, <1>3, <1>4, ConcatProperties

LEMMA RemoveAtFacts ==
    ASSUME NEW S, NEW s \in Seq(S), NEW i \in 1 .. Len(s)
    PROVE  /\ RemoveAt(s, i) \in Seq(S)
           /\ Len(RemoveAt(s, i)) = Len(s) - 1
           /\ \A k \in 1 .. Len(s) - 1 : RemoveAt(s, i)[k] = IF k < i THEN s[k] ELSE s[k + 1]
  <1> DEFINE before == SubSeq(s, 1, i - 1)
             after  == SubSeq(s, i + 1, Len(s))
  <1>1. /\ before \in Seq(S) /\ Len(before) = i - 1
        /\ \A k \in 1 .. i - 1 : before[k] = s[k]
    BY SubSeqProperties, ElementOfSeq
  <1>2. /\ after \in Seq(S) /\ Len(after) = Len(s) - i
        /\ \A k \in 1 .. Len(s) - i : after[k] = s[i + k]
    BY SubSeqProperties, ElementOfSeq
  <1> HIDE DEF before, after
  <1>3. RemoveAt(s, i) = before \o after
    BY DEF RemoveAt, before, after
  <1>4. /\ before \o after \in Seq(S) /\ Len(before \o after) = Len(s) - 1
        /\ \A k \in 1 .. Len(s) - 1 :
             (before \o after)[k] = IF k <= i - 1 THEN before[k] ELSE after[k - (i - 1)]
    <2>1. Len(before) + Len(after) = Len(s) - 1
      BY <1>1, <1>2, LenProperties
    <2>2. /\ before \o after \in Seq(S) /\ Len(before \o after) = Len(before) + Len(after)
          /\ \A k \in 1 .. Len(before) + Len(after) :
               (before \o after)[k] = IF k <= Len(before) THEN before[k] ELSE after[k - Len(before)]
      BY <1>1, <1>2, ConcatProperties
    <2> QED BY <1>1, <2>1, <2>2
  <1>5. ASSUME NEW k \in 1 .. Len(s) - 1, k > i - 1
        PROVE  after[k - (i - 1)] = s[k + 1]
    <2>1. k - (i - 1) \in 1 .. Len(s) - i /\ i + (k - (i - 1)) = k + 1
      BY <1>5, LenProperties
    <2> QED BY <1>2, <2>1
  <1>6. ASSUME NEW k \in 1 .. Len(s) - 1
        PROVE  RemoveAt(s, i)[k] = IF k < i THEN s[k] ELSE s[k + 1]
    <2>1. CASE k < i
      <3>1. k <= i - 1 /\ k \in 1 .. i - 1
        BY <2>1
      <3> QED BY <1>1, <1>3, <1>4, <2>1, <3>1
    <2>2. CASE ~(k < i)
      <3>1. k > i - 1 /\ ~(k <= i - 1)
        BY <2>2
      <3> QED BY <1>3, <1>4, <1>5, <2>2, <3>1
    <2> QED BY <2>1, <2>2
  <1> QED BY <1>3, <1>4, <1>6

-----------------------------------------------------------------------------
(* The display. *)

(* The spinner's goroutine lives from the start of an action until stopped *)
(* is closed, and the caller reports only then.                            *)
DisplayInv ==
    /\ ProgressTypeOK
    /\ runs = Len(lines)
    /\ caller # "idle" => runs > 0
    /\ caller \in {"action", "deferred"} => ~stop /\ ~stopped /\ spinner # "none"
    /\ caller = "waiting" => (stopped <=> spinner = "none")
    /\ caller \in {"idle", "reporting", "panicking"} => spinner = "none"
    /\ "spinner" \in writers <=> spinner = "drawing"
    /\ "caller" \in writers <=> caller = "reporting"
    /\ \A r \in 1 .. runs - 1 : lines[r] # "frame"

(* The outcome that is reported says whether the pages are stored.         *)
OutcomeInv ==
    /\ stored \in BOOLEAN
    /\ caller \in {"deferred", "waiting", "reporting"} => (outcome = "returned" <=> stored)
    /\ (caller \in {"idle", "panicking"} /\ runs > 0) =>
         lines[runs] = IF stored THEN "done" ELSE "failed"

ReportInv == DisplayInv /\ OutcomeInv

LEMMA InitReportInv == Init => ReportInv
  <1> SUFFICES ASSUME Init PROVE ReportInv
    OBVIOUS
  <1>1. lines \in Seq({"frame", "done", "failed"}) /\ Len(lines) = 0
    BY EmptySeq DEF Init, ProgressInit
  <1>2. {tick, ticking, stop, stopped} \subseteq BOOLEAN
    BY DEF Init, ProgressInit
  <1>3. ProgressTypeOK
    BY <1>1, <1>2, ProgressAssumption DEF Init, ProgressInit, ProgressTypeOK, Outcomes
  <1>4. stored \in BOOLEAN
    BY DEF Init
  <1> QED BY <1>1, <1>3, <1>4 DEF Init, ProgressInit, ReportInv, DisplayInv, OutcomeInv

LEMMA RedrawFacts ==
    ASSUME DisplayInv, runs > 0, NEW text \in {"frame", "done", "failed"}, Redraw(text)
    PROVE  /\ lines' \in Seq({"frame", "done", "failed"})
           /\ Len(lines') = Len(lines)
           /\ lines'[runs] = text
           /\ \A r \in 1 .. runs - 1 : lines'[r] = lines[r]
  <1>1. lines \in Seq({"frame", "done", "failed"}) /\ runs \in 1 .. Len(lines)
    BY ProgressAssumption DEF DisplayInv, ProgressTypeOK
  <1> QED BY <1>1, ExceptSeq DEF Redraw

LEMMA BeginReports ==
    ASSUME ReportInv, Begin
    PROVE  ReportInv'
  <1>1. /\ lines \in Seq({"frame", "done", "failed"}) /\ runs \in Nat /\ runs = Len(lines)
        /\ \A r \in 1 .. runs : lines[r] # "frame"
    BY LenProperties DEF ReportInv, DisplayInv, OutcomeInv, ProgressTypeOK, Begin, Run
  <1>2. /\ lines' \in Seq({"frame", "done", "failed"}) /\ Len(lines') = runs + 1
        /\ \A r \in 1 .. runs : lines'[r] = lines[r]
    BY <1>1, AppendProperties DEF Begin, Run
  <1>3. runs' = runs + 1 /\ runs' \in 0 .. MaxRuns
    BY <1>1, ProgressAssumption DEF Begin, Run
  <1>4. ProgressTypeOK'
    BY <1>2, <1>3 DEF Begin, Run, ReportInv, DisplayInv, ProgressTypeOK
  <1>5. stored' \in BOOLEAN
    BY DEF Begin
  <1> QED
    BY <1>1, <1>2, <1>3, <1>4, <1>5 DEF Begin, Run, ReportInv, DisplayInv, OutcomeInv

LEMMA ActionReports ==
    ASSUME ReportInv, Discover \/ StorePages \/ Return \/ Panic \/ Authors
    PROVE  ReportInv'
  <1>1. CASE Discover
    BY <1>1 DEF Discover, progress, ReportInv, DisplayInv, OutcomeInv, ProgressTypeOK
  <1>2. CASE Return
    BY <1>2 DEF Return, discover, ActionEnds, ReportInv, DisplayInv, OutcomeInv, ProgressTypeOK, Outcomes
  <1>3. CASE Panic
    BY <1>3 DEF Panic, ActionEnds, ReportInv, DisplayInv, OutcomeInv, ProgressTypeOK, Outcomes
  <1>4. CASE Authors
    BY <1>4 DEF Authors, EditSite, AddPage, RemovePage, Editable, progress, ReportInv, DisplayInv, OutcomeInv, ProgressTypeOK
  <1>5. CASE StorePages
    BY <1>5 DEF StorePages, progress, ReportInv, DisplayInv, OutcomeInv, ProgressTypeOK
  <1> QED BY <1>1, <1>2, <1>3, <1>4, <1>5

LEMMA DisplayReports ==
    ASSUME ReportInv, Display
    PROVE  ReportInv'
  <1> USE DEF ReportInv, DisplayInv, OutcomeInv, ProgressTypeOK
  <1>0. UNCHANGED stored /\ runs \in Nat
    BY DEF Display
  <1>1. CASE StopSpinner
    BY <1>0, <1>1 DEF StopSpinner
  <1>2. CASE BeginOutcome
    BY <1>0, <1>2 DEF BeginOutcome
  <1>3. CASE EndOutcome
    BY <1>0, <1>3, RedrawFacts DEF EndOutcome, Label
  <1>4. CASE Tick
    BY <1>0, <1>4 DEF Tick
  <1>5. CASE BeginFrame
    BY <1>0, <1>5 DEF BeginFrame
  <1>6. CASE EndFrame
    BY <1>0, <1>6, RedrawFacts DEF EndFrame
  <1>7. CASE SpinnerReturns
    BY <1>0, <1>7 DEF SpinnerReturns
  <1> QED BY <1>1, <1>2, <1>3, <1>4, <1>5, <1>6, <1>7 DEF Display, Report, Spinner

-----------------------------------------------------------------------------
(* The discovery. *)

Root == IF RootPage = NULL THEN <<>> ELSE <<RootPage>>

(* Page p waits on a result page that was not requested yet.               *)
Ahead(p) == \E i \in DOMAIN site : i > client.start /\ site[i] = p

(* As long as no size was wrong: on a site that did not change the client  *)
(* has the pages before the next index, and if nothing was removed, every  *)
(* page that stays is found or ahead.                                      *)
DiscoveryInv ==
    /\ DiscoverTypeOK
    /\ edits = 0 => ~removed
    /\ client.pc = "root" => RootPage # NULL /\ client.start = 0
    /\ (Running /\ ~removed /\ wrong = 0) =>
         /\ client.start <= Len(site)
         /\ \A p \in kept : p \in Range(client.found) \/ Ahead(p)
    /\ (client.pc = "paging" /\ edits = 0 /\ wrong = 0) =>
         client.found = Root \o SubSeq(site, 1, client.start)
    /\ QuietIsExact
    /\ AdditionsHideNothing

LEMMA RootTyped == Root \in Seq(Pages)
  BY DiscoverAssumption, EmptySeq DEF Root

LEMMA InRange ==
    ASSUME NEW S, NEW s \in Seq(S), NEW p
    PROVE  p \in Range(s) <=> \E i \in 1 .. Len(s) : s[i] = p
  BY LenProperties DEF Range

(* What is found stays found.                                              *)
LEMMA RangeGrows ==
    ASSUME NEW S, NEW s \in Seq(S), NEW t \in Seq(S)
    PROVE  Range(s \o t) = Range(s) \cup Range(t)
  BY RangeConcatenation

LEMMA NewClientFacts ==
    /\ NewClient \in Client
    /\ NewClient.start = 0 /\ NewClient.found = <<>>
    /\ NewClient.pc = IF RootPage = NULL THEN "paging" ELSE "root"
  <1> DEFINE pc == IF RootPage = NULL THEN "paging" ELSE "root"
  <1>1. pc \in {"paging", "root"}
    OBVIOUS
  <1>2. NewClient = [pc |-> pc, start |-> 0, seen |-> {}, found |-> <<>>]
    BY DEF NewClient
  <1> HIDE DEF pc
  <1>3. NewClient \in Client /\ NewClient.start = 0 /\ NewClient.found = <<>> /\ NewClient.pc = pc
    BY <1>1, <1>2, EmptySeq DEF Client
  <1> QED BY <1>3 DEF pc

LEMMA InitDiscoveryInv == Init => DiscoveryInv
  <1> SUFFICES ASSUME Init PROVE DiscoveryInv
    OBVIOUS
  <1>1. site \in Seq(Pages) /\ IsSite(site)
    BY SitesAssumption DEF Init, DiscoverInit
  <1>2. client \in Client /\ client.pc = "none"
    BY NewClientFacts DEF Init, DiscoverInit, Client
  <1>3. edits = 0 /\ wrong = 0 /\ removed = FALSE /\ kept = Range(site)
    BY DEF Init, DiscoverInit
  <1>4. DiscoverTypeOK
    <2>1. edits \in Nat /\ wrong \in Nat /\ edits + wrong <= MaxEdits
      BY <1>3, DiscoverAssumption
    <2>2. removed \in BOOLEAN
      BY <1>3
    <2> QED BY <1>1, <1>2, <1>3, <2>1, <2>2 DEF DiscoverTypeOK
  <1> QED BY <1>2, <1>3, <1>4 DEF DiscoveryInv, Running, QuietIsExact, AdditionsHideNothing

LEMMA StartDiscovers ==
    ASSUME DiscoveryInv, StartDiscovery
    PROVE  DiscoveryInv'
  <1>0. site \in Seq(Pages) /\ IsSite(site)
    BY DEF DiscoveryInv, DiscoverTypeOK
  <1>1. /\ client' \in Client /\ client'.start = 0 /\ client'.found = <<>>
        /\ client'.pc = IF RootPage = NULL THEN "paging" ELSE "root"
    BY NewClientFacts DEF StartDiscovery
  <1>2. edits' = 0 /\ wrong' = 0 /\ removed' = FALSE /\ kept' = Range(site) /\ site' = site
    BY DEF StartDiscovery
  <1>3. DiscoverTypeOK'
    <2>1. edits' \in Nat /\ wrong' \in Nat /\ edits' + wrong' <= MaxEdits
      BY <1>2, DiscoverAssumption
    <2>2. removed' \in BOOLEAN
      BY <1>2
    <2>3. site' \in Seq(Pages) /\ IsSite(site)'
      BY <1>0, <1>2
    <2> QED BY <1>1, <1>2, <2>1, <2>2, <2>3 DEF DiscoverTypeOK
  <1>4. Len(site) \in Nat /\ SubSeq(site, 1, 0) = <<>>
    BY <1>0, LenProperties, SubSeqEmpty
  <1>5. \A p \in kept' : Ahead(p)'
    BY <1>0, <1>1, <1>2, InRange, LenProperties DEF Ahead
  <1>6. RootPage = NULL => client'.found = Root \o SubSeq(site, 1, 0)
    BY <1>1, <1>4, EmptySeq, ConcatEmptySeq DEF Root
  <1> QED
    BY <1>1, <1>2, <1>3, <1>4, <1>5, <1>6
       DEF DiscoveryInv, Running, QuietIsExact, AdditionsHideNothing

LEMMA RootDiscovers ==
    ASSUME DiscoveryInv, FetchRoot
    PROVE  DiscoveryInv'
  <1>1. /\ client \in Client /\ client.pc = "root" /\ client.start = 0 /\ RootPage \in Pages
        /\ RootPage # NULL /\ site \in Seq(Pages)
    BY DiscoverAssumption DEF FetchRoot, DiscoveryInv, DiscoverTypeOK
  <1>2. /\ client' \in Client /\ client'.pc = "paging" /\ client'.start = 0
        /\ client'.found = <<RootPage>>
    <2>1. <<RootPage>> \in Seq(Pages)
      BY <1>1
    <2>2. client' = [client EXCEPT !.pc = "paging", !.found = <<RootPage>>]
      BY DEF FetchRoot
    <2> QED BY <1>1, <2>1, <2>2 DEF Client
  <1>3. UNCHANGED <<site, edits, kept, removed, wrong>>
    BY DEF FetchRoot
  <1>4. DiscoverTypeOK'
    BY <1>2, <1>3 DEF DiscoveryInv, DiscoverTypeOK, IsSite, IsInjective, Range
  <1>5. SubSeq(site, 1, 0) = <<>> /\ client'.found = Root \o SubSeq(site, 1, 0)
    BY <1>1, <1>2, SubSeqEmpty, ConcatEmptySeq DEF Root
  <1>6. ~removed => \A p \in kept : Ahead(p)'
    <2> SUFFICES ASSUME NEW p \in kept PROVE Ahead(p)'
      OBVIOUS
    <2>1. p \in Range(site)
      BY DEF DiscoveryInv, DiscoverTypeOK
    <2>2. PICK i \in 1 .. Len(site) : site[i] = p
      BY <1>1, <2>1, InRange
    <2> QED BY <1>1, <1>2, <1>3, <2>2, LenProperties DEF Ahead
  <1>7. Len(site) \in Nat
    BY <1>1, LenProperties
  <1> QED
    BY <1>2, <1>3, <1>4, <1>5, <1>6, <1>7
       DEF DiscoveryInv, Running, QuietIsExact, AdditionsHideNothing

(* A discovery that fails promises nothing.                                *)
LEMMA FailureDiscovers ==
    ASSUME DiscoveryInv, client' = [client EXCEPT !.pc = "failed"],
           UNCHANGED <<site, edits, kept, removed, wrong>>
    PROVE  DiscoveryInv'
  <1>1. client' \in Client /\ client'.pc = "failed"
    BY DEF DiscoveryInv, DiscoverTypeOK, Client
  <1>2. DiscoverTypeOK'
    BY <1>1 DEF DiscoveryInv, DiscoverTypeOK, IsSite, IsInjective, Range
  <1> QED BY <1>1, <1>2 DEF DiscoveryInv, Running, QuietIsExact, AdditionsHideNothing

(* What every answer has in common, honest or not: the site answers with   *)
(* the pages up to some index, and says that there are no more only when   *)
(* this is the last.                                                       *)
LEMMA AnswerFacts ==
    ASSUME site \in Seq(Pages), NEW start \in Nat, NEW answer \in Answers(start)
    PROVE  \E last \in Nat :
             /\ answer.results = SubSeq(site, start + 1, last)
             /\ answer.results \in Seq(Pages)
             /\ answer.size \in Nat /\ answer.next \in BOOLEAN
             /\ start <= Len(site) => last \in start .. Len(site) /\ answer.size \in {0, last - start}
             /\ ~answer.next => last = Len(site)
  <1> DEFINE last    == IF start + Limit < Len(site) THEN start + Limit ELSE Len(site)
             results == SubSeq(site, start + 1, last)
             more    == start + Limit < Len(site)
             honest  == [start |-> start, results |-> results, size |-> Len(results), next |-> more]
  <1>1. /\ last \in Nat /\ last <= Len(site) /\ Len(site) \in Nat
        /\ start <= Len(site) => start <= last
    BY DiscoverAssumption, LenProperties
  <1>2. /\ results \in Seq(Pages) /\ Len(results) \in Nat
        /\ start <= Len(site) => Len(results) = last - start
    <2>1. \A i \in start + 1 .. last : site[i] \in Pages
      BY <1>1, ElementOfSeq
    <2> HIDE DEF last
    <2>2. /\ results \in Seq(Pages)
          /\ Len(results) = IF start + 1 <= last THEN last - (start + 1) + 1 ELSE 0
      BY <1>1, <2>1, SubSeqProperties
    <2> QED BY <1>1, <2>2
  <1>3. answer \in {honest, [honest EXCEPT !.start = 0], [honest EXCEPT !.size = 0],
                    [honest EXCEPT !.next = TRUE]}
    BY DEF Answers, Honest
  <1>4. more \in BOOLEAN
    OBVIOUS
  <1>5. more \/ last = Len(site)
    OBVIOUS
  <1> HIDE DEF last, results, more
  <1>6. \E size \in {0, Len(results)}, next \in BOOLEAN, first \in Nat :
          /\ answer = [start |-> first, results |-> results, size |-> size, next |-> next]
          /\ ~next => last = Len(site)
    <2>1. CASE answer = honest
      BY <1>4, <1>5, <2>1
    <2>2. CASE answer = [honest EXCEPT !.start = 0]
      <3>1. answer = [start |-> 0, results |-> results, size |-> Len(results), next |-> more]
        BY <2>2
      <3> QED BY <1>4, <1>5, <3>1
    <2>3. CASE answer = [honest EXCEPT !.size = 0]
      <3>1. answer = [start |-> start, results |-> results, size |-> 0, next |-> more]
        BY <2>3
      <3> QED BY <1>4, <1>5, <3>1
    <2>4. CASE answer = [honest EXCEPT !.next = TRUE]
      <3>1. answer = [start |-> start, results |-> results, size |-> Len(results), next |-> TRUE]
        BY <2>4
      <3> QED BY <3>1
    <2> QED BY <1>3, <2>1, <2>2, <2>3, <2>4
  <1>7. PICK size \in {0, Len(results)}, next \in BOOLEAN, first \in Nat :
          /\ answer = [start |-> first, results |-> results, size |-> size, next |-> next]
          /\ ~next => last = Len(site)
    BY <1>6
  <1>8. /\ answer.results = results /\ answer.size = size /\ answer.next = next
    BY <1>7
  <1> QED BY <1>1, <1>2, <1>7, <1>8 DEF results

(* What an answer adds to the pages before its start.                      *)
LEMMA ResultsFollow ==
    ASSUME site \in Seq(Pages), NEW start \in Nat, NEW last \in start .. Len(site)
    PROVE  /\ SubSeq(site, 1, start) \o SubSeq(site, start + 1, last) = SubSeq(site, 1, last)
           /\ \A i \in start + 1 .. last : site[i] \in Range(SubSeq(site, start + 1, last))
  <1>1. Len(site) \in Nat /\ \A i \in 1 .. Len(site) : site[i] \in Pages
    BY LenProperties, ElementOfSeq
  <1>2. SubSeq(site, 1, start) \o SubSeq(site, start + 1, last) = SubSeq(site, 1, last)
    BY <1>1, ConcatAdjacentSubSeq
  <1>3. ASSUME NEW i \in start + 1 .. last
        PROVE  site[i] \in Range(SubSeq(site, start + 1, last))
    <2> DEFINE results == SubSeq(site, start + 1, last)
    <2>1. /\ results \in Seq(Pages)
          /\ Len(results) = last - start
          /\ \A k \in 1 .. last - (start + 1) + 1 : results[k] = site[start + 1 + k - 1]
      <3>1. \A k \in start + 1 .. last : site[k] \in Pages
        BY <1>1
      <3>2. /\ results \in Seq(Pages)
            /\ Len(results) = IF start + 1 <= last THEN last - (start + 1) + 1 ELSE 0
            /\ \A k \in 1 .. last - (start + 1) + 1 : results[k] = site[start + 1 + k - 1]
        BY <1>1, <3>1, SubSeqProperties
      <3> QED BY <1>1, <3>2
    <2> HIDE DEF results
    <2>2. i - start \in 1 .. Len(results) /\ start + 1 + (i - start) - 1 = i
          /\ i - start \in 1 .. last - (start + 1) + 1
      BY <1>1, <2>1
    <2>3. results[i - start] = site[i]
      BY <2>1, <2>2
    <2>4. site[i] \in Range(results)
      BY <2>1, <2>2, <2>3, InRange
    <2> QED BY <2>4 DEF results
  <1> QED BY <1>2, <1>3

LEMMA RootThenMore ==
    \A before, results \in Seq(Pages) : (Root \o before) \o results = Root \o (before \o results)
  BY SMTT(30), RootTyped, ConcatAssociative

(* One turn of the loop ends the discovery, or goes on after the results.  *)
LEMMA ReceiveFacts ==
    ASSUME client \in Client, client.pc = "paging", NEW answer, Receive(answer),
           answer.results \in Seq(Pages), answer.size \in Nat, answer.next \in BOOLEAN
    PROVE  /\ client' \in Client
           /\ \/ client'.pc = "failed"
              \/ /\ client'.pc = "done" /\ ~answer.next
                 /\ client'.found = client.found \o answer.results
              \/ /\ client'.pc = "paging"
                 /\ client'.start = client.start + answer.size
                 /\ answer.size > 0
                 /\ client'.found = client.found \o answer.results
  <1> DEFINE found == client.found \o answer.results
             seen  == client.seen \cup {client.start}
             start == client.start + answer.size
  <1>1. found \in Seq(Pages) /\ seen \in SUBSET Nat /\ start \in Nat
    BY ConcatProperties DEF Client
  <1>2. \/ client' = [[client EXCEPT !.seen = seen] EXCEPT !.pc = "failed"]
        \/ client' = [[client EXCEPT !.seen = seen] EXCEPT !.pc = "failed", !.found = found]
        \/ /\ ~answer.next
           /\ client' = [[client EXCEPT !.seen = seen] EXCEPT !.pc = "done", !.found = found]
        \/ /\ answer.size > 0
           /\ client' = [[client EXCEPT !.seen = seen] EXCEPT !.start = start, !.found = found]
    BY DEF Receive, Client
  <1> HIDE DEF found, seen, start
  <1>3. /\ client' \in Client
        /\ \/ client'.pc = "failed"
           \/ client'.pc = "done" /\ ~answer.next /\ client'.found = found
           \/ client'.pc = "paging" /\ client'.start = start /\ answer.size > 0 /\ client'.found = found
    BY <1>1, <1>2 DEF Client
  <1> QED BY <1>3 DEF found, start

(* An answer whose size is right, or says that there is nothing.           *)
LEMMA AnswerDiscovers ==
    ASSUME DiscoveryInv, client.pc = "paging", UNCHANGED <<site, edits, kept, removed, wrong>>,
           NEW answer \in Answers(client.start), Receive(answer)
    PROVE  DiscoveryInv'
  <1>1. /\ client \in Client /\ site \in Seq(Pages) /\ Len(site) \in Nat
        /\ client.start \in Nat /\ client.found \in Seq(Pages)
        /\ kept \subseteq Range(site)
    BY LenProperties DEF DiscoveryInv, DiscoverTypeOK, Client
  <1>2. /\ (~removed /\ wrong = 0) =>
             /\ client.start <= Len(site)
             /\ \A p \in kept : p \in Range(client.found) \/ Ahead(p)
        /\ edits = 0 => ~removed
        /\ (edits = 0 /\ wrong = 0) => client.found = Root \o SubSeq(site, 1, client.start)
    BY <1>1 DEF DiscoveryInv, Running
  <1>3. PICK last \in Nat :
          /\ answer.results = SubSeq(site, client.start + 1, last)
          /\ answer.results \in Seq(Pages)
          /\ answer.size \in Nat /\ answer.next \in BOOLEAN
          /\ client.start <= Len(site) =>
               last \in client.start .. Len(site) /\ answer.size \in {0, last - client.start}
          /\ ~answer.next => last = Len(site)
    BY <1>1, AnswerFacts
  <1> DEFINE found == client.found \o answer.results
  (* The new result page continues what was found, and no page between is skipped. *)
  <1>4. (edits = 0 /\ wrong = 0) => found = Root \o SubSeq(site, 1, last)
    <2> SUFFICES ASSUME edits = 0, wrong = 0 PROVE found = Root \o SubSeq(site, 1, last)
      OBVIOUS
    <2>1. client.start \in Nat /\ last \in client.start .. Len(site)
      BY <1>1, <1>2, <1>3
    <2>2. \A i \in 1 .. client.start : site[i] \in Pages
      BY <1>1, <2>1, ElementOfSeq
    <2>3. SubSeq(site, 1, client.start) \in Seq(Pages)
      BY <2>1, <2>2, SubSeqProperties
    <2>4. found = Root \o (SubSeq(site, 1, client.start) \o answer.results)
      <3>1. client.found = Root \o SubSeq(site, 1, client.start) /\ answer.results \in Seq(Pages)
        BY <1>2, <1>3
      <3>2. PICK before \in Seq(Pages) : before = SubSeq(site, 1, client.start)
        BY <2>3
      <3>3. PICK results \in Seq(Pages) : results = answer.results
        BY <3>1
      <3>4. client.found \o results = Root \o (before \o results)
        BY ZenonT(60), <3>1, <3>2, RootThenMore
      <3> QED BY <3>2, <3>3, <3>4
    <2> QED BY <1>1, <1>3, <2>1, <2>4, ResultsFollow
  <1>5. (~removed /\ wrong = 0) =>
          \A p \in kept : p \in Range(found) \/ \E i \in DOMAIN site : i > last /\ site[i] = p
    <2> SUFFICES ASSUME ~removed, wrong = 0, NEW p \in kept
                 PROVE  p \in Range(found) \/ \E i \in DOMAIN site : i > last /\ site[i] = p
      OBVIOUS
    <2>1. Range(found) = Range(client.found) \cup Range(answer.results)
      <3>1. PICK before \in Seq(Pages), results \in Seq(Pages) :
              before = client.found /\ results = answer.results
        BY <1>1, <1>3
      <3>2. Range(before \o results) = Range(before) \cup Range(results)
        BY RangeGrows
      <3> QED BY <3>1, <3>2
    <2>2. CASE p \in Range(client.found)
      BY <2>1, <2>2
    <2>3. ASSUME NEW i \in DOMAIN site, i > client.start, site[i] = p, i <= last
          PROVE  p \in Range(answer.results)
      <3>1. last \in client.start .. Len(site) /\ i \in client.start + 1 .. last
        BY <1>1, <1>2, <1>3, <2>3, LenProperties
      <3> QED BY <1>1, <1>3, <2>3, <3>1, ResultsFollow
    <2>4. CASE Ahead(p)
      <3>1. PICK i \in DOMAIN site : i > client.start /\ site[i] = p
        BY <2>4 DEF Ahead
      <3>2. i \in 1 .. Len(site)
        BY <1>1, LenProperties
      <3> QED BY <2>1, <2>3, <3>1, <3>2
    <2> QED BY <1>2, <2>2, <2>4
  <1> HIDE DEF found
  <1>6. /\ client' \in Client
        /\ \/ client'.pc = "failed"
           \/ client'.pc = "done" /\ ~answer.next /\ client'.found = found
           \/ /\ client'.pc = "paging" /\ client'.start = client.start + answer.size
              /\ answer.size > 0 /\ client'.found = found
    BY <1>1, <1>3, ReceiveFacts DEF found
  <1>7. DiscoverTypeOK'
    BY <1>6 DEF DiscoveryInv, DiscoverTypeOK, IsSite, IsInjective, Range
  <1>8. CASE client'.pc = "failed"
    BY <1>2, <1>7, <1>8 DEF DiscoveryInv, Running, QuietIsExact, AdditionsHideNothing
  <1>9. CASE client'.pc = "done" /\ ~answer.next /\ client'.found = found
    <2>1. (edits = 0 /\ wrong = 0) => found = Root \o site
      BY <1>1, <1>3, <1>4, <1>9, SubSeqFull
    <2>2. (~removed /\ wrong = 0) => kept \subseteq Range(found)
      BY <1>1, <1>3, <1>5, <1>9, LenProperties
    <2> QED
      BY <1>2, <1>7, <1>9, <2>1, <2>2
         DEF DiscoveryInv, Running, QuietIsExact, AdditionsHideNothing, Root
  <1>10. CASE /\ client'.pc = "paging" /\ client'.start = client.start + answer.size
              /\ answer.size > 0 /\ client'.found = found
    <2>1. (~removed /\ wrong = 0) => client'.start = last /\ last <= Len(site)
      BY <1>1, <1>2, <1>3, <1>10
    <2>2. (~removed /\ wrong = 0) => \A p \in kept : p \in Range(found) \/ Ahead(p)'
      BY <1>5, <2>1 DEF Ahead
    <2> QED
      BY <1>2, <1>4, <1>7, <1>10, <2>1, <2>2
         DEF DiscoveryInv, Running, QuietIsExact, AdditionsHideNothing
  <1> QED BY <1>6, <1>8, <1>9, <1>10

(* After a wrong size nothing is promised.                                 *)
LEMMA WrongAnswerDiscovers ==
    ASSUME DiscoveryInv, client.pc = "paging", UNCHANGED <<site, edits, kept, removed>>,
           edits + wrong < MaxEdits, wrong' = wrong + 1,
           NEW answer \in WrongAnswers(client.start), Receive(answer)
    PROVE  DiscoveryInv'
  <1>1. /\ client \in Client /\ site \in Seq(Pages) /\ client.start \in Nat
        /\ edits \in Nat /\ wrong \in Nat
    BY DEF DiscoveryInv, DiscoverTypeOK, Client
  <1> DEFINE honest == Honest(client.start)
  <1>2. honest.results \in Seq(Pages)
    <2>1. honest \in Answers(client.start)
      BY DEF Answers
    <2> QED BY <1>1, <2>1, AnswerFacts
  <1>3. PICK size \in 1 .. Limit + 1 : answer = [honest EXCEPT !.size = size, !.next = TRUE]
    BY DEF WrongAnswers
  <1>4. honest = [start |-> honest.start, results |-> honest.results, size |-> honest.size,
                  next |-> honest.next]
    BY DEF Honest
  <1> HIDE DEF honest
  <1>5. answer.results \in Seq(Pages) /\ answer.size \in Nat /\ answer.next \in BOOLEAN
    <2>1. answer.results = honest.results /\ answer.size = size /\ answer.next = TRUE
      BY <1>3, <1>4
    <2>2. size \in Nat
      BY DiscoverAssumption
    <2> QED BY <1>2, <2>1, <2>2
  <1>6. client' \in Client /\ (client'.pc = "failed" \/ client'.pc = "paging" \/ client'.pc = "done")
    BY <1>1, <1>5, ReceiveFacts
  <1>7. wrong' \in Nat /\ wrong' # 0 /\ edits' + wrong' <= MaxEdits
    BY <1>1, DiscoverAssumption
  <1>8. DiscoverTypeOK'
    BY <1>6, <1>7 DEF DiscoveryInv, DiscoverTypeOK, IsSite, IsInjective, Range
  <1> QED
    BY <1>6, <1>7, <1>8 DEF DiscoveryInv, Running, QuietIsExact, AdditionsHideNothing

LEMMA RequestDiscovers ==
    ASSUME DiscoveryInv, RequestPage
    PROVE  DiscoveryInv'
  BY AnswerDiscovers, WrongAnswerDiscovers DEF RequestPage

LEMMA AdditionDiscovers ==
    ASSUME DiscoveryInv, NEW page \in Pages, NEW i \in 1 .. Len(site) + 1, AddPage(page, i)
    PROVE  DiscoveryInv'
  <1>1. /\ site \in Seq(Pages) /\ Len(site) \in Nat /\ IsSite(site) /\ client \in Client
        /\ client.start \in Nat /\ kept \subseteq Range(site)
        /\ edits \in Nat /\ wrong \in Nat /\ edits + wrong < MaxEdits
        /\ page \notin Range(site) /\ page # RootPage /\ Running
    BY DiscoverAssumption, LenProperties
       DEF AddPage, Editable, DiscoveryInv, DiscoverTypeOK, Client
  <1>2. /\ site' \in Seq(Pages) /\ Len(site') = Len(site) + 1
        /\ \A k \in 1 .. Len(site) + 1 :
             site'[k] = IF k < i THEN site[k] ELSE IF k = i THEN page ELSE site[k - 1]
    <2>1. site' = InsertAt(site, i, page)
      BY DEF AddPage
    <2>2. /\ InsertAt(site, i, page) \in Seq(Pages)
          /\ Len(InsertAt(site, i, page)) = Len(site) + 1
          /\ \A k \in 1 .. Len(site) + 1 :
               InsertAt(site, i, page)[k] = IF k < i THEN site[k] ELSE IF k = i THEN page ELSE site[k - 1]
      BY <1>1, InsertAtFacts
    <2> QED BY <2>1, <2>2
  <1>3. UNCHANGED <<kept, removed, wrong, client>> /\ edits' = edits + 1
    BY DEF AddPage
  (* A page at k is now at k or at k + 1. *)
  <1>4. ASSUME NEW k \in 1 .. Len(site)
        PROVE  \E j \in 1 .. Len(site') : j >= k /\ site'[j] = site[k]
    <2>1. CASE k < i
      BY <1>1, <1>2, <2>1
    <2>2. CASE k >= i
      <3>1. /\ k + 1 \in 1 .. Len(site) + 1 /\ ~(k + 1 < i) /\ k + 1 # i /\ (k + 1) - 1 = k
            /\ k + 1 >= k
        BY <1>1, <2>2
      <3>2. site'[k + 1] = site[k]
        BY <1>2, <3>1
      <3> QED BY <1>2, <3>1, <3>2
    <2> QED BY <1>1, <2>1, <2>2
  <1>5. kept \subseteq Range(site')
    <2> SUFFICES ASSUME NEW p \in kept PROVE p \in Range(site')
      OBVIOUS
    <2>1. PICK k \in 1 .. Len(site) : site[k] = p
      BY <1>1, InRange
    <2> QED BY <1>2, <1>4, <2>1, InRange
  <1>6. IsSite(site')
    <2>1. \A k \in 1 .. Len(site) : site[k] # page /\ site[k] # RootPage
      BY <1>1, InRange DEF IsSite
    <2>2. \A j, k \in 1 .. Len(site) : site[j] = site[k] => j = k
      BY <1>1, LenProperties DEF IsSite, IsInjective
    <2> DEFINE from(k) == IF k < i THEN k ELSE k - 1
    <2>3. \A k \in 1 .. Len(site) + 1 : k # i => from(k) \in 1 .. Len(site)
      BY <1>1
    <2>4. \A k \in 1 .. Len(site) + 1 : site'[k] = IF k = i THEN page ELSE site[from(k)]
      BY <1>2
    <2>5. \A j, k \in 1 .. Len(site) + 1 : (j # i /\ k # i /\ from(j) = from(k)) => j = k
      BY <1>1
    <2> HIDE DEF from
    <2>6. \A k \in 1 .. Len(site') : site'[k] # RootPage
      BY <1>1, <1>2, <2>1, <2>3, <2>4
    <2>7. \A j, k \in 1 .. Len(site') : site'[j] = site'[k] => j = k
      BY <1>2, <2>1, <2>2, <2>3, <2>4, <2>5
    <2>8. DOMAIN site' = 1 .. Len(site')
      BY <1>2, LenProperties
    <2> QED BY <1>2, <2>6, <2>7, <2>8, InRange DEF IsSite, IsInjective
  <1>7. DiscoverTypeOK'
    <2>1. edits' \in Nat /\ wrong' \in Nat /\ edits' + wrong' <= MaxEdits
      BY <1>1, <1>3, DiscoverAssumption
    <2> QED BY <1>1, <1>2, <1>3, <1>5, <1>6, <2>1 DEF DiscoveryInv, DiscoverTypeOK, IsSite
  <1>8. ASSUME NEW p \in kept, Ahead(p)
        PROVE  Ahead(p)'
    <2>1. PICK k \in 1 .. Len(site) : k > client.start /\ site[k] = p
      BY <1>1, <1>8, LenProperties DEF Ahead
    <2>2. PICK j \in 1 .. Len(site') : j >= k /\ site'[j] = p
      BY <1>4, <2>1
    <2>3. j > client.start /\ j \in DOMAIN site'
      BY <1>1, <1>2, <2>1, <2>2, LenProperties
    <2> QED BY <1>3, <2>2, <2>3 DEF Ahead
  <1> QED
    BY <1>1, <1>2, <1>3, <1>7, <1>8
       DEF DiscoveryInv, Running, QuietIsExact, AdditionsHideNothing

LEMMA RemovalDiscovers ==
    ASSUME DiscoveryInv, NEW i \in 1 .. Len(site), RemovePage(i)
    PROVE  DiscoveryInv'
  <1>1. /\ site \in Seq(Pages) /\ Len(site) \in Nat /\ IsSite(site) /\ client \in Client
        /\ edits \in Nat /\ wrong \in Nat /\ edits + wrong < MaxEdits
        /\ kept \subseteq Range(site) /\ Running
    BY DiscoverAssumption, LenProperties
       DEF RemovePage, Editable, DiscoveryInv, DiscoverTypeOK, Client
  <1>2. /\ site' \in Seq(Pages) /\ Len(site') = Len(site) - 1
        /\ \A k \in 1 .. Len(site) - 1 : site'[k] = IF k < i THEN site[k] ELSE site[k + 1]
    BY <1>1, RemoveAtFacts DEF RemovePage
  <1>3. /\ kept' = kept \ {site[i]} /\ removed' = TRUE /\ edits' = edits + 1
        /\ UNCHANGED <<wrong, client>>
    BY DEF RemovePage
  <1>4. kept' \subseteq Range(site')
    <2> SUFFICES ASSUME NEW p \in kept, p # site[i] PROVE p \in Range(site')
      BY <1>3
    <2>1. PICK k \in 1 .. Len(site) : site[k] = p
      BY <1>1, InRange
    <2>2. CASE k < i
      <3>1. k \in 1 .. Len(site') /\ site'[k] = p
        BY <1>1, <1>2, <2>1, <2>2
      <3> QED BY <1>2, <3>1, InRange
    <2>3. CASE k > i
      <3>1. k - 1 \in 1 .. Len(site') /\ site'[k - 1] = p
        BY <1>1, <1>2, <2>1, <2>3
      <3> QED BY <1>2, <3>1, InRange
    <2> QED BY <2>1, <2>2, <2>3
  <1>5. IsSite(site')
    <2>1. \A k \in 1 .. Len(site) : site[k] # RootPage
      BY <1>1, InRange DEF IsSite
    <2>2. \A j, k \in 1 .. Len(site) : site[j] = site[k] => j = k
      BY <1>1, LenProperties DEF IsSite, IsInjective
    <2> DEFINE from(k) == IF k < i THEN k ELSE k + 1
    <2>3. \A k \in 1 .. Len(site) - 1 : from(k) \in 1 .. Len(site)
      BY <1>1
    <2>4. \A k \in 1 .. Len(site) - 1 : site'[k] = site[from(k)]
      BY <1>2
    <2>5. \A j, k \in 1 .. Len(site) - 1 : from(j) = from(k) => j = k
      BY <1>1
    <2> HIDE DEF from
    <2>6. \A k \in 1 .. Len(site') : site'[k] # RootPage
      BY <1>2, <2>1, <2>3, <2>4
    <2>7. \A j, k \in 1 .. Len(site') : site'[j] = site'[k] => j = k
      BY <1>2, <2>2, <2>3, <2>4, <2>5
    <2>8. DOMAIN site' = 1 .. Len(site')
      BY <1>2, LenProperties
    <2> QED BY <1>2, <2>6, <2>7, <2>8, InRange DEF IsSite, IsInjective
  <1>6. DiscoverTypeOK'
    <2>1. edits' \in Nat /\ wrong' \in Nat /\ edits' + wrong' <= MaxEdits
      BY <1>1, <1>3, DiscoverAssumption
    <2>2. removed' \in BOOLEAN
      BY <1>3
    <2> QED BY <1>1, <1>2, <1>3, <1>4, <1>5, <2>1, <2>2 DEF DiscoverTypeOK, IsSite
  <1>7. edits' # 0
    BY <1>1, <1>3
  <1> QED
    BY <1>1, <1>3, <1>6, <1>7 DEF DiscoveryInv, Running, QuietIsExact, AdditionsHideNothing

-----------------------------------------------------------------------------
LEMMA DiscoveryPreserved ==
    ASSUME DiscoveryInv, [Next]_refresh
    PROVE  DiscoveryInv'
  <1>1. CASE UNCHANGED discover
    <2>1. UNCHANGED <<site, edits, kept, removed, wrong, client>>
      BY <1>1 DEF discover
    <2>2. DiscoverTypeOK'
      BY <2>1 DEF DiscoveryInv, DiscoverTypeOK, IsSite, IsInjective, Range
    <2>3. (Running' <=> Running) /\ \A p : Ahead(p)' <=> Ahead(p)
      BY <2>1 DEF Running, Ahead
    <2>4. QuietIsExact' /\ AdditionsHideNothing'
      BY <2>1 DEF DiscoveryInv, QuietIsExact, AdditionsHideNothing, Range
    <2> QED BY <2>1, <2>2, <2>3, <2>4 DEF DiscoveryInv
  <1>2. CASE StartDiscovery
    BY <1>2, StartDiscovers
  <1>3. CASE FetchRoot
    BY <1>3, RootDiscovers
  <1>4. CASE RequestPage
    BY <1>4, RequestDiscovers
  <1>5. CASE FailDiscovery \/ Panic
    BY <1>5, FailureDiscovers DEF FailDiscovery, Panic
  <1>6. CASE EditSite
    BY <1>6, AdditionDiscovers, RemovalDiscovers DEF EditSite
  <1> QED
    BY <1>1, <1>2, <1>3, <1>4, <1>5, <1>6
       DEF Next, Begin, Discover, DiscoveryStep, StorePages, Return, Display, Authors, refresh, discover

(* Every page that stayed on the site is found already or still ahead of   *)
(* the client, whatever was added meanwhile.                               *)
THEOREM DiscoveryInvInductive == Spec => []DiscoveryInv
  <1>1. DiscoveryInv /\ [Next]_refresh => DiscoveryInv'
    BY DiscoveryPreserved
  <1> QED BY InitDiscoveryInv, <1>1, PTL DEF Spec

(* Only one goroutine is at a write, and the outcome that is passed on     *)
(* says whether the pages are stored.                                      *)
THEOREM ReportInvInductive == Spec => []ReportInv
  <1>1. ReportInv /\ [Next]_refresh => ReportInv'
    <2> SUFFICES ASSUME ReportInv, [Next]_refresh PROVE ReportInv'
      OBVIOUS
    <2>1. CASE UNCHANGED refresh
      BY <2>1 DEF refresh, ReportInv, DisplayInv, OutcomeInv, ProgressTypeOK
    <2> QED BY <2>1, BeginReports, ActionReports, DisplayReports DEF Next
  <1> QED BY InitReportInv, <1>1, PTL DEF Spec

(* The terminal, the goroutines, the site and the client have their types, *)
(* and two goroutines never write to the terminal at one time.             *)
THEOREM DisplayStaysSound == Spec => []DisplaySound
  <1>1. ReportInv /\ DiscoveryInv => DisplaySound
    <2> SUFFICES ASSUME ReportInv, DiscoveryInv PROVE WritesExclusive
      BY DEF ReportInv, DisplayInv, OutcomeInv, DiscoveryInv, DisplaySound
    <2>1. ~("spinner" \in writers /\ "caller" \in writers)
      BY DEF ReportInv, DisplayInv
    <2> QED BY <2>1 DEF WritesExclusive
  <1> QED BY <1>1, ReportInvInductive, DiscoveryInvInductive, PTL

(* No frame ever covers the outcome of a refresh, and it is done exactly   *)
(* when the pages were stored.                                             *)
THEOREM OutcomesStay == Spec => []OutcomeStays
  <1>1. ReportInv => OutcomeStays
    BY DEF ReportInv, DisplayInv, OutcomeInv, OutcomeStays
  <1> QED BY <1>1, ReportInvInductive, PTL

(* On a site that does not change and reports no wrong size, a discovery   *)
(* reports every page once, in order.                                      *)
THEOREM QuietDiscoveryExact == Spec => []QuietIsExact
  <1>1. DiscoveryInv => QuietIsExact
    BY DEF DiscoveryInv
  <1> QED BY <1>1, DiscoveryInvInductive, PTL

(* However many pages are added meanwhile, none that stays is missed, as   *)
(* long as no size is wrong.                                               *)
THEOREM NothingHidden == Spec => []AdditionsHideNothing
  <1>1. DiscoveryInv => AdditionsHideNothing
    BY DEF DiscoveryInv
  <1> QED BY <1>1, DiscoveryInvInductive, PTL
=============================================================================
