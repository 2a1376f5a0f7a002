-------------------------- MODULE SelectionProofs --------------------------
(***************************************************************************)
(* Induction over data, and what follows for the operators that the        *)
(* components are built from: the ends of a set of positions, folds over a *)
(* sequence, and which resources the selectors of a command select,        *)
(* however many there are.                                                 *)
(***************************************************************************)
EXTENDS Selection, Text, FiniteSetTheorems, SequenceTheorems, WellFoundedInduction, TLAPS

-----------------------------------------------------------------------------
(* Induction, with sets in the place of predicates. *)

Smaller == {pair \in Nat \X Nat : pair[1] < pair[2]}

LEMMA SmallerIsWellFounded == IsWellFoundedOn(Smaller, Nat)
  <1>1. OpToRel(<, Nat) = Smaller
    BY Zenon DEF OpToRel, Smaller
  <1> QED BY <1>1, NatLessThanWellFounded, Zenon

LEMMA LeastExists ==
    ASSUME NEW S \in SUBSET Nat, S # {}
    PROVE  \E m \in S : \A n \in S : m <= n
  <1>1. PICK m \in S : \A n \in S : ~ (<<n, m>> \in Smaller)
    BY SmallerIsWellFounded, WFMin
  <1>2. ASSUME NEW n \in S PROVE m <= n
    <2>1. <<n, m>> \notin Smaller
      BY <1>1
    <2> QED BY <2>1 DEF Smaller
  <1> QED BY <1>1, <1>2

LEMMA GreatestExists ==
    ASSUME NEW n \in Nat, NEW S \in SUBSET (0 .. n), S # {}
    PROVE  \E m \in S : \A k \in S : k <= m
  <1> DEFINE T == {n - k : k \in S}
  <1>1. T \in SUBSET Nat /\ T # {}
    <2>1. \A k \in S : n - k \in Nat
      OBVIOUS
    <2>2. PICK k \in S : TRUE
      OBVIOUS
    <2>3. n - k \in T
      OBVIOUS
    <2> QED BY <2>1, <2>3
  <1>2. PICK m \in T : \A k \in T : m <= k
    BY <1>1, LeastExists
  <1>3. PICK j \in S : m = n - j
    BY <1>2
  <1>4. \A k \in S : k <= j
    BY <1>2, <1>3
  <1> QED BY <1>4

LEMMA Induction ==
    ASSUME NEW S \in SUBSET Nat, 0 \in S, \A n \in S : n + 1 \in S
    PROVE  S = Nat
  <1> SUFFICES ASSUME Nat \ S # {} PROVE FALSE
    OBVIOUS
  <1>1. PICK m \in Nat \ S : \A n \in Nat \ S : m <= n
    BY LeastExists
  <1>2. m - 1 \in Nat
    BY <1>1
  <1>3. m - 1 \in S
    BY <1>1, <1>2
  <1>4. (m - 1) + 1 = m
    BY <1>1
  <1> QED BY <1>1, <1>3, <1>4

(* Over the positions of a sequence.                                       *)
LEMMA BoundedInduction ==
    ASSUME NEW n \in Nat, NEW S, 0 \in S,
           \A k \in 0 .. n - 1 : k \in S => k + 1 \in S
    PROVE  \A k \in 0 .. n : k \in S
  <1> DEFINE T == {k \in Nat : k > n \/ k \in S}
  <1>1. 0 \in T
    OBVIOUS
  <1>2. ASSUME NEW k \in T PROVE k + 1 \in T
    OBVIOUS
  <1>3. T = Nat
    <2>1. T \in SUBSET Nat
      OBVIOUS
    <2> HIDE DEF T
    <2> QED BY <1>1, <1>2, <2>1, Induction
  <1>4. ASSUME NEW k \in 0 .. n PROVE k \in S
    <2>1. k \in T /\ ~ (k > n)
      BY <1>3
    <2> QED BY <2>1
  <1> QED BY <1>4

-----------------------------------------------------------------------------
(* The ends of a set of positions. *)

LEMMA IsLeftmost ==
    ASSUME NEW S \in SUBSET Nat, S # {}
    PROVE  Leftmost(S) \in S /\ \A k \in S : Leftmost(S) <= k
  <1>1. \E m \in S : \A k \in S : m <= k
    BY LeastExists
  <1> QED BY <1>1 DEF Leftmost

LEMMA IsRightmost ==
    ASSUME NEW n \in Nat, NEW S \in SUBSET (0 .. n), S # {}
    PROVE  Rightmost(S) \in S /\ \A k \in S : k <= Rightmost(S)
  <1>1. \E m \in S : \A k \in S : k <= m
    BY GreatestExists
  <1>2. PICK m \in S : \A k \in S : m >= k
    BY <1>1
  <1>3. Rightmost(S) \in S /\ \A k \in S : Rightmost(S) >= k
    BY <1>2 DEF Rightmost
  <1> QED BY <1>3

LEMMA IsMin ==
    ASSUME NEW S \in SUBSET Nat, S # {}
    PROVE  Min(S) \in S /\ \A k \in S : Min(S) <= k
  <1>1. \E m \in S : \A k \in S : m <= k
    BY LeastExists
  <1> QED BY <1>1 DEF Min

LEMMA IsMax ==
    ASSUME NEW n \in Nat, NEW S \in SUBSET (0 .. n), S # {}
    PROVE  Max(S) \in S /\ \A k \in S : k <= Max(S)
  <1>1. \E m \in S : \A k \in S : k <= m
    BY GreatestExists
  <1>2. PICK m \in S : \A k \in S : m >= k
    BY <1>1
  <1>3. Max(S) \in S /\ \A k \in S : Max(S) >= k
    BY <1>2 DEF Max
  <1> QED BY <1>3

LEMMA SeqOfHas ==
    ASSUME NEW T, NEW max \in Nat, NEW s \in SeqOf(T, max)
    PROVE  \E n \in Nat : n <= max /\ s \in [1 .. n -> T]
  BY DEF SeqOf

LEMMA MaxIs ==
    ASSUME NEW S, NEW m \in S, \A k \in S : k \in Int /\ k <= m
    PROVE  Max(S) = m
  <1>1. Max(S) \in S /\ \A k \in S : Max(S) >= k
    BY DEF Max
  <1> QED BY <1>1

-----------------------------------------------------------------------------
(* Sequences that are put together, one after the other.                   *)
Concatenates(steps, n, parts) ==
    steps = [i \in 1 .. n |-> IF i = 1 THEN parts[i] ELSE steps[i - 1] \o parts[i]]

LEMMA ConcatenationExists ==
    ASSUME NEW n \in Nat, NEW parts
    PROVE  \E steps : Concatenates(steps, n, parts)
  <1> DEFINE Has(k) == \E steps : Concatenates(steps, k, parts)
             S == {k \in Nat : Has(k)}
  <1>1. Has(0)
    <2> DEFINE none == [i \in 1 .. 0 |-> 0]
    <2>1. Concatenates(none, 0, parts)
      BY DEF Concatenates
    <2> QED BY <2>1
  <1>2. ASSUME NEW k \in 0 .. n - 1, Has(k) PROVE Has(k + 1)
    <2>1. PICK steps : Concatenates(steps, k, parts)
      BY <1>2
    <2> DEFINE step(f, i) == IF i = 1 THEN parts[i] ELSE f[i - 1] \o parts[i]
               next == [i \in 1 .. k + 1 |-> IF i = k + 1 THEN step(steps, i) ELSE steps[i]]
    <2>2. \A i \in 1 .. k : steps[i] = step(steps, i)
      <3> DEFINE right == [i \in 1 .. k |-> step(steps, i)]
      <3>1. steps = right
        BY <2>1 DEF Concatenates
      <3>2. \A i \in 1 .. k : right[i] = step(steps, i)
        OBVIOUS
      <3> HIDE DEF right, step
      <3> QED BY <3>1, <3>2
    <2>3. \A i \in 1 .. k : next[i] = steps[i]
      OBVIOUS
    <2>4. next[k + 1] = step(steps, k + 1)
      OBVIOUS
    <2>5. ASSUME NEW i \in 1 .. k + 1 PROVE step(next, i) = step(steps, i)
      <3>1. i = 1 \/ i - 1 \in 1 .. k
        OBVIOUS
      <3> HIDE DEF next
      <3> QED BY <2>3, <3>1
    <2>6. \A i \in 1 .. k + 1 : next[i] = step(next, i)
      <3>1. \A i \in 1 .. k + 1 : i = k + 1 \/ i \in 1 .. k
        OBVIOUS
      <3> HIDE DEF next, step
      <3> QED BY <2>2, <2>3, <2>4, <2>5, <3>1
    <2>7. next = [i \in 1 .. k + 1 |-> step(next, i)]
      <3>1. next = [i \in 1 .. k + 1 |-> next[i]]
        OBVIOUS
      <3> HIDE DEF next, step
      <3> QED BY <2>6, <3>1
    <2>8. Concatenates(next, k + 1, parts)
      <3> HIDE DEF next
      <3> QED BY <2>7 DEF Concatenates
    <2> QED BY <2>8
  <1> HIDE DEF Has
  <1>3. \A k \in 0 .. n : k \in S
    <2>1. 0 \in S /\ \A k \in 0 .. n - 1 : k \in S => k + 1 \in S
      BY <1>1, <1>2
    <2> HIDE DEF S
    <2> QED BY <2>1, BoundedInduction
  <1>4. Has(n)
    BY <1>3
  <1> QED BY <1>4 DEF Has

LEMMA FlattenIsConcatenation ==
    ASSUME NEW parts, Len(parts) # 0
    PROVE  FlattenSeq(parts) = (CHOOSE steps : Concatenates(steps, Len(parts), parts))[Len(parts)]
  BY Zenon DEF FlattenSeq, Concatenates

(* Part after part.                                                        *)
FlattensIn(steps, n, parts) ==
    /\ steps[1] = parts[1]
    /\ steps[n] = FlattenSeq(parts)
    /\ \A k \in 1 .. n - 1 : steps[k + 1] = steps[k] \o parts[k + 1]

LEMMA FlattenSteps ==
    ASSUME NEW n \in Nat \ {0}, NEW parts, Len(parts) = n
    PROVE  \E steps : FlattensIn(steps, n, parts)
  <1> DEFINE steps == CHOOSE f : Concatenates(f, n, parts)
             step(i) == IF i = 1 THEN parts[i] ELSE steps[i - 1] \o parts[i]
             right == [i \in 1 .. n |-> step(i)]
  <1>1. Concatenates(steps, n, parts)
    BY ConcatenationExists
  <1>2. FlattenSeq(parts) = steps[n]
    BY FlattenIsConcatenation
  <1> HIDE DEF steps
  <1>3. steps = right
    BY <1>1 DEF Concatenates
  <1>4. \A i \in 1 .. n : right[i] = step(i)
    OBVIOUS
  <1> HIDE DEF right, step
  <1>5. \A i \in 1 .. n : steps[i] = step(i)
    BY <1>3, <1>4
  <1>6. steps[1] = parts[1]
    BY <1>5 DEF step
  <1>7. ASSUME NEW k \in 1 .. n - 1 PROVE steps[k + 1] = steps[k] \o parts[k + 1]
    <2>1. k + 1 \in 1 .. n /\ k + 1 # 1 /\ (k + 1) - 1 = k
      OBVIOUS
    <2>2. steps[k + 1] = step(k + 1)
      BY <1>5, <2>1
    <2> QED BY <2>1, <2>2 DEF step
  <1> QED BY <1>2, <1>6, <1>7 DEF FlattensIn

(* What holds of the first part and is kept by adding a part holds of all  *)
(* of them together.                                                       *)
LEMMA FlattenInduction ==
    ASSUME NEW n \in Nat \ {0}, NEW parts, Len(parts) = n, NEW Good,
           <<parts[1], 1>> \in Good,
           \A k \in 1 .. n - 1 : \A text :
              <<text, k>> \in Good => <<text \o parts[k + 1], k + 1>> \in Good
    PROVE  <<FlattenSeq(parts), n>> \in Good
  <1>1. PICK steps : FlattensIn(steps, n, parts)
    BY FlattenSteps
  <1> DEFINE S == {k \in Nat : <<steps[k + 1], k + 1>> \in Good}
  <1>2. 0 \in S
    BY <1>1 DEF FlattensIn
  <1>3. ASSUME NEW k \in 0 .. (n - 1) - 1, k \in S PROVE k + 1 \in S
    <2>1. k + 1 \in 1 .. n - 1 /\ k + 1 \in Nat
      OBVIOUS
    <2>2. steps[(k + 1) + 1] = steps[k + 1] \o parts[(k + 1) + 1]
      BY <1>1, <2>1 DEF FlattensIn
    <2>3. <<steps[k + 1], k + 1>> \in Good
      BY <1>3
    <2> QED BY <2>1, <2>2, <2>3
  <1>4. \A k \in 0 .. n - 1 : k \in S
    <2>1. n - 1 \in Nat
      OBVIOUS
    <2> HIDE DEF S
    <2> QED BY <1>2, <1>3, <2>1, BoundedInduction
  <1>5. n - 1 \in S /\ (n - 1) + 1 = n
    BY <1>4
  <1> QED BY <1>1, <1>5 DEF FlattensIn

-----------------------------------------------------------------------------
(* Folds: the library folds over all subsets of the positions, the highest *)
(* first, and such a function exists.                                      *)

IsFold(fold, n, base, step) ==
    \A s \in SUBSET (1 .. n) :
        fold[s] = IF s = {} THEN base ELSE step[Max(s)][fold[s \ {Max(s)}]]

LEMMA FoldExists ==
    ASSUME NEW n \in Nat, NEW A, NEW base \in A, NEW step \in [1 .. n -> [A -> A]]
    PROVE  \E fold \in [SUBSET (1 .. n) -> A] : IsFold(fold, n, base, step)
  <1> DEFINE Folds(k, fold) == IsFold(fold, k, base, step)
             Has(k) == \E fold \in [SUBSET (1 .. k) -> A] : Folds(k, fold)
             S == {k \in Nat : Has(k)}
  <1>1. Has(0)
    <2> DEFINE fold == [s \in SUBSET (1 .. 0) |-> base]
    <2>1. fold \in [SUBSET (1 .. 0) -> A] /\ Folds(0, fold)
      BY DEF IsFold
    <2> QED BY <2>1
  <1>2. ASSUME NEW k \in 0 .. n - 1, Has(k) PROVE Has(k + 1)
    <2>1. k \in Nat /\ k + 1 \in 1 .. n
      OBVIOUS
    <2>2. PICK fold \in [SUBSET (1 .. k) -> A] : Folds(k, fold)
      BY <1>2
    <2> DEFINE next == [s \in SUBSET (1 .. k + 1) |->
                          IF k + 1 \in s THEN step[k + 1][fold[s \ {k + 1}]] ELSE fold[s]]
    <2>3. ASSUME NEW s \in SUBSET (1 .. k + 1)
          PROVE  /\ k + 1 \in s => s \ {k + 1} \in SUBSET (1 .. k) /\ Max(s) = k + 1
                 /\ k + 1 \notin s => s \in SUBSET (1 .. k)
      <3>1. ASSUME k + 1 \in s PROVE Max(s) = k + 1
        <4>1. \A j \in s : j \in Int /\ j <= k + 1
          BY <2>1
        <4> QED BY <3>1, <4>1, MaxIs
      <3> QED BY <2>1, <3>1
    <2>4. next \in [SUBSET (1 .. k + 1) -> A]
      <3>1. step[k + 1] \in [A -> A]
        BY <2>1
      <3> QED BY <2>3, <3>1
    <2>5. ASSUME NEW s \in SUBSET (1 .. k + 1)
          PROVE  next[s] = IF s = {} THEN base ELSE step[Max(s)][next[s \ {Max(s)}]]
      <3>1. CASE k + 1 \in s
        <4>1. next[s] = step[k + 1][fold[s \ {k + 1}]]
          BY <3>1
        <4>2. next[s \ {k + 1}] = fold[s \ {k + 1}]
          BY <2>3, <3>1
        <4> QED BY <2>3, <3>1, <4>1, <4>2
      <3>2. CASE k + 1 \notin s
        <4>1. /\ next[s] = fold[s] /\ next[s \ {Max(s)}] = fold[s \ {Max(s)}]
              /\ s \in SUBSET (1 .. k)
          BY <2>3, <3>2
        <4> QED BY <2>2, <4>1 DEF IsFold
      <3> QED BY <3>1, <3>2
    <2>6. Folds(k + 1, next)
      BY <2>5 DEF IsFold
    <2> QED BY <2>4, <2>6
  <1> HIDE DEF Has
  <1>3. \A k \in 0 .. n : k \in S
    <2>1. 0 \in S /\ \A k \in 0 .. n - 1 : k \in S => k + 1 \in S
      BY <1>1, <1>2
    <2> HIDE DEF S
    <2> QED BY <2>1, BoundedInduction
  <1>4. Has(n)
    BY <1>3
  <1> QED BY <1>4 DEF Has

(* The values of a fold are those of its prefixes.                         *)
LEMMA FoldPrefix ==
    ASSUME NEW k \in Nat \ {0}
    PROVE  /\ Max(1 .. k) = k
           /\ (1 .. k) \ {k} = 1 .. (k - 1)
           /\ 1 .. k # {}
  <1>1. k \in 1 .. k /\ \A j \in 1 .. k : j \in Int /\ j <= k
    OBVIOUS
  <1>2. Max(1 .. k) = k
    BY <1>1, MaxIs
  <1>3. (1 .. k) \ {k} = 1 .. (k - 1)
    OBVIOUS
  <1> QED BY <1>1, <1>2, <1>3

(* A sequence to which each value is added unless it is there has all the  *)
(* values, none twice, in the order in which they first occur.             *)
AddNew(chosen, value) ==
    IF \E i \in DOMAIN chosen : chosen[i] = value THEN chosen ELSE Append(chosen, value)

Answers(answer, chosen, named, n) ==
    /\ answer \in [1 .. n -> DOMAIN chosen]
    /\ \A k \in 1 .. n : chosen[answer[k]] = named[k]
    /\ \A i \in DOMAIN chosen : \E k \in 1 .. n : answer[k] = i
    /\ \A i, j \in DOMAIN chosen : i < j =>
          /\ chosen[i] # chosen[j]
          /\ \E k \in 1 .. n : answer[k] = i /\ \A l \in 1 .. n : answer[l] = j => k < l

LEMMA AddNewAnswers ==
    ASSUME NEW R, NEW named, NEW k \in Nat, named[k + 1] \in R, NEW chosen \in Seq(R),
           NEW answer, Answers(answer, chosen, named, k)
    PROVE  /\ AddNew(chosen, named[k + 1]) \in Seq(R)
           /\ \E next : Answers(next, AddNew(chosen, named[k + 1]), named, k + 1)
  <1> DEFINE value == named[k + 1]
  <1>1. DOMAIN chosen = 1 .. Len(chosen) /\ Len(chosen) \in Nat
    OBVIOUS
  <1>2. 1 .. k + 1 = (1 .. k) \cup {k + 1} /\ k + 1 \notin 1 .. k
    OBVIOUS
  <1>3. CASE \E i \in DOMAIN chosen : chosen[i] = value
    <2>1. PICK i \in DOMAIN chosen : chosen[i] = value
      BY <1>3
    <2> DEFINE next == [l \in 1 .. k + 1 |-> IF l = k + 1 THEN i ELSE answer[l]]
    <2>2. next[k + 1] = i /\ \A l \in 1 .. k : next[l] = answer[l]
      BY <1>2
    <2>3. next \in [1 .. k + 1 -> DOMAIN chosen]
      BY <1>2 DEF Answers
    <2> HIDE DEF next
    <2>4. \A l \in 1 .. k + 1 : chosen[next[l]] = named[l]
      BY <1>2, <2>1, <2>2 DEF Answers
    <2>5. \A j \in DOMAIN chosen : \E l \in 1 .. k + 1 : next[l] = j
      BY ZenonT(60), <1>2, <2>2 DEF Answers
    <2>6. ASSUME NEW j \in DOMAIN chosen, NEW h \in DOMAIN chosen, j < h
          PROVE  /\ chosen[j] # chosen[h]
                 /\ \E l \in 1 .. k + 1 : next[l] = j /\ \A m \in 1 .. k + 1 : next[m] = h => l < m
      <3>1. PICK l \in 1 .. k : answer[l] = j /\ \A m \in 1 .. k : answer[m] = h => l < m
        BY <2>6 DEF Answers
      <3>2. next[l] = j /\ \A m \in 1 .. k + 1 : next[m] = h => l < m
        BY <1>2, <2>2, <3>1
      <3>3. chosen[j] # chosen[h]
        BY <2>6 DEF Answers
      <3> QED BY <1>2, <3>2, <3>3
    <2>7. Answers(next, chosen, named, k + 1)
      BY <2>3, <2>4, <2>5, <2>6 DEF Answers
    <2> QED BY <1>3, <2>7 DEF AddNew
  <1>4. CASE ~ \E i \in DOMAIN chosen : chosen[i] = value
    <2> DEFINE longer == Append(chosen, value)
               n == Len(chosen)
               next == [l \in 1 .. k + 1 |-> IF l = k + 1 THEN n + 1 ELSE answer[l]]
    <2>1. /\ longer \in Seq(R) /\ DOMAIN longer = 1 .. n + 1
          /\ longer[n + 1] = value /\ \A i \in 1 .. n : longer[i] = chosen[i]
      BY AppendProperties
    <2>2. /\ next[k + 1] = n + 1 /\ \A l \in 1 .. k : next[l] = answer[l]
          /\ \A l \in 1 .. k : answer[l] \in 1 .. n
          /\ DOMAIN next = 1 .. k + 1
      BY <1>1, <1>2 DEF Answers
    <2>3. next \in [1 .. k + 1 -> DOMAIN longer]
      BY <1>1, <1>2, <2>1, <2>2
    <2> HIDE DEF longer, next
    <2>4. \A l \in 1 .. k + 1 : longer[next[l]] = named[l]
      BY ZenonT(60), <1>1, <1>2, <2>1, <2>2 DEF Answers
    <2>5. \A j \in DOMAIN longer : \E l \in 1 .. k + 1 : next[l] = j
      <3> TAKE j \in DOMAIN longer
      <3>1. CASE j = n + 1
        BY <1>2, <2>2, <3>1
      <3>2. CASE j \in 1 .. n
        BY <1>1, <1>2, <2>2, <3>2 DEF Answers
      <3> QED BY <1>1, <2>1, <3>1, <3>2
    <2>6. ASSUME NEW j \in DOMAIN longer, NEW h \in DOMAIN longer, j < h
          PROVE  /\ longer[j] # longer[h]
                 /\ \E l \in 1 .. k + 1 : next[l] = j /\ \A m \in 1 .. k + 1 : next[m] = h => l < m
      <3>1. j \in 1 .. n
        BY <1>1, <2>1, <2>6
      <3>2. CASE h = n + 1
        <4>1. PICK l \in 1 .. k : answer[l] = j
          BY <1>1, <3>1 DEF Answers
        <4>2. next[l] = j /\ \A m \in 1 .. k + 1 : next[m] = h => l < m
          BY <1>1, <1>2, <2>2, <3>2, <4>1
        <4>3. longer[j] # longer[h]
          BY <1>1, <1>4, <2>1, <3>1, <3>2
        <4> QED BY <1>2, <4>2, <4>3
      <3>3. CASE h \in 1 .. n
        <4>1. PICK l \in 1 .. k : answer[l] = j /\ \A m \in 1 .. k : answer[m] = h => l < m
          BY <1>1, <2>6, <3>1, <3>3 DEF Answers
        <4>2. next[l] = j /\ \A m \in 1 .. k + 1 : next[m] = h => l < m
          BY <1>1, <1>2, <2>2, <3>3, <4>1
        <4>3. chosen[j] # chosen[h]
          BY <1>1, <2>6, <3>1, <3>3 DEF Answers
        <4> QED BY <1>2, <2>1, <3>1, <3>3, <4>2, <4>3
      <3> QED BY <1>1, <2>1, <3>2, <3>3
    <2>7. Answers(next, longer, named, k + 1)
      BY <2>3, <2>4, <2>5, <2>6 DEF Answers
    <2> QED BY <1>4, <2>1, <2>7 DEF AddNew, longer
  <1> QED BY <1>3, <1>4

LEMMA EachAnswered ==
    ASSUME NEW n \in Nat, NEW R, NEW named \in [1 .. n -> R],
           NEW steps, steps[0] = <<>>,
           \A k \in 1 .. n : steps[k] = AddNew(steps[k - 1], named[k])
    PROVE  steps[n] \in Seq(R) /\ \E answer : Answers(answer, steps[n], named, n)
  <1> DEFINE Good(k) == steps[k] \in Seq(R) /\ \E answer : Answers(answer, steps[k], named, k)
             S == {k \in Nat : Good(k)}
  <1>1. Good(0)
    <2> DEFINE answer == [k \in 1 .. 0 |-> 0]
    <2>1. Answers(answer, <<>>, named, 0)
      BY DEF Answers
    <2> QED BY <2>1
  <1>2. ASSUME NEW k \in 0 .. n - 1, Good(k) PROVE Good(k + 1)
    <2>1. /\ k \in Nat /\ k + 1 \in 1 .. n /\ (k + 1) - 1 = k
          /\ named[k + 1] \in R
      OBVIOUS
    <2>2. steps[k + 1] = AddNew(steps[k], named[k + 1])
      BY <2>1
    <2>3. PICK answer : Answers(answer, steps[k], named, k)
      BY <1>2
    <2>4. /\ AddNew(steps[k], named[k + 1]) \in Seq(R)
          /\ \E next : Answers(next, AddNew(steps[k], named[k + 1]), named, k + 1)
      BY <1>2, <2>1, <2>3, AddNewAnswers
    <2> QED BY <2>2, <2>4
  <1> HIDE DEF Good
  <1>3. \A k \in 0 .. n : k \in S
    <2>1. 0 \in S /\ \A k \in 0 .. n - 1 : k \in S => k + 1 \in S
      BY <1>1, <1>2
    <2> HIDE DEF S
    <2> QED BY <2>1, BoundedInduction
  <1>4. Good(n)
    BY <1>3
  <1> QED BY <1>4 DEF Good

-----------------------------------------------------------------------------
(* What is selected. *)

RowFor(rows, selector, domain) == rows[CHOOSE i \in Matches(rows, selector, domain) : TRUE]

LEMMA SelectedIsFold ==
    ASSUME NEW rows, NEW selectors, NEW domain
    PROVE  LET fold == CHOOSE fold : fold =
                          [s \in SUBSET (DOMAIN selectors) |->
                             IF s = {} THEN <<>>
                             ELSE AddOnce(fold[s \ {Max(s)}],
                                          RowFor(rows, selectors[Max(s)], domain))]
           IN  Selected(rows, selectors, domain) = fold[DOMAIN selectors]
  BY Zenon DEF Selected, FoldLeft, MapThenFoldSet, RowFor

(* One selector after the other.                                           *)
SelectsIn(steps, n, rows, selectors, domain) ==
    /\ steps[0] = <<>>
    /\ steps[n] = Selected(rows, selectors, domain)
    /\ \A k \in 1 .. n : steps[k] = AddOnce(steps[k - 1], RowFor(rows, selectors[k], domain))

LEMMA SelectedSteps ==
    ASSUME NEW n \in Nat, NEW rows, NEW selectors, DOMAIN selectors = 1 .. n, NEW domain
    PROVE  \E steps : SelectsIn(steps, n, rows, selectors, domain)
  <1> DEFINE named(k) == RowFor(rows, selectors[k], domain)
             A == Seq({named(k) : k \in 1 .. n})
             step == [k \in 1 .. n |-> [chosen \in A |-> AddOnce(chosen, named(k))]]
             SelectsBy(fold) == fold = [s \in SUBSET (1 .. n) |->
                                IF s = {} THEN <<>> ELSE AddOnce(fold[s \ {Max(s)}], named(Max(s)))]
  <1> HIDE DEF named
  <1>1. <<>> \in A /\ step \in [1 .. n -> [A -> A]]
    <2>1. ASSUME NEW k \in 1 .. n, NEW chosen \in A PROVE AddOnce(chosen, named(k)) \in A
      BY AppendProperties DEF AddOnce
    <2> QED BY <2>1
  <1>2. PICK fold \in [SUBSET (1 .. n) -> A] : IsFold(fold, n, <<>>, step)
    <2> HIDE DEF A, step
    <2> QED BY <1>1, FoldExists
  <1>3. SelectsBy(fold)
    <2>1. ASSUME NEW s \in SUBSET (1 .. n), s # {}
          PROVE  fold[s] = AddOnce(fold[s \ {Max(s)}], named(Max(s)))
      <3>1. Max(s) \in 1 .. n
        <4>1. s \in SUBSET (0 .. n)
          OBVIOUS
        <4> QED BY <2>1, <4>1, IsMax
      <3>2. fold[s \ {Max(s)}] \in A
        OBVIOUS
      <3>3. step[Max(s)][fold[s \ {Max(s)}]] = AddOnce(fold[s \ {Max(s)}], named(Max(s)))
        BY <3>1, <3>2
      <3> QED BY <1>2, <2>1, <3>3 DEF IsFold
    <2>2. fold[{}] = <<>>
      BY <1>2 DEF IsFold
    <2> QED BY <2>1, <2>2
  <1> DEFINE chosen == CHOOSE f : SelectsBy(f)
             steps == [k \in 0 .. n |-> chosen[1 .. k]]
  <1>4. SelectsBy(chosen)
    BY <1>3
  <1>5. Selected(rows, selectors, domain) = chosen[1 .. n]
    BY SelectedIsFold DEF named
  <1> HIDE DEF chosen
  <1>6. \A s \in SUBSET (1 .. n) :
            chosen[s] = IF s = {} THEN <<>> ELSE AddOnce(chosen[s \ {Max(s)}], named(Max(s)))
    <2> DEFINE right == [s \in SUBSET (1 .. n) |->
                           IF s = {} THEN <<>> ELSE AddOnce(chosen[s \ {Max(s)}], named(Max(s)))]
    <2>1. chosen = right
      BY <1>4
    <2>2. \A s \in SUBSET (1 .. n) : right[s] =
              IF s = {} THEN <<>> ELSE AddOnce(chosen[s \ {Max(s)}], named(Max(s)))
      OBVIOUS
    <2> HIDE DEF right
    <2> QED BY <2>1, <2>2
  <1>7. steps[0] = <<>>
    <2>1. 1 .. 0 = {} /\ {} \in SUBSET (1 .. n) /\ 0 \in 0 .. n
      OBVIOUS
    <2>2. chosen[{}] = <<>>
      BY <1>6, <2>1
    <2> QED BY <2>1, <2>2
  <1>8. ASSUME NEW k \in 1 .. n PROVE steps[k] = AddOnce(steps[k - 1], named(k))
    <2>1. k \in Nat \ {0} /\ 1 .. k \in SUBSET (1 .. n) /\ k - 1 \in 0 .. n
      OBVIOUS
    <2>2. /\ Max(1 .. k) = k /\ 1 .. k # {}
          /\ (1 .. k) \ {k} = 1 .. (k - 1)
      BY <2>1, FoldPrefix
    <2>3. chosen[1 .. k] = AddOnce(chosen[1 .. (k - 1)], named(k))
      BY <1>6, <2>1, <2>2
    <2> QED BY <2>1, <2>3
  <1>9. steps[n] = Selected(rows, selectors, domain)
    BY <1>5
  <1> HIDE DEF steps
  <1> QED BY <1>7, <1>8, <1>9 DEF named, SelectsIn

(* The rows of a listing are of different resources.                       *)
Distinct(rows) ==
    \A i, j \in DOMAIN rows : rows[i].resource = rows[j].resource => i = j

LEMMA MatchesAreMeant ==
    ASSUME NEW m \in Nat, NEW rows, DOMAIN rows = 1 .. m, NEW selector, NEW domain
    PROVE  /\ Cardinality(Matches(rows, selector, domain)) = 1 <=> Meant(rows, selector) # {}
           /\ Meant(rows, selector) # {} =>
                /\ RowFor(rows, selector, domain) \in Meant(rows, selector)
                /\ RowFor(rows, selector, domain) \in {rows[i] : i \in DOMAIN rows}
  <1> DEFINE keyed == Keyed(rows, selector)
             named == Named(rows, selector)
             match == Matches(rows, selector, domain)
  <1>1. /\ keyed \in SUBSET (1 .. m) /\ named \in SUBSET (1 .. m)
        /\ keyed \in SUBSET Nat /\ keyed \in SUBSET (0 .. m)
    BY DEF Keyed, Named
  <1>2. CASE keyed # {}
    <2>1. PICK i \in keyed : match = {i}
      <3>1. Max(keyed) \in keyed /\ Min(keyed) \in keyed
        BY <1>1, <1>2, IsMax, IsMin
      <3>2. match = {Max(keyed)} \/ match = {Min(keyed)}
        BY <1>2 DEF Matches, ByKey
      <3> QED BY <3>1, <3>2
    <2>2. Cardinality(match) = 1
      BY <2>1, FS_Singleton
    <2>3. RowFor(rows, selector, domain) = rows[i]
      BY <2>1 DEF RowFor
    <2>4. Meant(rows, selector) = {rows[j] : j \in keyed}
      BY <1>2 DEF Meant
    <2> QED BY <1>1, <2>1, <2>2, <2>3, <2>4
  <1>3. CASE keyed = {}
    <2>1. match = named
      BY <1>3 DEF Matches
    <2>2. Meant(rows, selector) =
              IF Cardinality(named) = 1 THEN {rows[i] : i \in named} ELSE {}
      BY <1>3 DEF Meant
    <2>3. ASSUME Cardinality(named) = 1
          PROVE  \E i \in named : named = {i}
      <3>1. IsFiniteSet(named)
        BY <1>1, FS_Interval, FS_Subset
      <3> QED BY <2>3, <3>1, FS_Singleton
    <2>4. ASSUME Cardinality(named) = 1
          PROVE  /\ RowFor(rows, selector, domain) \in {rows[i] : i \in named}
                 /\ RowFor(rows, selector, domain) \in {rows[i] : i \in DOMAIN rows}
      <3>1. PICK i \in named : named = {i}
        BY <2>3, <2>4
      <3>2. RowFor(rows, selector, domain) = rows[i]
        BY <2>1, <3>1 DEF RowFor
      <3> QED BY <1>1, <3>1, <3>2
    <2> QED BY <2>1, <2>2, <2>4
  <1> QED BY <1>2, <1>3

(* What is selected are the answers to the selectors.                      *)
LEMMA SelectedAnswers ==
    ASSUME NEW m \in Nat, NEW rows, DOMAIN rows = 1 .. m, Distinct(rows),
           NEW n \in Nat, NEW selectors, DOMAIN selectors = 1 .. n, NEW domain,
           \A k \in 1 .. n : Meant(rows, selectors[k]) # {}
    PROVE  /\ Selected(rows, selectors, domain) \in Seq({rows[i] : i \in DOMAIN rows})
           /\ \E answer : Answers(answer, Selected(rows, selectors, domain),
                                  [k \in 1 .. n |-> RowFor(rows, selectors[k], domain)], n)
  <1> DEFINE R == {rows[i] : i \in DOMAIN rows}
             named == [k \in 1 .. n |-> RowFor(rows, selectors[k], domain)]
  <1>1. named \in [1 .. n -> R]
    BY MatchesAreMeant
  <1>2. PICK steps : SelectsIn(steps, n, rows, selectors, domain)
    BY SelectedSteps
  <1>3. ASSUME NEW chosen \in Seq(R), NEW row \in R
        PROVE  AddOnce(chosen, row) = AddNew(chosen, row) /\ AddNew(chosen, row) \in Seq(R)
    <2>1. \A i \in DOMAIN chosen : chosen[i] \in R
      OBVIOUS
    <2>2. \A a, b \in R : a.resource = b.resource => a = b
      BY DEF Distinct
    <2> HIDE DEF R
    <2>3. AddOnce(chosen, row) = AddNew(chosen, row)
      BY <2>1, <2>2 DEF AddOnce, AddNew
    <2> QED BY <2>3, AppendProperties DEF AddNew
  <1>4. \A k \in 1 .. n : named[k] = RowFor(rows, selectors[k], domain)
    OBVIOUS
  <1> HIDE DEF R, named
  <1>5. \A k \in 0 .. n : k \in {l \in Nat : steps[l] \in Seq(R)}
    <2>1. 0 \in {l \in Nat : steps[l] \in Seq(R)}
      BY <1>2, EmptySeq DEF SelectsIn
    <2>2. ASSUME NEW k \in 0 .. n - 1, steps[k] \in Seq(R) PROVE steps[k + 1] \in Seq(R)
      <3>1. k + 1 \in 1 .. n /\ (k + 1) - 1 = k
        OBVIOUS
      <3>2. steps[k + 1] = AddOnce(steps[k], named[k + 1]) /\ named[k + 1] \in R
        BY <1>1, <1>2, <1>4, <3>1 DEF SelectsIn
      <3> QED BY <1>3, <2>2, <3>2
    <2>3. \A k \in 0 .. n - 1 : k \in {l \in Nat : steps[l] \in Seq(R)}
                                 => k + 1 \in {l \in Nat : steps[l] \in Seq(R)}
      BY <2>2
    <2> QED BY <2>1, <2>3, BoundedInduction
  <1>6. ASSUME NEW k \in 1 .. n PROVE steps[k] = AddNew(steps[k - 1], named[k])
    <2>1. k - 1 \in 0 .. n
      OBVIOUS
    <2>2. steps[k - 1] \in Seq(R) /\ named[k] \in R
      BY <1>1, <1>5, <2>1
    <2> QED BY <1>2, <1>3, <1>4, <2>2 DEF SelectsIn
  <1>7. steps[n] \in Seq(R) /\ \E answer : Answers(answer, steps[n], named, n)
    BY <1>1, <1>2, <1>6, EachAnswered DEF SelectsIn
  <1> QED BY <1>2, <1>7 DEF R, named, SelectsIn

(* Whatever is listed and however many selectors there are, a selection is *)
(* what its user named (repository.Select, wiki.Select).                   *)
THEOREM EverySelectionExact ==
    ASSUME NEW m \in Nat, NEW rows, DOMAIN rows = 1 .. m, Distinct(rows),
           NEW n \in Nat, NEW selectors, DOMAIN selectors = 1 .. n, NEW domain
    PROVE  IsSelection(rows, selectors, domain)
  <1>1. Accepted(rows, selectors, domain) <=> \A k \in 1 .. n : Meant(rows, selectors[k]) # {}
    BY MatchesAreMeant DEF Accepted
  <1>2. SUFFICES ASSUME \A k \in 1 .. n : Meant(rows, selectors[k]) # {}
        PROVE  LET chosen == Selected(rows, selectors, domain)
               IN  \E answer \in [DOMAIN selectors -> DOMAIN chosen] :
                       Answering(answer, chosen, rows, selectors)
    BY <1>1 DEF IsSelection
  <1> DEFINE chosen == Selected(rows, selectors, domain)
             R == {rows[i] : i \in DOMAIN rows}
             named == [k \in 1 .. n |-> RowFor(rows, selectors[k], domain)]
  <1>3. /\ chosen \in Seq(R)
        /\ \E answer : Answers(answer, chosen, named, n)
    BY <1>2, SelectedAnswers
  <1>4. PICK answer : Answers(answer, chosen, named, n)
    BY <1>3
  <1> DEFINE times(i) == {k \in DOMAIN selectors : answer[k] = i}
  <1>5. \A k \in 1 .. n : named[k] = RowFor(rows, selectors[k], domain)
    OBVIOUS
  <1>6. DOMAIN chosen = 1 .. Len(chosen) /\ Len(chosen) \in Nat
    BY <1>3
  <1> HIDE DEF chosen, named
  <1>7. \A k \in 1 .. n : chosen[answer[k]] \in Meant(rows, selectors[k])
    BY <1>2, <1>4, <1>5, MatchesAreMeant DEF Answers
  <1>8. ASSUME NEW j \in 1 .. n, NEW k \in 1 .. n, selectors[j] = selectors[k]
        PROVE  answer[j] = answer[k]
    <2>1. chosen[answer[j]] = chosen[answer[k]]
      BY <1>4, <1>5, <1>8 DEF Answers
    <2>2. answer[j] \in 1 .. Len(chosen) /\ answer[k] \in 1 .. Len(chosen)
      BY <1>4, <1>6 DEF Answers
    <2> QED BY <1>4, <1>6, <2>1, <2>2 DEF Answers
  <1>9. ASSUME NEW i \in DOMAIN chosen, NEW j \in DOMAIN chosen, i < j
        PROVE  chosen[i].resource # chosen[j].resource /\ Min(times(i)) < Min(times(j))
    <2>1. chosen[i].resource # chosen[j].resource
      <3>1. chosen[i] \in R /\ chosen[j] \in R /\ chosen[i] # chosen[j]
        BY <1>3, <1>4, <1>9 DEF Answers
      <3> QED BY <3>1 DEF Distinct
    <2>2. PICK k \in 1 .. n : answer[k] = i /\ \A l \in 1 .. n : answer[l] = j => k < l
      BY <1>4, <1>9 DEF Answers
    <2>3. /\ times(i) \in SUBSET Nat /\ k \in times(i)
          /\ times(j) \in SUBSET Nat /\ times(j) # {}
          /\ \A l \in times(j) : k < l
      BY SMTT(30), <1>4, <2>2 DEF Answers
    <2> HIDE DEF times
    <2>4. Min(times(i)) <= k /\ Min(times(j)) \in times(j) /\ Min(times(i)) \in times(i)
      BY <2>3, IsMin
    <2>5. Min(times(i)) \in Nat /\ Min(times(j)) \in Nat
      BY <2>3, <2>4
    <2> QED BY <2>1, <2>3, <2>4, <2>5
  <1>10. /\ answer \in [DOMAIN selectors -> DOMAIN chosen]
         /\ \A i \in DOMAIN chosen : \E k \in DOMAIN selectors : answer[k] = i
    BY <1>4 DEF Answers
  <1>11. Answering(answer, chosen, rows, selectors)
    BY <1>7, <1>8, <1>9, <1>10 DEF Answering
  <1> QED BY <1>10, <1>11 DEF chosen

LEMMA RangeIsFinite ==
    ASSUME NEW D, IsFiniteSet(D), NEW f
    PROVE  IsFiniteSet({f[d] : d \in D})
  <1> DEFINE g == [d \in D |-> f[d]]
             T == {f[d] : d \in D}
  <1>1. g \in Surjection(D, T)
    <2>1. g \in [D -> T] /\ \A t \in T : \E d \in D : g[d] = t
      OBVIOUS
    <2> QED BY <2>1 DEF Surjection
  <1> HIDE DEF g, T
  <1>2. IsFiniteSet(T)
    BY <1>1, FS_Surjection
  <1> QED BY <1>2 DEF T

(* Whatever the order of a listing is.                                     *)
THEOREM EveryListingExact ==
    ASSUME NEW S, IsFiniteSet(S), \A a, b \in S : a.resource = b.resource => a = b,
           NEW rows \in SetToSeqs(S), NEW max \in Nat, NEW T, NEW selectors \in SeqOf(T, max),
           NEW domain
    PROVE  IsSelection(rows, selectors, domain)
  <1>1. PICK m \in Nat : DOMAIN rows = 1 .. m
    <2>1. Cardinality(S) \in Nat
      BY FS_CardinalityType
    <2> QED BY <2>1 DEF SetToSeqs
  <1>2. Distinct(rows)
    <2>1. /\ \A i \in DOMAIN rows : rows[i] \in S
          /\ \A i, j \in DOMAIN rows : i # j => rows[i] # rows[j]
      BY DEF SetToSeqs
    <2> QED BY <2>1 DEF Distinct
  <1>3. PICK n \in Nat : DOMAIN selectors = 1 .. n
    BY DEF SeqOf
  <1> QED BY <1>1, <1>2, <1>3, EverySelectionExact
=============================================================================
