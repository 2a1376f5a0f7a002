------------------------------- MODULE Picker -------------------------------
(***************************************************************************)
(* How devdash asks on the terminal.  A list is offered through fzf, which *)
(* answers with the records that were chosen, or as numbered lines that    *)
(* are answered with numbers; the other prompts read one line each until   *)
(* it is an answer.  All prompts of a command read from one buffered       *)
(* input: what one of them does not read is the answer to the next.        *)
(***************************************************************************)
EXTENDS Integers, Text, SequencesExt

CONSTANTS
    Word,         \* typed text that means nothing to the prompt
    MaxOptions    \* bound on the options and lines of a checked dialogue

ASSUME PickerAssumption ==
    /\ Word \notin {"", "y", "yes", "n", "no"}
    /\ MaxOptions \in Nat

(* A dialogue ends with an answer or without, and leaves the lines that it *)
(* did not read.  An answered list has the indexes of options.             *)
Answer(value, rest)  == [outcome |-> "answered", value |-> value, rest |-> rest]
NoAnswer(kind, rest) == [outcome |-> kind, value |-> <<>>, rest |-> rest]

(* Read lines until one is acceptable; the end of the input cancels.       *)
Ask(lines, Acceptable(_), Meaning(_)) ==
    IF \E i \in DOMAIN lines : Acceptable(lines[i])
    THEN LET i == Leftmost({j \in DOMAIN lines : Acceptable(lines[j])})
         IN  [Meaning(lines[i]) EXCEPT !.rest = SubSeq(lines, i + 1, Len(lines))]
    ELSE NoAnswer("cancelled", <<>>)

(* Fault: an option counts as often as it is named.                        *)
EachMention(numbers) == numbers

FirstMentions(numbers) ==
    LET add(chosen, n) == IF Contains(chosen, n) THEN chosen ELSE Append(chosen, n)
    IN  FoldLeft(add, <<>>, numbers)

(* One line of numbers separated by commas.                                *)
IsChoice(line, count, multi) ==
    /\ line # <<>>
    /\ multi \/ Len(line) = 1
    /\ \A i \in DOMAIN line : line[i] \in 1 .. count

(* An empty line takes the default (0: there is none) or cancels.          *)
PickNumbered(lines, count, multi, default) ==
    Ask(lines,
        LAMBDA line : line = <<>> \/ IsChoice(line, count, multi),
        LAMBDA line : IF line # <<>> THEN Answer(FirstMentions(line), <<>>)
                      ELSE IF default # 0 THEN Answer(<<default>>, <<>>)
                      ELSE NoAnswer("cancelled", <<>>))

(* fzf exits with 1 or 130 when nothing was chosen, and answers with lines *)
(* that begin with the index of their option and a tab.                    *)
PickFZF(exit, records, count, multi) ==
    IF exit \in {1, 130} THEN NoAnswer("cancelled", <<>>)
    ELSE IF exit # 0 THEN NoAnswer("failed", <<>>)
    ELSE IF records = <<>> THEN NoAnswer("cancelled", <<>>)
    ELSE IF /\ multi \/ Len(records) = 1
            /\ \A i \in DOMAIN records : records[i].tab /\ records[i].index \in 1 .. count
    THEN Answer(FirstMentions([i \in DOMAIN records |-> records[i].index]), <<>>)
    ELSE NoAnswer("failed", <<>>)

(* Fault: the numbers of the list start with 1, those of the options with  *)
(* 0.                                                                      *)
PickNext(options, lines, multi, default) ==
    LET d == PickNumbered(lines, Len(options), multi, 0)
    IN  [d EXCEPT !.value =
           [k \in DOMAIN d.value |-> options[1 + (d.value[k] % Len(options))]]]

(* The options are given by their values; a default has to be one of them. *)
(* A choice made with fzf is an answer of one line (FZFPicks).             *)
Pick(options, lines, multi, default) ==
    IF options = <<>> THEN NoAnswer("cancelled", lines)
    ELSE IF default # Word /\ ~Contains(options, default) THEN NoAnswer("failed", lines)
    ELSE LET d == PickNumbered(lines, Len(options), multi,
                     IF default = Word THEN 0
                     ELSE Leftmost({i \in DOMAIN options : options[i] = default}))
         IN  [d EXCEPT !.value = [k \in DOMAIN d.value |-> options[d.value[k]]]]

Confirm(lines, default) ==
    Ask(lines, LAMBDA line : line \in {"", "y", "yes", "n", "no"},
        LAMBDA line : Answer(IF line = "" THEN default ELSE line \in {"y", "yes"}, <<>>))

Input(lines, default) ==
    Ask(lines, LAMBDA line : TRUE,
        LAMBDA line : Answer(IF line = "" THEN default ELSE line, <<>>))

-----------------------------------------------------------------------------
(* What a dialogue has to be. *)

(* The options named by the numbers, each once, as they were first named.  *)
IsPick(indexes, numbers) ==
    LET first(n) == Leftmost({i \in DOMAIN numbers : numbers[i] = n})
    IN  /\ ToSet(indexes) = ToSet(numbers)
        /\ \A i, j \in DOMAIN indexes : i < j => first(indexes[i]) < first(indexes[j])

Lines(count) == SeqOf((0 .. count + 1) \cup {Word}, 2)

NumberedPicks ==
    \A count \in 1 .. MaxOptions, multi \in BOOLEAN :
        \A lines \in SeqOf(Lines(count), 2), default \in 0 .. count :
            LET d    == PickNumbered(lines, count, multi, default)
                read == Len(lines) - Len(d.rest)
            IN  /\ lines = SubSeq(lines, 1, read) \o d.rest
                /\ d.outcome = "answered" =>
                    IF lines[read] = <<>> THEN d.value = <<default>> /\ default # 0
                    ELSE IsPick(d.value, lines[read]) /\ (Len(d.value) = 1 \/ multi)
                /\ \A i \in 1 .. read - 1 :
                    lines[i] # <<>> /\ (ToSet(lines[i]) \subseteq 1 .. count => ~multi)

FZFPicks ==
    \A count \in 1 .. MaxOptions, multi \in BOOLEAN, line \in Lines(MaxOptions) :
        IsChoice(line, count, multi) =>
            PickFZF(0, [i \in DOMAIN line |-> [index |-> line[i], tab |-> TRUE]], count, multi)
              = PickNumbered(<<line>>, count, multi, 0)

(* A question is answered by the first line that is an answer, an empty    *)
(* one with the default; a value takes one line, whatever is in it.        *)
Prompts ==
    \A lines \in SeqOf({"", "yes", "n", Word}, 3), default \in BOOLEAN :
        LET d    == Confirm(lines, default)
            read == Len(lines) - Len(d.rest)
        IN  /\ lines = SubSeq(lines, 1, read) \o d.rest
            /\ IF d.outcome = "answered"
               THEN /\ ToSet(SubSeq(lines, 1, read - 1)) \subseteq {Word}
                    /\ d.value = (lines[read] = "yes" \/ (lines[read] = "" /\ default))
               ELSE ToSet(lines) \subseteq {Word}
            /\ lines # <<>> => Input(lines, Word).rest = Tail(lines)

DialoguesExact == NumberedPicks /\ FZFPicks /\ Prompts
=============================================================================
