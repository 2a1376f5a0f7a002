------------------------------ MODULE Markdown ------------------------------
(***************************************************************************)
(* From a Confluence page to the file that holds it: Filename and          *)
(* RenderMarkdown.  A page is a tree of nodes, given as a sequence of them *)
(* with the numbers of their children; nodes behave according to their     *)
(* names.  A text is a sequence of characters and of words.                *)
(***************************************************************************)
EXTENDS Text, SequencesExt

CONSTANTS
    LowerCaseOf,    \* the lower case of the letters and digits
    Digits,         \* those of them that page IDs consist of
    Punctuation,    \* characters that are neither
    Elements,       \* the elements of the pages that are checked
    MaxElements,    \* bound on their number
    MaxText         \* bound on the checked titles, values and code

ASSUME MarkdownAssumption ==
    /\ \A l \in DOMAIN LowerCaseOf :
          /\ LowerCaseOf[l] \in DOMAIN LowerCaseOf \ {"-"}
          /\ LowerCaseOf[LowerCaseOf[l]] = LowerCaseOf[l]
    /\ Digits \subseteq DOMAIN LowerCaseOf /\ \A d \in Digits : LowerCaseOf[d] = d
    /\ Punctuation \cap DOMAIN LowerCaseOf = {}
    /\ MaxElements \in 0 .. 5 /\ MaxText \in Nat

Join(parts, separator) ==
    FlattenSeq([k \in DOMAIN parts |-> IF k = 1 THEN parts[k] ELSE separator \o parts[k]])

-----------------------------------------------------------------------------
(* Filename *)

Slug(title) ==
    LET Letter(i) == title[i] \in DOMAIN LowerCaseOf
        slug == FlattenSeq([i \in DOMAIN title |->
                  IF ~Letter(i) THEN <<>>
                  ELSE IF i > 1 /\ ~Letter(i - 1) /\ \E j \in 1 .. i - 1 : Letter(j)
                  THEN <<"-", LowerCaseOf[title[i]]>>
                  ELSE <<LowerCaseOf[title[i]]>>])
    IN  IF slug = <<>> THEN <<"page">> ELSE slug

(* Fault: pages are told apart by their titles.                            *)
TitleFilename(title, id) == Slug(title) \o <<"-">> \o <<".md">>

PageFilename(title, id) == Slug(title) \o <<"-">> \o id \o <<".md">>

-----------------------------------------------------------------------------
(* Front matter: strconv.Quote between two lines of dashes. *)

Escape == [c \in {"\"", "\\", "\n"} |-> IF c = "\n" THEN "n" ELSE c]

Quote(value) ==
    <<"\"">> \o FlattenSeq([i \in DOMAIN value |->
                   IF value[i] \in DOMAIN Escape THEN <<"\\", Escape[value[i]]>>
                   ELSE <<value[i]>>]) \o <<"\"">>

FrontMatter(values) ==
    FlattenSeq(<<<<"---", "\n">>>> \o
               [k \in DOMAIN values |-> <<"key", ": ">> \o Quote(values[k]) \o <<"\n">>] \o
               <<<<"---", "\n", "\n">>>>)

-----------------------------------------------------------------------------
(* Inline text *)

LineBreak == "<br>"

Space == {" ", "\n"}

(* normalizeInline: single spaces between the words of each line.          *)
Normalize(text) ==
    LET Ink(i) == text[i] \notin Space \cup {LineBreak}
        Between(i) == /\ i > 1 /\ Ink(i - 1)
                      /\ \E j \in i + 1 .. Len(text) :
                            Ink(j) /\ \A k \in i + 1 .. j - 1 : text[k] \in Space
    IN  FlattenSeq([i \in DOMAIN text |->
            IF text[i] = LineBreak THEN <<" ", " ", "\n">>
            ELSE IF Ink(i) THEN <<text[i]>>
            ELSE IF Between(i) THEN <<" ">> ELSE <<>>])

Tick == "backtick"

Backticks(n) == [k \in 1 .. n |-> Tick]

Runs(text) ==
    {n \in 1 .. Len(text) : \E i \in 0 .. Len(text) - n :
        \A k \in 1 .. n : text[i + k] = Tick}

(* Fault: as long as the longest run in the text.                          *)
ShortDelimiter(text, minimum) ==
    Backticks(Rightmost(Runs(text) \cup {minimum}))

(* One longer than the longest run in the text, and the minimum at least.  *)
BacktickDelimiter(text, minimum) ==
    Backticks(Rightmost({n + 1 : n \in Runs(text)} \cup {minimum}))

InlineCode(text) ==
    LET padding == IF text # <<>> /\ Tick \in {Head(text), Last(text)} THEN <<" ">> ELSE <<>>
        marker  == BacktickDelimiter(text, 1)
    IN  marker \o padding \o text \o padding \o marker

FencedCode(text) ==
    BacktickDelimiter(text, 3) \o <<"\n">> \o text \o <<"\n">> \o BacktickDelimiter(text, 3)

TrimNewlines(text) ==
    SubSeq(text, 1, Rightmost({i \in DOMAIN text : text[i] # "\n"} \cup {0}))

(* Node: [name, text, attr (href, alt or ac:name), kids].                  *)
Each(rendered, kids) == FlattenSeq([k \in DOMAIN kids |-> rendered[kids[k]]])

(* The texts below each node: those of the named kinds.                    *)
TextBelow(doc, kinds) ==
    LET text[n \in DOMAIN doc] ==
            IF doc[n].name \in kinds THEN doc[n].text ELSE Each(text, doc[n].kids)
    IN  text

Inline(doc) ==
    LET inline[n \in DOMAIN doc] ==
            LET name     == doc[n].name
                children == Each(inline, doc[n].kids)
                label    == Normalize(children)
            IN  CASE name = "#text"              -> doc[n].text
                  [] name = "#comment"           -> <<>>
                  [] name = "br"                 -> <<LineBreak>>
                  [] name \in {"strong", "b"}    -> <<"**">> \o label \o <<"**">>
                  [] name \in {"em", "i"}        -> <<"*">> \o label \o <<"*">>
                  [] name = "code"               -> InlineCode(
                                    Strip(Each(TextBelow(doc, {"#text"}), doc[n].kids), Space))
                  [] name = "a"                  -> IF doc[n].attr = <<>> THEN label
                       ELSE <<"[">> \o label \o <<"](">> \o doc[n].attr \o <<")">>
                  [] name = "img"                -> doc[n].attr
                  [] OTHER                       -> children
    IN  inline

InlineChildren(doc, n) == Normalize(Each(Inline(doc), doc[n].kids))

-----------------------------------------------------------------------------
(* Blocks *)

Heading == [h1 |-> <<"#">>, h2 |-> <<"##">>, h3 |-> <<"###">>,
            h4 |-> <<"####">>, h5 |-> <<"#####">>, h6 |-> <<"######">>]

Kids(doc, n, names) == SelectSeq(doc[n].kids, LAMBDA k : doc[k].name \in names)

Others(doc, n, names) == SelectSeq(doc[n].kids, LAMBDA k : doc[k].name \notin names)

Lists == {"ul", "ol"}

Ordinals == <<"1.", "2.", "3.", "4.", "5.">>

(* renderList: the lines of a list; the lists of an item follow its text,  *)
(* an empty one as an empty line.                                          *)
ListLines(doc) ==
    LET lines[x \in (DOMAIN doc) \X (0 .. Len(doc))] ==
            LET items == Kids(doc, x[1], {"li"})
                Item(k) ==
                    LET nested == Kids(doc, items[k], Lists)
                        marker == IF doc[x[1]].name = "ul" THEN "-" ELSE Ordinals[k]
                    IN  <<[d \in 1 .. 2 * x[2] |-> " "] \o <<marker, " ">>
                            \o Normalize(Each(Inline(doc), Others(doc, items[k], Lists)))>>
                          \o FlattenSeq([i \in DOMAIN nested |->
                                LET inner == lines[nested[i], x[2] + 1]
                                IN  IF inner = <<>> THEN <<<<>>>> ELSE inner])
            IN  FlattenSeq([k \in DOMAIN items |-> Item(k)])
    IN  lines

RenderList(doc, n) == Join(ListLines(doc)[n, 0], <<"\n">>)

(* walkElements: the outermost rows below each node.                       *)
RowsBelow(doc) ==
    LET rows[n \in DOMAIN doc] ==
            FlattenSeq([k \in DOMAIN doc[n].kids |->
                LET kid == doc[n].kids[k]
                IN  IF doc[kid].name = "tr" THEN <<kid>> ELSE rows[kid]])
    IN  rows

EscapePipes(text) ==
    FlattenSeq([i \in DOMAIN text |-> IF text[i] = "|" THEN <<"\\", "|">> ELSE <<text[i]>>])

Cells(doc, row) ==
    LET cells == Kids(doc, row, {"th", "td"})
    IN  [k \in DOMAIN cells |-> EscapePipes(InlineChildren(doc, cells[k]))]

(* As many columns as the first row has, whatever the others have.         *)
TableRow(cells, columns) ==
    <<"|", " ">>
      \o Join([k \in 1 .. columns |-> IF k \in DOMAIN cells THEN cells[k] ELSE <<>>],
              <<" ", "|", " ">>)
      \o <<" ", "|">>

RenderTable(doc, n) ==
    LET rows    == RowsBelow(doc)[n]
        table   == SelectSeq([i \in DOMAIN rows |-> Cells(doc, rows[i])],
                             LAMBDA cells : cells # <<>>)
        columns == Len(table[1])
        Line(cells) == TableRow(cells, columns)
    IN  IF table = <<>> THEN <<>>
        ELSE Join(<<Line(table[1]), Line([k \in 1 .. columns |-> <<"---">>])>>
                    \o [i \in 1 .. Len(table) - 1 |-> Line(table[i + 1])], <<"\n">>)

(* codeMacroText: the first body that is not empty, or all of the macro,   *)
(* with what the parser made comments.                                     *)
CodeMacroText(doc, n) ==
    LET all == TextBelow(doc, {"#text", "#comment"})
        below[k \in DOMAIN doc] ==
            FlattenSeq([i \in DOMAIN doc[k].kids |->
                <<doc[k].kids[i]>> \o below[doc[k].kids[i]]])
        bodies == SelectSeq(below[n], LAMBDA k :
                      doc[k].name \in {"ac:plain-text-body", "plain-text-body"} /\ all[k] # <<>>)
        text   == IF bodies # <<>> THEN all[bodies[1]] ELSE all[n]
        behind == IF text # <<>> /\ Head(text) = "[CDATA[" THEN Tail(text) ELSE text
    IN  IF behind # <<>> /\ Last(behind) = "]]" THEN Front(behind) ELSE behind

Macros == {"ac:structured-macro", "structured-macro"}

BlockElements == DOMAIN Heading \cup Lists \cup Macros \cup {"p", "div", "pre", "table"}

Sections == {"div", "section", "article", "body", "html"}

IsCodeMacro(node) == node.name \in Macros /\ node.attr = <<"code">>

(* What stands for its children: sections, macros that are not code, and   *)
(* unknown elements with a block in them.                                  *)
IsContainer(doc, n) ==
    \/ doc[n].name \in Sections \cup Macros /\ ~IsCodeMacro(doc[n])
    \/ /\ doc[n].name \notin BlockElements \cup Sections
       /\ Kids(doc, n, BlockElements) # <<>>

Block(text) == IF Strip(text, Space) = <<>> THEN <<>> ELSE <<Strip(text, Space)>>

RenderBlock(doc, n) ==
    LET name == doc[n].name
    IN  CASE name = "#text"           -> Normalize(doc[n].text)
          [] name \in DOMAIN Heading  -> Heading[name] \o <<" ">> \o InlineChildren(doc, n)
          [] name = "p"               -> InlineChildren(doc, n)
          [] name = "br"              -> <<>>
          [] name \in Lists           -> RenderList(doc, n)
          [] name = "pre"             ->
                 FencedCode(TrimNewlines(Each(TextBelow(doc, {"#text"}), doc[n].kids)))
          [] name = "table"           -> RenderTable(doc, n)
          [] IsCodeMacro(doc[n])      -> FencedCode(Strip(CodeMacroText(doc, n), Space))
          [] OTHER                    -> Inline(doc)[n]

(* Fault: an unknown element is left out with what is in it.               *)
KnownBlocks(doc) ==
    LET blocks[n \in DOMAIN doc] ==
            IF IsContainer(doc, n)
            THEN IF doc[n].name \in Sections THEN Each(blocks, doc[n].kids) ELSE <<>>
            ELSE Block(RenderBlock(doc, n))
    IN  blocks

(* The blocks of each node.                                                *)
Blocks(doc) ==
    LET blocks[n \in DOMAIN doc] ==
            IF IsContainer(doc, n) THEN Each(blocks, doc[n].kids)
            ELSE Block(RenderBlock(doc, n))
    IN  blocks

(* RenderMarkdown for a page whose nodes are all below the first one.      *)
RenderMarkdown(values, doc) ==
    LET body == Join(Each(Blocks(doc), doc[1].kids), <<"\n", "\n">>)
    IN  FrontMatter(values) \o body
          \o (IF body # <<>> /\ Last(body) # "\n" THEN <<"\n">> ELSE <<>>)

-----------------------------------------------------------------------------
(* What has to be read from a generated file. *)

Node(name, text, attr, kids) == [name |-> name, text |-> text, attr |-> attr, kids |-> kids]

TextNode(text) == Node("#text", text, <<>>, <<>>)

(* A file name is one component, which no file system tells apart by case, *)
(* and ends in the page ID.                                                *)
IsIdentified(title, id) ==
    LET name == PageFilename(title, id)
    IN  /\ After(Rightmost(Positions("-", name)), name) = id \o <<".md">>
        /\ name[1] # "-"
        /\ \A i \in 1 .. Len(name) - 1 :
              name[i] \in {LowerCaseOf[l] : l \in DOMAIN LowerCaseOf} \cup {"-", "page"}

FilenamesExact ==
    \A title \in SeqOf(DOMAIN LowerCaseOf \cup Punctuation, MaxText),
       id \in SeqOf(Digits, 2) \ {<<>>} : IsIdentified(title, id)

(* What is between each two of the positions.                              *)
Divided(text, positions) ==
    LET ends == SelectSeq([k \in 1 .. Len(text) + 2 |-> k - 1], LAMBDA i : i \in positions)
    IN  [k \in 1 .. Len(ends) - 1 |-> SubSeq(text, ends[k] + 1, ends[k + 1] - 1)]

LinesOf(text) == Divided(text, Positions("\n", text) \cup {0, Len(text) + 1})

(* A quoted value ends at the first quote that is not escaped.             *)
Unquote(quoted) ==
    LET from[i \in 2 .. Len(quoted)] ==
            IF quoted[i] = "\"" THEN IF i = Len(quoted) THEN <<>> ELSE <<"?">>
            ELSE IF quoted[i] = "\\"
            THEN <<CHOOSE c \in DOMAIN Escape : Escape[c] = quoted[i + 1]>> \o from[i + 2]
            ELSE <<quoted[i]>> \o from[i + 1]
    IN  from[2]

FrontMatterExact ==
    \A value \in SeqOf(DOMAIN Escape \cup {"x", "---"}, MaxText) :
        LET lines == LinesOf(FrontMatter(<<value, value>>))
        IN  /\ lines[1] = <<"---">> /\ lines[4] = <<"---">>
            /\ \A k \in 2 .. 3 : Unquote(SubSeq(lines[k], 3, Len(lines[k]))) = value

Codes == SeqOf({Tick, "x", " ", "\n"}, MaxText)

(* Fenced code ends at the first line with as many backticks as the first. *)
FencesExact ==
    \A code \in Codes :
        LET lines   == LinesOf(FencedCode(code))
            Fence(k) == /\ ToSet(Strip(lines[k], {" "})) = {Tick}
                        /\ Len(Strip(lines[k], {" "})) >= Len(lines[1])
        IN  /\ Fence(1) /\ Leftmost({k \in 2 .. Len(lines) : Fence(k)}) = Len(lines)
            /\ Join(SubSeq(lines, 2, Len(lines) - 1), <<"\n">>) = code

(* Inline code ends at the first run of as many backticks as the first,    *)
(* and is read without a space at each end.                                *)
InlineCodeExact ==
    \A code \in Codes : Strip(code, Space) # <<>> =>
        LET doc    == <<Node("code", <<>>, <<>>, <<2>>), TextNode(code)>>
            text   == Normalize(Inline(doc)[1])
            Run(i, n) == \A k \in DOMAIN text : k \in i .. i + n - 1 => text[k] = Tick
            width  == Rightmost({n \in DOMAIN text : Run(1, n)})
            close  == {i \in width + 1 .. Len(text) - width + 1 :
                          /\ Run(i, width) /\ text[i - 1] # Tick
                          /\ i + width \in DOMAIN text => text[i + width] # Tick}
            inside == SubSeq(text, width + 1, Len(text) - width)
            padded == inside[1] = " " /\ Last(inside) = " "
        IN  /\ close = {Len(text) - width + 1}
            /\ Normalize(Strip(code, Space)) =
                  IF padded THEN Front(Tail(inside)) ELSE inside

(* The parser takes a CDATA section for a comment, which ends at the first *)
(* ">": code without it.                                                   *)
MacrosExact ==
    \A code \in Codes : Strip(code, Space) # <<>> =>
        LET doc == <<Node("ac:structured-macro", <<>>, <<"code">>, <<2, 3>>),
                     Node("ac:parameter", <<>>, <<"language">>, <<4>>),
                     Node("ac:plain-text-body", <<>>, <<>>, <<5>>),
                     TextNode(<<"go">>),
                     Node("#comment", <<"[CDATA[">> \o code \o <<"]]">>, <<>>, <<>>)>>
        IN  Blocks(doc)[1] = <<FencedCode(Strip(code, Space))>>

CellTexts == SeqOf({"|", "x"}, 2)

Table(rows) ==
    LET cells   == FlattenSeq(rows)
        Row(i)  == Len(FlattenSeq(SubSeq(rows, 1, i - 1)))
        first   == 1 + Len(rows)
    IN  <<Node("table", <<>>, <<>>, [i \in DOMAIN rows |-> 1 + i])>>
          \o [i \in DOMAIN rows |-> Node("tr", <<>>, <<>>,
                  [k \in DOMAIN rows[i] |-> first + 2 * (Row(i) + k) - 1])]
          \o FlattenSeq([c \in DOMAIN cells |->
                  <<Node("td", <<>>, <<>>, <<first + 2 * c>>), TextNode(cells[c])>>])

(* A line is divided at the pipes that are not escaped.                    *)
CellsOf(line) ==
    LET cells == Divided(line, {i \in Positions("|", line) : i = 1 \/ line[i - 1] # "\\"})
    IN  [k \in DOMAIN cells |-> SelectSeq(Strip(cells[k], {" "}), LAMBDA c : c # "\\")]

(* No row may be wider than the first.                                     *)
TablesExact ==
    \A header \in SeqOf(CellTexts, 2) \ {<<>>} : \A row \in SeqOf(CellTexts, Len(header)) \ {<<>>} :
        LET lines == LinesOf(RenderTable(Table(<<header, row>>), 1))
        IN  /\ Len(lines) = 3 /\ CellsOf(lines[1]) = header
            /\ CellsOf(lines[2]) = [k \in DOMAIN header |-> <<"---">>]
            /\ CellsOf(lines[3]) =
                  [k \in DOMAIN header |-> IF k \in DOMAIN row THEN row[k] ELSE <<>>]

MarkdownExact ==
    FrontMatterExact /\ FencesExact /\ InlineCodeExact /\ MacrosExact /\ TablesExact

(* The pages of a few elements, in which each element but those that only  *)
(* have elements begins with a word of its own.                            *)
Letters == <<"v", "w", "x", "y", "z">>

PageOf(names, parents) ==
    LET n == Len(names)
        Below(i) == SelectSeq([k \in 1 .. n |-> k + 1], LAMBDA k : parents[k - 1] = i)
        Word(i)  == IF names[i] \in Lists \cup {"table", "tr"} THEN <<>> ELSE <<n + 1 + i>>
    IN  <<Node("div", <<>>, <<>>, Below(1))>>
          \o [i \in 1 .. n |-> Node(names[i], <<>>, <<>>, Word(i) \o Below(i + 1))]
          \o [i \in 1 .. n |-> TextNode(<<Letters[i]>>)]

(* What the parser leaves below an element.                                *)
Allowed(name) ==
    CASE name \in Lists -> {"li"}
      [] name = "table" -> {"tr"}
      [] name = "tr"    -> {"td"}
      [] name = "p"     -> (Elements \ (BlockElements \cup {"li", "tr", "td"})) \cup {"#text"}
      [] name = "li"    -> (Elements \ {"li", "tr", "td"}) \cup {"#text"}
      [] OTHER          -> (Elements \ {"tr", "td"}) \cup {"#text"}

(* Items that end with the lists in them, tables no wider than their first *)
(* row.                                                                    *)
IsRegular(doc) ==
    \A n \in DOMAIN doc :
        LET kids == [k \in DOMAIN doc[n].kids |-> doc[doc[n].kids[k]]]
        IN  /\ {kids[k].name : k \in DOMAIN kids} \subseteq Allowed(doc[n].name)
            /\ doc[n].name = "li" =>
                  \A i, j \in DOMAIN kids : i < j /\ kids[i].name \in Lists => kids[j].name \in Lists
            /\ doc[n].name = "table" =>
                  \A k \in DOMAIN kids : Len(kids[k].kids) <= Len(kids[1].kids)

TextExact ==
    \A n \in 1 .. MaxElements :
      \A names \in [1 .. n -> Elements], parents \in [1 .. n -> 1 .. n] :
        (\A i \in 1 .. n : parents[i] <= i) =>
            LET doc == PageOf(names, parents)
            IN  IsRegular(doc) =>
                    SelectSeq(RenderMarkdown(<<>>, doc), LAMBDA c : c \in ToSet(Letters))
                      = TextBelow(doc, {"#text"})[1]
=============================================================================
