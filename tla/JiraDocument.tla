---------------------------- MODULE JiraDocument ----------------------------
(***************************************************************************)
(* adapters/sinks/adf.py: Markdown to the document format of Jira, which a *)
(* comment is posted in, and back to text, as a description is read.       *)
(*                                                                         *)
(* A line is a record: the kind of block its stripped form starts (a fence *)
(* without a language is "fence"), and the text behind the prefix.  A text *)
(* is a sequence of the markup characters "*", "_" and "tick", of blanks,  *)
(* of "link" for a whole [text](http...), and of words.                    *)
(***************************************************************************)
EXTENDS Integers, Sequences, SequencesExt, FiniteSets

CONSTANTS
  MaxNodes,     \* _MAX_NODES
  MaxReading    \* _MAX_DEPTH

ASSUME DocumentAssumption == MaxNodes \in Nat \ {0} /\ MaxReading \in Nat

Prose(text) == [kind |-> "prose", text |-> text]
IsFence(line) == line.kind \in {"fence", "fence language"}
LineKind == {"blank", "prose", "fence", "fence language", "rule", "heading", "ordered", "bullet"}

\* How many lines there are before the first that is of one of the kinds.
Upto(lines, kinds) ==
  LET first == SelectInSeq(lines, LAMBDA l : l.kind \in kinds)
  IN IF first = 0 THEN Len(lines) ELSE first - 1
Texts(lines) == [i \in DOMAIN lines |-> lines[i].text]
Onwards(lines, i) == SubSeq(lines, i, Len(lines))
Joined(texts) == FoldLeft(LAMBDA all, text : all \o <<" ">> \o text, Head(texts), Tail(texts))

\* The blocks of a text.  A fence is closed by a bare fence only, or by the
\* end; a list goes on as long as its kind does; a paragraph ends before a
\* blank line or the start of anything else.
RECURSIVE BlocksFromLines(_)
BlocksFromLines(lines) ==
  IF lines = <<>> THEN <<>>
  ELSE LET first == Head(lines)
           rest == Tail(lines)
           code == Upto(rest, {"fence"})
           items == Upto(lines, LineKind \ {first.kind})
           prose == Upto(rest, LineKind \ {"prose"})
       IN CASE first.kind = "blank" -> BlocksFromLines(rest)
            [] IsFence(first) ->
                 <<[type |-> "codeBlock", texts |-> Texts(SubSeq(rest, 1, code))]>>
                 \o BlocksFromLines(Onwards(rest, code + 2))
            [] first.kind \in {"ordered", "bullet"} ->
                 <<[type |-> first.kind, texts |-> Texts(SubSeq(lines, 1, items))]>>
                 \o BlocksFromLines(Onwards(lines, items + 1))
            [] first.kind = "prose" ->
                 <<[type |-> "paragraph", texts |-> <<Joined(Texts(SubSeq(lines, 1, prose + 1)))>>]>>
                 \o BlocksFromLines(Onwards(rest, prose + 1))
            [] OTHER ->
                 <<[type |-> first.kind, texts |-> <<first.text>>]>> \o BlocksFromLines(rest)

-----------------------------------------------------------------------------
(* Inline markup: _INLINE.                                                 *)

CharAt(text, i) == IF i \in DOMAIN text THEN text[i] ELSE "end"

Marked(text, i, mark, k) == \A j \in 0..(k - 1) : CharAt(text, i + j) = mark

\* Where the text behind k marks at p ends: at the next mark, if it is not empty
\* and k marks follow; 0 when there is no such text.
EndsAt(text, p, mark, k, e) ==
  IF Marked(text, p, mark, k) /\ e > p + k /\ Marked(text, e, mark, k) THEN e ELSE 0
Closing(text, p, mark, k) ==
  EndsAt(text, p, mark, k, SelectInSubSeq(text, p + k, Len(text), LAMBDA c : c = mark))

\* How many characters the match at p has, 0 for none, and its text node.
Matched(p, k, e) == <<e + k - p, p + k, e - 1>>
FirstMatch(text, p, bold, italic, other) ==
  CASE CharAt(text, p) = "link" -> <<1, p, p>>
    [] bold # 0 -> Matched(p, 2, bold)
    [] bold = 0 /\ italic # 0 /\ CharAt(text, p - 1) # "*" /\ CharAt(text, italic + 1) # "*" ->
         Matched(p, 1, italic)
    [] other # 0 -> Matched(p, 1, other)
    [] OTHER -> <<0, p, p>>
Span(text, p) ==
  FirstMatch(text, p, Closing(text, p, "*", 2), Closing(text, p, "*", 1),
             IF CharAt(text, p) \in {"_", "tick"} THEN Closing(text, p, text[p], 1) ELSE 0)

TextNode(text) == IF text = <<>> THEN <<>> ELSE <<[type |-> "text", text |-> text]>>

\* What is before pos has its nodes, p is where the next match is looked for;
\* when the budget is spent the rest is one node, its markup with it.
RECURSIVE InlineFrom(_, _, _, _), InlineAt(_, _, _, _, _)
InlineFrom(text, pos, p, spent) == InlineAt(text, pos, p, spent, Span(text, p))
InlineAt(text, pos, p, spent, span) ==
  LET found == p <= Len(text) /\ span[1] > 0
      nodes == TextNode(SubSeq(text, pos, p - 1)) \o TextNode(SubSeq(text, span[2], span[3]))
  IN CASE p > Len(text) \/ (found /\ spent >= MaxNodes) -> TextNode(Onwards(text, pos))
       [] p <= Len(text) /\ ~found -> InlineFrom(text, pos, p + 1, spent)
       [] OTHER -> nodes \o InlineFrom(text, p + span[1], p + span[1], spent + Len(nodes))
InlineNodes(text, spent) == InlineFrom(text, 1, 1, spent)

-----------------------------------------------------------------------------
(* Blocks to nodes, within the budget.                                     *)

Paragraph(content) == [type |-> "paragraph", content |-> content]
ListItem(content) == [type |-> "listItem", content |-> <<Paragraph(content)>>]

\* What a node was charged for: an item two, any other block one, and its texts.
RECURSIVE Charged(_)
Charged(node) ==
  CASE node.type \in {"text", "codeBlock", "rule"} -> 1
    [] node.type \in {"ordered", "bullet"} -> FoldLeft(LAMBDA n, c : n + Charged(c), 0, node.content)
    [] OTHER -> FoldLeft(LAMBDA n, c : n + Charged(c), 1, node.content)

RECURSIVE ListItems(_, _)
ListItems(texts, spent) ==
  IF texts = <<>> \/ spent >= MaxNodes THEN <<>>
  ELSE LET item == ListItem(InlineNodes(Head(texts), spent))
       IN <<item>> \o ListItems(Tail(texts), spent + Charged(item))

BlockToNode(block, spent) ==
  LET inline == InlineNodes(block.texts[1], spent)
  IN CASE block.type = "paragraph" -> IF inline = <<>> THEN <<>> ELSE <<Paragraph(inline)>>
       [] block.type = "heading" -> <<[type |-> "heading", content |-> inline]>>
       [] block.type = "codeBlock" -> <<[type |-> "codeBlock", content |-> block.texts]>>
       [] block.type = "rule" -> <<[type |-> "rule"]>>
       [] OTHER -> <<[type |-> block.type, content |-> ListItems(block.texts, spent)]>>

RECURSIVE BlocksToNodes(_, _)
BlocksToNodes(blocks, spent) ==
  IF blocks = <<>> \/ spent >= MaxNodes THEN <<>>
  ELSE LET nodes == BlockToNode(Head(blocks), spent)
       IN nodes \o BlocksToNodes(Tail(blocks), FoldLeft(LAMBDA n, c : n + Charged(c), spent, nodes))

MarkdownToAdf(lines) ==
  LET nodes == BlocksToNodes(BlocksFromLines(lines), 0)
  IN IF nodes = <<>> THEN <<Paragraph(<<>>)>> ELSE nodes

-----------------------------------------------------------------------------
(* Reading a document: lines again, each text without its marks.           *)

RenderInline(content, depth) ==
  IF depth > MaxReading THEN <<>> ELSE FlattenSeq(Texts(content))

RECURSIVE RenderBlock(_, _), RenderChildren(_, _)
RenderBlock(node, depth) ==
  LET Line(kind, text) == IF text = <<>> THEN <<>> ELSE <<[kind |-> kind, text |-> text]>>
      code == IF depth + 1 > MaxReading THEN <<>> ELSE node.content
      Item(item) == IF depth + 1 > MaxReading THEN <<>>
                    ELSE FlattenSeq(Texts(RenderChildren(item.content, depth + 1)))
  IN CASE depth > MaxReading -> <<>>
       [] depth <= MaxReading /\ node.type = "codeBlock" ->
            <<[kind |-> "fence", text |-> <<>>]>> \o [i \in DOMAIN code |-> Prose(code[i])]
            \o <<[kind |-> "fence", text |-> <<>>]>>
       [] depth <= MaxReading /\ node.type = "rule" -> <<[kind |-> "rule", text |-> <<>>]>>
       [] depth <= MaxReading /\ node.type \in {"ordered", "bullet"} ->
            FlattenSeq([i \in DOMAIN node.content |-> Line(node.type, Item(node.content[i]))])
       [] depth <= MaxReading /\ node.type \in {"paragraph", "heading"} ->
            Line("prose", RenderInline(node.content, depth + 1))
       [] OTHER -> RenderChildren(node.content, depth)
RenderChildren(content, depth) ==
  IF depth > MaxReading THEN <<>>
  ELSE FlattenSeq([i \in DOMAIN content |-> RenderBlock(content[i], depth + 1)])

\* The blank lines between the blocks are left out.
AdfToText(doc) == RenderChildren(doc, 0)
=============================================================================
