-------------------------- MODULE DocumentTextProps --------------------------
(* What a document may rely on when it goes through DocumentText.            *)
EXTENDS DocumentText

Kinds == {"heading", "paragraph", "fence", "hr", "row", "cell"} \cup Containers

\* The types of the variables; and every block and container of the map has
\* its parent before it.
TypeOK ==
    /\ phase \in {"parse", "translate", "restore", "rewrite", "bind", "done"}
    /\ Len(input) \in 0..MaxBlocks /\ nests \in 0..MaxNests
    /\ \A i \in DOMAIN nodes :
         /\ nodes[i].kind \in Kinds
         /\ nodes[i].parent \in 0..(i - 1)
         /\ nodes[i].block \in 0..Len(input)
    /\ open # <<>> /\ \A i \in DOMAIN open : open[i].node \in 0..Len(nodes)
    /\ registry.counter \in 0..MaxBlocks
    /\ next \in 1..(Len(nodes) + 1)

KindsOf(levels) == [i \in DOMAIN levels |-> levels[i].kind]
InSkippedTable ==
    /\ Len(nest) > 1
    /\ nest[Len(nest)].kind = "table" /\ nest[Len(nest) - 1].kind = "quote"

\* The walker never loses its place: the containers it is in are those of the
\* parser, but for a table inside a block quote, which it passes over with
\* all that is in it (the loops of _consume_list, _consume_list_item,
\* _consume_blockquote and _consume_table, each with its own close token).
WalkerInStep == KindsOf(open) = KindsOf(IF InSkippedTable THEN Front(nest) ELSE nest)

\* Every heading of the document, however deep, has a node and a placeholder
\* under its slug, so a link to it can be resolved, and no two placeholders
\* get one anchor (register, resolve_slug).
EveryHeadingAnchored ==
    /\ \A i \in DOMAIN input : input[i].kind = "heading" =>
         /\ \E n \in DOMAIN nodes : nodes[n].block = i /\ nodes[n].kind = "heading"
         /\ Slug(input[i].text) \in DOMAIN registry.placeholder
    /\ \A p, q \in DOMAIN registry.bound :
         p # q => registry.bound[p] # registry.bound[q]

\* No block of the document is translated as two leaf segments
\* (iter_leaf_segments, "producing duplicate TRANSLATE_SEGMENT audit records").
NoLeafTwice ==
    phase # "parse" => \A i, j \in Leaves : i # j => nodes[i].block # nodes[j].block

CountsSurvive(source, target) ==
    LET was == StructureCounts(source)
        is == StructureCounts(target)
    IN  /\ \A count \in DOMAIN was \ {"items"} : is[count] = was[count]
        /\ was.items <= is.items
        /\ is.items <= was.items + Cardinality(NumbersWith(Full(0), source))

\* Translating leaf by leaf and putting the code back keeps the counts that
\* verify_output compares, whatever the leaves are and wherever their
\* translations land; but for the list items, to which a line is added at most
\* for every number that leads one with a full-width stop behind it
\* (_normalize_punctuation makes "1. " of it).
StructureSurvives == phase = "rewrite" /\ Leaves # {} => CountsSurvive(Source, text)

-----------------------------------------------------------------------------
(* A plain document, and what becomes of it.                                 *)

HasKind(t, k) == \E i \in DOMAIN t : t[i][1] = k
Translatable(b) == b.kind \in {"heading", "paragraph", "row"}

\* No inline code, no indented code, no fence inside a block, no table in a
\* quote, no paragraph of several lines or second paragraph inside a container.
Plain ==
    \A i \in DOMAIN input :
        LET b == input[i] IN
        /\ b.kind # "indented" /\ ~HasKind(b.text, "fence")
        /\ Translatable(b) => ~HasKind(b.text, "code")
        /\ HasKind(b.text, "nl") => b.within = <<"root">>
        /\ b.kind = "row" => b.within[Len(b.within) - 1] # "quote"
        /\ b.kind = "paragraph" /\ Last(b.within) = "item" => b.first # b.rest

\* Of a plain document every leaf is translated, in its place, and nothing
\* else is changed, although each translation is placed by a search for its
\* text (_execute_translation).
PlainTranslatedInPlace ==
    phase = "rewrite" /\ Leaves # {} /\ Plain =>
        text = Emitted(LAMBDA b : IF Translatable(b) THEN Translated(b.text) ELSE b.text, input)

\* The headings of the source as the zip of _rewrite_anchors needs them: at
\* the start of a line with a number sign, no line of code like them, and no
\* two with the same translation.
Headings == SelectSeq(input, LAMBDA b : b.kind = "heading")
Pairable ==
    /\ \A i \in DOMAIN input :
         /\ input[i].kind = "heading" => input[i].atx /\ input[i].within = <<"root">>
         /\ input[i].kind \in {"fence", "indented"} => ~HasKind(input[i].text, "#")
    /\ \A i, j \in DOMAIN Headings :
         i # j => Slug(Translated(Headings[i].text)) # Slug(Translated(Headings[j].text))

\* A slug has no full-width marks, and where a heading has one its translation
\* has a blank, for which its slug gets a dash.
Unmarked == \A h \in DOMAIN Headings : ~HasKind(Headings[h].text, "full")

\* Every link that is not code and points at a heading of the source points,
\* in the output, at the heading in its place.
LinksLead ==
    LET from == LinkTargets(Source)
        to == LinkTargets(text)
        anchors == HeadingLines(text)
    IN  /\ Len(to) = Len(from)
        /\ \A k \in DOMAIN from, h \in DOMAIN Headings :
             /\ from[k] = Slug(Headings[h].text)
             /\ \A f \in DOMAIN input : input[f].kind = "fence" => ~HasKind(input[f].text, "](#")
             => to[k] = Slug(anchors[h])

\* In such a document, with no full-width mark in a heading, a link to a
\* heading leads to that heading of the output (S-06).
LinksLeadHome ==
    phase = "done" /\ Leaves # {} /\ Plain /\ Pairable /\ Unmarked => LinksLead

-----------------------------------------------------------------------------
(* Statements about this code that the code does not keep.                   *)

\* "fenced and inline code blocks are no-translate zones - extracted as
\* placeholders before translation and restored verbatim after".
CodeAtoms(t) == SelectSeq(t, LAMBDA a : a[1] \in {"code", "fence"})
CodeRestored == phase = "done" => CodeAtoms(text) = CodeAtoms(Source)
InlineRestored ==
    phase = "rewrite" => CodeAtoms(text) = CodeAtoms(Source)

\* "matching what's in `translated`": a leaf is found by its keyed text.
EveryLeafFound ==
    phase = "translate" =>
        \A i \in Leaves : IsNext(i, Leaves) => Occurs(LeafKeyed(nodes[i].text), text)

\* "List item count mismatch after translation" stands for a lost structure:
\* the translation itself changes no count.
CountsKept ==
    phase = "rewrite" /\ Leaves # {} => StructureCounts(text).items = StructureCounts(Source).items

\* "Links that target a known heading are rewritten to the heading's
\* translated slug", also when the heading has a full-width mark in it.
LinksLeadHomeMarked ==
    phase = "done" /\ Leaves # {} /\ Plain /\ Pairable => LinksLead

\* "the LIST_ITEM already carries the text" of a paragraph below it.
EveryBlockIsALeaf ==
    phase = "translate" =>
        \A i \in DOMAIN input : Translatable(input[i]) =>
            \E k \in Leaves : nodes[k].block = i

\* "every emitted node ... is counted": the map has a node for every block.
EveryBlockHasNode ==
    \A i \in DOMAIN input : \E n \in DOMAIN nodes :
        nodes[n].block = i \/ input[i].kind = "indented"

\* "de-duplicating collisions ... so cross-references stay unique": a link
\* that is not code leads to its heading also when two headings translate alike.
LinksLeadHomeAlways ==
    phase = "done" /\ Plain /\ (\A i \in DOMAIN input : input[i].kind # "fence") =>
        LET from == LinkTargets(Source)
            to == LinkTargets(text)
        IN  \A k \in DOMAIN from, h \in DOMAIN Headings :
              from[k] = Slug(Headings[h].text) /\ Len(to) = Len(from)
              => to[k] = registry.bound[registry.placeholder[from[k]]]
=============================================================================
