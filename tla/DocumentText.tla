---------------------------- MODULE DocumentText ----------------------------
(* The text of a document on its way through the translator: the structural  *)
(* map and the anchors built from the parser's tokens (anchor.py), the leaf  *)
(* segments (memory.py), their translation one by one, and the links.        *)
(* Parsing is markdown-it-py's: the document is a nest of blocks, of which   *)
(* the walker sees the tokens and the kernel the text.                       *)
EXTENDS Markdown

CONSTANTS
    Blocks,     \* the blocks of a document: kind, text, atx
    Rule(_),    \* the word the rules have for a word of the source
    MaxBlocks,  \* bound on the blocks of a document
    MaxNests    \* bound on the lists, items, quotes and tables

\* What a rule puts in the place of a word: no number and no mark.
Terms == (WordKinds \ {"num", "full", "half", "dash"}) \X Nat

ASSUME DocumentAssumption ==
    /\ MaxBlocks \in Nat /\ MaxNests \in Nat
    /\ \A b \in Blocks :
         /\ b.kind \in {"heading", "paragraph", "fence", "indented", "hr", "row"}
         /\ b.text \in Seq(Atoms) /\ b.atx \in BOOLEAN
         /\ \A i \in DOMAIN b.text : b.text[i][1] = "cjk" => Rule(b.text[i]) \in Terms

\* What the rules leave of the source language they leave alone: a term is
\* replaced by its target, and a word without one stays (_rule_translate).
ASSUME RuleAssumption ==
    \A b \in Blocks : \A i \in DOMAIN b.text :
        LET a == Rule(b.text[i]) IN
        b.text[i][1] = "cjk" /\ a[1] = "cjk" => Rule(a) = a

VARIABLES
    phase,      \* "parse", "translate", "restore", "rewrite", "bind", "done"
    input,      \* the blocks of the document, with the marks before their lines
    nest,       \* the containers the parser is in: kind and children so far
    nests,      \* how many containers were opened
    open,       \* the containers the walker is in: kind and node
    nodes,      \* the structural map, in depth-first order
    registry,   \* the anchor registry
    next,       \* the next node the translation, or the zip of headings, looks at
    text,       \* the text at work
    originals,  \* the code its placeholders stand for
    broken      \* the BROKEN_LINK entries

document == <<input, nest, nests>>
smap == <<open, nodes>>
vars == <<phase, document, smap, registry, next, text, originals, broken>>

NoText == <<Mark("none")>>
Root == [kind |-> "root", node |-> 0]

Init ==
    /\ phase = "parse" /\ input = <<>>
    /\ nest = <<[kind |-> "root", children |-> 0]>> /\ nests = 0
    /\ open = <<Root>> /\ nodes = <<>>
    /\ registry = [placeholder |-> << >>, counter |-> 0, bound |-> << >>, slugs |-> {}]
    /\ next = 1 /\ text = <<>> /\ originals = <<>> /\ broken = {}

-----------------------------------------------------------------------------
(* The document (external: what markdown-it-py makes of a text)              *)

Containers == {"list", "item", "quote", "table"}
Holds(c) ==
    CASE c = "list" -> {"item"}
      [] c = "table" -> {"row"}
      [] c \in {"root", "item", "quote"} ->
           {"heading", "paragraph", "fence", "indented", "hr", "list", "quote", "table"}

\* The marks before the first line of a block and before its other lines.
Marks(first) ==
    LET Of(level) == CASE level.kind = "quote" -> <<Mark(">")>>
                       [] level.kind = "item" ->
                            <<IF first /\ level.children = 0 THEN Mark("-") ELSE Indent>>
                       [] level.kind \notin {"quote", "item"} -> <<>>
    IN  FlattenSeq([i \in DOMAIN nest |-> Of(nest[i])])

\* A line is a child on every level around it, and uses their marks up.
Entered == [i \in DOMAIN nest |-> [nest[i] EXCEPT !.children = @ + 1]]

\* The lines of a block, its text replaced by t.
LinesOf(b, t) ==
    CASE b.kind = "heading" /\ b.atx -> << <<Hash>> \o t >>
      [] b.kind = "heading" /\ ~b.atx -> Lines(t) \o << <<Under>> >>
      [] b.kind = "fence" -> << <<Fence>> >> \o Lines(t) \o << <<Fence>> >>
      [] b.kind = "indented" -> << <<Indent>> \o t >>
      [] b.kind = "hr" -> << <<Mark("---")>> >>
      [] b.kind = "row" -> << <<Mark("|")>> \o t \o <<Mark("|")>> >>
      [] b.kind = "paragraph" -> Lines(t)

\* The text of a document, each block with the text T gives it, and a blank
\* line after each.
Emitted(T(_), blocks) ==
    LET Written(b) ==
            LET ls == LinesOf(b, T(b))
            IN  FlattenSeq([i \in DOMAIN ls |->
                    (IF i = 1 THEN b.first ELSE b.rest) \o ls[i] \o <<Nl>>])
    IN  FlattenSeq([i \in DOMAIN blocks |-> Written(blocks[i]) \o <<Nl>>])

Source == Emitted(LAMBDA b : b.text, input)

-----------------------------------------------------------------------------
(* StructuralMapBuilder                                                      *)

\* What each _consume_ method makes a node of; every other token is skipped.
Accepts(c) ==
    CASE c = "root" -> {"heading", "paragraph", "list", "quote", "table", "fence", "hr"}
      [] c = "item" -> {"paragraph", "list", "quote", "heading", "table"}
      [] c = "quote" -> {"paragraph", "heading", "list", "quote"}
      [] c = "list" -> {"item"}
      [] c = "table" -> {"row"}

Top == open[Len(open)]
Node(kind, t, block) == [kind |-> kind, text |-> t, parent |-> Top.node, block |-> block]

\* AnchorRegistry.register: the last heading with a slug has it.
Register(t) ==
    [registry EXCEPT
        !.placeholder = [s \in DOMAIN @ \cup {Slug(t)} |->
                            IF s = Slug(t) THEN registry.counter ELSE @[s]],
        !.counter = @ + 1]

\* A block is parsed and its tokens are consumed.  A row attaches to its table
\* with one cell.
ParseBlock(b) ==
    /\ phase = "parse" /\ Len(input) < MaxBlocks
    /\ b.kind \in Holds(Last(nest).kind)
    /\ input' = Append(input, [kind |-> b.kind, text |-> b.text, atx |-> b.atx,
                               first |-> Marks(TRUE), rest |-> Marks(FALSE),
                               within |-> [i \in DOMAIN nest |-> nest[i].kind]])
    /\ nest' = Entered
    /\ IF b.kind \notin Accepts(Top.kind)
       THEN UNCHANGED <<nodes, registry>>
       ELSE /\ nodes' = nodes \o
                 (IF b.kind = "row"
                  THEN <<Node("row", NoText, 0),
                         [Node("cell", b.text, Len(input) + 1) EXCEPT !.parent = Len(nodes) + 1]>>
                  ELSE <<Node(b.kind, b.text, Len(input) + 1)>>)
            /\ registry' = IF b.kind = "heading" THEN Register(b.text) ELSE registry
    /\ UNCHANGED <<phase, nests, open, next, text, originals, broken>>

Open(c) ==
    /\ phase = "parse" /\ nests < MaxNests /\ Len(input) < MaxBlocks
    /\ c \in Holds(Last(nest).kind)
    /\ nest' = Append(nest, [kind |-> c, children |-> 0])
    /\ nests' = nests + 1
    /\ IF c \in Accepts(Top.kind)
       THEN /\ nodes' = Append(nodes, Node(c, NoText, 0))
            /\ open' = Append(open, [kind |-> c, node |-> Len(nodes) + 1])
       ELSE UNCHANGED smap
    /\ UNCHANGED <<phase, input, registry, next, text, originals, broken>>

\* A list item has the text of its first child, when that is a paragraph.
Closed ==
    LET Kids == {i \in DOMAIN nodes : nodes[i].parent = Top.node}
        i == CHOOSE k \in Kids : \A j \in Kids : k <= j
    IN  IF Top.kind = "item" /\ Kids # {} /\ nodes[i].kind = "paragraph"
        THEN [nodes EXCEPT ![Top.node].text = nodes[i].text, ![Top.node].block = nodes[i].block]
        ELSE nodes

\* The walker leaves the container whose close token it sees.  No container is
\* empty: one that is has no node below it, and no leaf.
WalkerLeaves_any(c) == Len(open) > 1
WalkerLeaves(c) == Top.kind = c

Close ==
    /\ phase = "parse" /\ Len(nest) > 1 /\ Last(nest).children > 0
    /\ nest' = Front(nest)
    /\ IF WalkerLeaves(Last(nest).kind)
       THEN nodes' = Closed /\ open' = Front(open)
       ELSE UNCHANGED smap
    /\ UNCHANGED <<phase, input, nests, registry, next, text, originals, broken>>

\* node_count and the end of analyze_document: the text at work is the source
\* with its code stashed.
EndOfDocument ==
    /\ phase = "parse" /\ Len(nest) = 1 /\ input # <<>>
    /\ phase' = "translate"
    /\ text' = Stash(Source).text
    /\ originals' = Stash(Source).originals
    /\ UNCHANGED <<document, smap, registry, next, broken>>

-----------------------------------------------------------------------------
(* The translation                                                           *)

\* iter_leaf_segments: a paragraph right below a list item is passed over.
IsDupParagraph_never(n) == FALSE
IsDupParagraph(n) ==
    /\ n.kind = "paragraph"
    /\ n.parent # 0 /\ nodes[n.parent].kind = "item"
IsLeaf(n) ==
    /\ n.kind \in {"heading", "paragraph", "item", "cell"}
    /\ n.text # NoText
    /\ ~IsDupParagraph(n)
Leaves == {i \in DOMAIN nodes : IsLeaf(nodes[i])}

\* The node of a set that is looked at next, in depth-first order.
IsNext(i, at) == i \in at /\ i >= next /\ \A j \in at : j >= next => i <= j
NoNext(at) == \A j \in at : j < next

\* translate_segment by rule: word by word, code kept, and the full-width
\* marks made half-width ones (_normalize_punctuation).
Rendered(a) ==
    CASE a[1] = "cjk" -> Rule(a)
      [] a[1] = "full" -> Half(a[2])
      [] OTHER -> a
Translated(t) == [i \in DOMAIN t |-> Rendered(t[i])]

\* The translation of a leaf goes where its text is first found in the text at
\* work, with its code keyed or as it is; when it is not found it is lost.
Placed_untranslated(leaf) == ReplaceFirst(leaf.text, leaf.text, text)
Placed(leaf) ==
    LET keyed == LeafKeyed(leaf.text)
    IN  IF Occurs(keyed, text)
        THEN ReplaceFirst(keyed, Translated(leaf.text), text)
        ELSE ReplaceFirst(leaf.text, Translated(leaf.text), text)

TranslateLeaf ==
    /\ phase = "translate"
    /\ \E i \in Leaves :
         /\ IsNext(i, Leaves)
         /\ text' = Placed(nodes[i])
         /\ next' = i + 1
    /\ UNCHANGED <<phase, document, smap, registry, originals, broken>>

\* A document without leaves is translated as a whole, and loses the blanks
\* and line ends around it.
TranslateWhole ==
    /\ phase = "translate" /\ Leaves = {}
    /\ text' = Stripped(Translated(text))
    /\ phase' = "restore"
    /\ UNCHANGED <<document, smap, registry, next, originals, broken>>

LeavesDone ==
    /\ phase = "translate" /\ Leaves # {} /\ NoNext(Leaves)
    /\ phase' = "restore"
    /\ UNCHANGED <<document, smap, registry, next, text, originals, broken>>

RestoreCode ==
    /\ phase = "restore"
    /\ text' = Restore(text, originals)
    /\ phase' = "rewrite"
    /\ UNCHANGED <<document, smap, registry, next, originals, broken>>

-----------------------------------------------------------------------------
(* _rewrite_anchors                                                          *)

\* The link targets are normalized before anything is bound.
NormalizeAnchors ==
    /\ phase = "rewrite"
    /\ text' = NormalizeLinks(text)
    /\ phase' = "bind" /\ next' = 1
    /\ UNCHANGED <<document, smap, registry, originals, broken>>

\* The headings of the source and of the target, zipped in their orders.
SourceHeadings == {i \in DOMAIN nodes : nodes[i].kind = "heading" /\ nodes[i].text # <<>>}
Order(i) == Cardinality({j \in SourceHeadings : j <= i})
Paired == {i \in SourceHeadings : Order(i) <= Len(HeadingLines(text))}

\* resolve_slug of the target heading, bound to the placeholder of the source's.
Bind(source, target) ==
    LET p == registry.placeholder[Slug(source)]
        s == ResolveSlug(registry.slugs, target)
    IN  IF Slug(source) \notin DOMAIN registry.placeholder THEN registry
        ELSE [registry EXCEPT
                 !.slugs = @ \cup {s},
                 !.bound = [q \in DOMAIN @ \cup {p} |-> IF q = p THEN s ELSE @[q]]]

BindHeading ==
    /\ phase = "bind"
    /\ \E i \in Paired :
         /\ IsNext(i, Paired)
         /\ registry' = Bind(nodes[i].text, HeadingLines(text)[Order(i)])
         /\ next' = i + 1
    /\ UNCHANGED <<phase, document, smap, text, originals, broken>>

\* translated_slug_for and is_translated_slug; NoText stands for None.
TranslatedSlugFor(reg, slug) ==
    IF slug \in DOMAIN reg.placeholder /\ reg.placeholder[slug] \in DOMAIN reg.bound
    THEN reg.bound[reg.placeholder[slug]] ELSE NoText
IsTranslatedSlug(reg, slug) == \E p \in DOMAIN reg.bound : reg.bound[p] = slug

\* rewrite_links: line by line, not between fences.  The line that closes a
\* fence is not written.
RewriteLinks(t, reg) ==
    LET New(slug) == IF TranslatedSlugFor(reg, slug) = NoText THEN slug
                     ELSE TranslatedSlugFor(reg, slug)
        Missing(l) == {s \in ToSet(LinkTargets(l)) :
                          /\ TranslatedSlugFor(reg, s) = NoText
                          /\ ~IsTranslatedSlug(reg, s)}
        Step(s, l) ==
            CASE s.fenced /\ StartsWith(l, Fence) -> [s EXCEPT !.fenced = FALSE]
              [] s.fenced /\ ~StartsWith(l, Fence) -> [s EXCEPT !.out = Append(@, l)]
              [] ~s.fenced /\ StartsWith(l, Fence) ->
                   [s EXCEPT !.fenced = TRUE, !.out = Append(@, l)]
              [] OTHER -> [s EXCEPT !.out = Append(@, MapLinks(New, l)),
                                    !.broken = @ \cup Missing(l)]
        end == Scan(Step, [out |-> <<>>, broken |-> {}, fenced |-> FALSE], Lines(t))
    IN  [text |-> Joined(end.out), broken |-> end.broken]

RewriteAnchors ==
    /\ phase = "bind" /\ NoNext(Paired)
    /\ LET rewritten == RewriteLinks(text, registry)
       IN  text' = rewritten.text /\ broken' = rewritten.broken
    /\ phase' = "done"
    /\ UNCHANGED <<document, smap, registry, next, originals>>

Next ==
    \/ \E b \in Blocks : ParseBlock(b)
    \/ \E c \in Containers : Open(c)
    \/ Close \/ EndOfDocument
    \/ TranslateLeaf \/ TranslateWhole \/ LeavesDone \/ RestoreCode
    \/ NormalizeAnchors \/ BindHeading \/ RewriteAnchors

Spec == Init /\ [][Next]_vars
=============================================================================
