------------------------------ MODULE Markdown ------------------------------
(* Markdown text as the string operations of the translator see it: slugs    *)
(* and links (anchor.py), the stashing of code (kernel._execute_translation) *)
(* and the structural counts of verify_output (isa.py).                      *)
(* A text is a sequence of atoms <<kind, n>>: marks, line ends, words, spans *)
(* of code and the placeholders that stand for code.                         *)
EXTENDS Integers, FiniteSets, SequencesExt

Mark(m) == <<m, 0>>
Nl == Mark("nl")           \* the end of a line
Hash == Mark("#")          \* an ATX heading
Under == Mark("===")       \* the underline of a setext heading
Fence == Mark("fence")     \* a line that opens or closes a fenced block
LinkTo == Mark("](#")      \* a link and the start of its target
LinkEnd == Mark(")")
Indent == Mark(" ")

Cjk(n) == <<"cjk", n>>     \* a word of the source
En(n) == <<"En", n>>       \* the translation of a word, with capitals or spaces
Num(n) == <<"num", n>>
Full(n) == <<"full", n>>   \* a full-width mark; Full(0) is the full stop
Half(n) == <<"half", n>>   \* the half-width mark for it, with a blank behind it
Stop == Half(0)
Dash == <<"dash", 0>>
Code(n) == <<"code", n>>   \* an inline code span
CodeBlockKey(n) == <<"CODE_BLOCK", n>>
InlineCodeKey(n) == <<"INLINE_CODE", n>>

\* What a document is written in: everything but the placeholders.
MarkKinds == {"nl", "#", "===", "fence", "](#", ")", " ", ">", "-", "|", "---", "none"}
WordKinds == {"cjk", "En", "en", "num", "code", "word", "full", "half", "dash"}
Words == WordKinds \X Nat
Atoms == (MarkKinds \cup WordKinds) \X Nat

\* Op folded over s from the left.  A recursive function, for the folds of the
\* community modules look for the first element of a set at every step.
Scan(Op(_, _), base, s) ==
    LET f[i \in 0..Len(s)] == IF i = 0 THEN base ELSE Op(f[i - 1], s[i])
    IN  f[Len(s)]

\* The lines of a text, without their ends.
Lines(t) ==
    Scan(LAMBDA ls, a : IF a = Nl THEN Append(ls, <<>>) ELSE Front(ls) \o <<Append(Last(ls), a)>>,
         << <<>> >>, t)
Joined(ls) == Tail(FlattenSeq([i \in DOMAIN ls |-> <<Nl>> \o ls[i]]))

\* str.replace(old, new, 1)
Positions(old, t) ==
    {i \in 1..(Len(t) - Len(old) + 1) : \A j \in DOMAIN old : t[i + j - 1] = old[j]}
Occurs(old, t) == Positions(old, t) # {}
ReplaceFirst(old, new, t) ==
    LET P == Positions(old, t)
        i == CHOOSE p \in P : \A q \in P : p <= q
    IN  IF P = {} THEN t ELSE ReplaceSubSeqAt(i, new, old, t)

-----------------------------------------------------------------------------
(* Slugs                                                                     *)

\* generate_github_slug: lower case, blanks to dashes, and all punctuation gone.
\* Of a half-width mark its blank stays, but for one at the end.
Slug(t) ==
    LET trimmed == IF t # <<>> /\ Last(t)[1] = "half" THEN Front(t) ELSE t
        kept == SelectSeq(trimmed,
                          LAMBDA a : a \notin {LinkTo, LinkEnd, Nl} /\ a[1] # "full")
        Lower(a) == CASE a[1] = "En" -> <<"en", a[2]>>
                      [] a[1] = "code" -> <<"word", a[2]>>
                      [] a[1] = "half" -> Dash
                      [] OTHER -> a
    IN  [i \in DOMAIN kept |-> Lower(kept[i])]

\* A slug with a number behind it.
Numbered(base, k) ==
    [i \in DOMAIN base \cup {Len(base) + 1} |-> IF i = Len(base) + 1 THEN Num(k) ELSE base[i]]

\* resolve_slug: the first of base, base-1, base-2, ... nobody has.
ResolveSlug_one_try(existing, t) ==
    IF Slug(t) \in existing THEN Numbered(Slug(t), 1) ELSE Slug(t)
ResolveSlug(existing, t) ==
    LET base == Slug(t)
        free == {k \in 1..(Cardinality(existing) + 1) : Numbered(base, k) \notin existing}
    IN  IF base \notin existing THEN base
        ELSE Numbered(base, CHOOSE k \in free : \A j \in free : k <= j)

-----------------------------------------------------------------------------
(* Code is stashed before the translation and put back after it.             *)

\* ```...``` in the order of the text; an opening fence that nothing closes
\* is not stashed.
FenceStep(s, a) ==
    CASE a = Fence /\ s.block = <<>> -> [s EXCEPT !.block = <<a>>]
      [] a = Fence /\ s.block # <<>> ->
           [s EXCEPT !.text = Append(@, CodeBlockKey(Len(s.blocks))),
                     !.blocks = Append(@, Append(s.block, a)),
                     !.block = <<>>]
      [] a # Fence /\ s.block # <<>> -> [s EXCEPT !.block = Append(@, a)]
      [] a # Fence /\ s.block = <<>> -> [s EXCEPT !.text = Append(@, a)]
StashFences(t) ==
    LET end == Scan(FenceStep, [text |-> <<>>, blocks |-> <<>>, block |-> <<>>], t)
    IN  [text |-> end.text \o end.block, blocks |-> end.blocks]

\* `...`: the keys count on from the fenced blocks.
InlineStep(taken, s, a) ==
    IF a[1] = "code"
    THEN [s EXCEPT !.text = Append(@, InlineCodeKey(taken + Len(s.spans))),
                   !.spans = Append(@, a)]
    ELSE [s EXCEPT !.text = Append(@, a)]
StashInline(t, taken) ==
    Scan(LAMBDA s, a : InlineStep(taken, s, a), [text |-> <<>>, spans |-> <<>>], t)

\* Both, and the originals in the order of their keys.
Stash(t) ==
    LET fences == StashFences(t)
        inline == StashInline(fences.text, Len(fences.blocks))
    IN  [text |-> inline.text,
         originals |-> fences.blocks \o [i \in DOMAIN inline.spans |-> <<inline.spans[i]>>]]

Restore_inline_only(t, originals) ==
    FlattenSeq([i \in DOMAIN t |->
        IF t[i][1] = "INLINE_CODE" THEN originals[t[i][2] + 1] ELSE <<t[i]>>])
Restore(t, originals) ==
    FlattenSeq([i \in DOMAIN t |->
        IF t[i][1] \in {"CODE_BLOCK", "INLINE_CODE"} THEN originals[t[i][2] + 1] ELSE <<t[i]>>])

\* The text of a leaf as it is looked for: every span of code gets the first key.
LeafKeyed(t) == [i \in DOMAIN t |-> IF t[i][1] = "code" THEN InlineCodeKey(0) ELSE t[i]]

-----------------------------------------------------------------------------
(* Links                                                                     *)

\* The text with Target applied to what every link of it points at.
MapLinks(Target(_), t) ==
    LET Step(s, a) ==
            CASE a = LinkTo -> [out |-> Append(s.out, a), link |-> TRUE, target |-> <<>>]
              [] a = LinkEnd /\ s.link ->
                   [out |-> Append(s.out \o Target(s.target), a), link |-> FALSE, target |-> <<>>]
              [] s.link /\ a # LinkTo -> [s EXCEPT !.target = Append(@, a)]
              [] OTHER -> [s EXCEPT !.out = Append(@, a)]
    IN  Scan(Step, [out |-> <<>>, link |-> FALSE, target |-> <<>>], t).out

\* What the links of a text point at, in the order of the text.
LinkTargets(t) ==
    LET Step(s, a) ==
            CASE a = LinkTo -> [s EXCEPT !.target = <<>>, !.link = TRUE]
              [] a = LinkEnd /\ s.link -> [s EXCEPT !.all = Append(@, s.target), !.link = FALSE]
              [] OTHER -> [s EXCEPT !.target = Append(@, a)]
    IN  Scan(Step, [all |-> <<>>, link |-> FALSE, target |-> <<>>], t).all

\* _rewrite_anchors, first pass: a target with spaces or capitals becomes a slug.
NormalizeLinks_never(t) == t
NormalizeLinks(t) ==
    MapLinks(LAMBDA slug : IF \E i \in DOMAIN slug : slug[i][1] \in {"En", "half"}
                           THEN Slug(slug) ELSE slug, t)

-----------------------------------------------------------------------------
(* Lines                                                                     *)

\* ^ and $ of the patterns: where a line begins, and where it ends.
LineStarts(t) == {i \in DOMAIN t : i = 1 \/ t[i - 1] = Nl}
EndsLine(t, i) == i = Len(t) \/ t[i + 1] = Nl

\* ^\s*m: the places where m is the first thing on its line.
Leading(t, m) ==
    {i \in DOMAIN t :
        /\ t[i] = m
        /\ \E s \in LineStarts(t) : s <= i /\ \A j \in s..(i - 1) : t[j] = Indent}
StartsWith(l, m) == Leading(l, m) # {}

\* target_heading_re: an ATX heading at the start of a line, wherever it is.
IsHeadingLine(l) == Len(l) > 1 /\ l[1] = Hash
HeadingLines(t) ==
    LET ls == SelectSeq(Lines(t), IsHeadingLine)
    IN  [i \in DOMAIN ls |-> Tail(ls[i])]

\* ^\s*\d+\.\s: the numbers that lead their lines with the given stop behind them.
NumbersWith(stop, t) ==
    {i \in DOMAIN t :
        /\ t[i][1] = "num" /\ i \in Leading(t, t[i])
        /\ i < Len(t) /\ t[i + 1] = stop}

\* The blanks and line ends around a text, taken off (str.strip).
Stripped(t) ==
    LET inner == {i \in DOMAIN t : t[i] \notin {Nl, Indent}}
    IN  IF inner = {} THEN <<>>
        ELSE SubSeq(t, CHOOSE p \in inner : \A q \in inner : p <= q,
                       CHOOSE p \in inner : \A q \in inner : q <= p)

\* verify_output: what is counted in source and target.
StructureCounts(t) ==
    LET headings == {i \in LineStarts(t) : t[i] = Hash /\ ~EndsLine(t, i)}
        rows == {i \in LineStarts(t) :
                    /\ t[i] = Mark("|")
                    /\ \E e \in (i + 1)..Len(t) :
                         /\ t[e] = Mark("|") /\ EndsLine(t, e)
                         /\ \A j \in i..e : t[j] # Nl}
        rules == {i \in Leading(t, Mark("---")) :
                    \E e \in i..Len(t) : EndsLine(t, e) /\ \A j \in (i + 1)..e : t[j] = Indent}
    IN  [headings |-> Cardinality(headings),
         rows |-> Cardinality(rows),
         items |-> Cardinality(Leading(t, Mark("-")) \cup NumbersWith(Stop, t)),
         quotes |-> Cardinality(Leading(t, Mark(">"))),
         rules |-> Cardinality(rules),
         fences |-> Cardinality(Leading(t, Fence))]
=============================================================================
