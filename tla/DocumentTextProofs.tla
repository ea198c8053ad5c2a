------------------------ MODULE DocumentTextProofs ------------------------
(* Proofs about DocumentText: the walker keeps its place in the document,    *)
(* every heading gets its anchor, no block is two leaf segments, the         *)
(* structure verify_output counts survives the translation, and of a plain   *)
(* document every leaf is translated in its place, for documents of any      *)
(* size, any nest of containers, and any texts and rules for words.          *)
EXTENDS DocumentTextProps, SequenceTheorems, FiniteSetTheorems, WellFoundedInduction, TLAPS

-----------------------------------------------------------------------------
(* The invariant. *)

LevelKinds == Containers \cup {"root"}
Levels == [kind : LevelKinds, children : Nat]
Places == [kind : LevelKinds, node : Nat]
Texts == {b.text : b \in Blocks} \cup {NoText}
NodeRecords == [kind : Kinds, text : Texts, parent : Nat, block : Nat]
IsSequence(s) == s \in Seq({s[i] : i \in DOMAIN s})

TypeInv ==
    /\ phase \in {"parse", "translate", "restore", "rewrite", "bind", "done"}
    /\ IsSequence(input) /\ Len(input) <= MaxBlocks
    /\ nests \in 0..MaxNests
    /\ nest \in Seq(Levels) /\ nest # <<>>
    /\ open \in Seq(Places) /\ open # <<>>
    /\ nodes \in Seq(NodeRecords)
    /\ \A i \in DOMAIN nodes : nodes[i].parent < i /\ nodes[i].block <= Len(input)
    /\ \A k \in DOMAIN open : open[k].node <= Len(nodes)
    /\ DOMAIN registry = {"placeholder", "counter", "bound", "slugs"}
    /\ registry.counter \in 0..Len(input)
    /\ next \in 1..(Len(nodes) + 1)

\* The walker is where the parser is.  A table holds no container.
WalkInv ==
    /\ nest[1].kind = "root"
    /\ \A i \in 1..(Len(nest) - 1) : nest[i].kind # "table"
    /\ WalkerInStep

\* The containers the walker is in are nodes of the map, in their order, and
\* none has a text yet.
PlaceInv ==
    /\ open[1] = Root
    /\ \A k \in 2..Len(open) :
         /\ open[k].node # 0
         /\ nodes[open[k].node].kind = open[k].kind
         /\ nodes[open[k].node].block = 0
    /\ \A k, l \in DOMAIN open : k < l => open[k].node < open[l].node

\* A block has one node; two when it is the first paragraph of a list item,
\* which the item repeats.
BlockInv ==
    /\ \A i \in DOMAIN nodes : nodes[i].text # NoText => nodes[i].block # 0
    /\ \A i, j \in DOMAIN nodes :
         i < j /\ nodes[i].block = nodes[j].block /\ nodes[i].block # 0 =>
            /\ nodes[i].kind = "item"
            /\ nodes[j].kind = "paragraph" /\ nodes[j].parent = i

\* Every heading has its node and its placeholder.
HeadingInv ==
    \A i \in DOMAIN input : input[i].kind = "heading" =>
        /\ \E n \in DOMAIN nodes : nodes[n].block = i /\ nodes[n].kind = "heading"
        /\ Slug(input[i].text) \in DOMAIN registry.placeholder

\* What is bound is among the slugs in use, and no two placeholders share one.
BoundInv ==
    /\ IsFiniteSet(registry.slugs)
    /\ \A p \in DOMAIN registry.bound : registry.bound[p] \in registry.slugs
    /\ \A p, q \in DOMAIN registry.bound :
         p # q => registry.bound[p] # registry.bound[q]

DocumentInv ==
    /\ TypeInv /\ WalkInv /\ PlaceInv /\ BlockInv /\ HeadingInv /\ BoundInv

-----------------------------------------------------------------------------
(* Sequences. *)

\* What a sequence with an element more is.
LEMMA Appended ==
  ASSUME NEW S, NEW s \in Seq(S), NEW e \in S
  PROVE  /\ Append(s, e) \in Seq(S) /\ Append(s, e) # <<>>
         /\ Len(Append(s, e)) = Len(s) + 1
         /\ DOMAIN Append(s, e) = 1..(Len(s) + 1)
         /\ \A i \in 1..Len(s) : Append(s, e)[i] = s[i]
         /\ Append(s, e)[Len(s) + 1] = e
OBVIOUS

\* Sequences over S may be joined in any grouping.
Grouped(S) == \A s, t, u \in Seq(S) : (s \o t) \o u = s \o (t \o u)

\* Joining is associative.
LEMMA Regrouped ==
  ASSUME NEW S PROVE Grouped(S)
BY ConcatAssociative DEF Grouped

\* Three sequences joined in either grouping are the same.
InGroups(s, t, u) == (s \o t) \o u = s \o (t \o u)

\* Joining three sequences is associative.
LEMMA GroupedAs ==
  ASSUME NEW S, NEW s \in Seq(S), NEW t \in Seq(S), NEW u \in Seq(S)
  PROVE  InGroups(s, t, u)
BY ConcatAssociative DEF InGroups

\* What a sequence without its last element is.
LEMMA FrontOf ==
  ASSUME NEW S, NEW s \in Seq(S), s # <<>>
  PROVE  /\ Front(s) \in Seq(S) /\ Len(Front(s)) = Len(s) - 1
         /\ DOMAIN Front(s) = 1..(Len(s) - 1)
         /\ \A i \in 1..(Len(s) - 1) : Front(s)[i] = s[i]
         /\ Last(s) = s[Len(s)] /\ Len(s) \in Nat \ {0}
<1>1. Len(s) \in Nat \ {0} /\ \A i \in 1..(Len(s) - 1) : s[i] \in S
  BY EmptySeq, ElementOfSeq
<1> DEFINE t == SubSeq(s, 1, Len(s) - 1)
<1>2. /\ t \in Seq(S) /\ Len(t) = IF 1 <= Len(s) - 1 THEN Len(s) - 1 - 1 + 1 ELSE 0
      /\ \A i \in 1..(Len(s) - 1 - 1 + 1) : t[i] = s[1 + i - 1]
  <2>1. 1 \in Int /\ Len(s) - 1 \in Int
    BY <1>1
  <2> HIDE DEF t
  <2>2. QED
    BY <1>1, <2>1, SubSeqProperties DEF t
<1>3. DOMAIN t = 1..Len(t)
  BY <1>2, LenProperties
<1> HIDE DEF t
<1>4. Len(t) = Len(s) - 1 /\ \A i \in 1..(Len(s) - 1) : t[i] = s[i]
  <2>1. \A n \in Nat \ {0} : /\ (IF 1 <= n - 1 THEN n - 1 - 1 + 1 ELSE 0) = n - 1
                             /\ n - 1 - 1 + 1 = n - 1
    OBVIOUS
  <2>2. Len(t) = Len(s) - 1 /\ \A i \in 1..(Len(s) - 1) : t[i] = s[1 + i - 1]
    BY <1>1, <1>2, <2>1
  <2>3. \A i \in 1..(Len(s) - 1) : 1 + i - 1 = i
    BY <1>1
  <2>4. QED
    BY <2>2, <2>3
<1>5. Front(s) = t /\ Last(s) = s[Len(s)]
  BY DEF Front, Last, t
<1>6. QED
  BY <1>1, <1>2, <1>3, <1>4, <1>5

\* A sequence of anything, one longer.
LEMMA AppendedTo ==
  ASSUME NEW s, IsSequence(s), NEW e
  PROVE  /\ IsSequence(Append(s, e)) /\ Len(Append(s, e)) = Len(s) + 1
         /\ Len(s) \in Nat /\ DOMAIN s = 1..Len(s)
         /\ DOMAIN Append(s, e) = 1..(Len(s) + 1)
         /\ \A i \in 1..Len(s) : Append(s, e)[i] = s[i]
         /\ Append(s, e)[Len(s) + 1] = e
<1> DEFINE S == {s[i] : i \in DOMAIN s} \cup {e}
           t == Append(s, e)
<1>1. s \in Seq(S) /\ e \in S
  <2>1. s \in Seq({s[i] : i \in DOMAIN s})
    BY DEF IsSequence
  <2>2. {s[i] : i \in DOMAIN s} \subseteq S
    OBVIOUS
  <2> HIDE DEF S
  <2>3. s \in Seq(S)
    BY <2>1, <2>2, SeqMonotonic
  <2>4. QED
    BY <2>3 DEF S
<1> HIDE DEF S
<1>2. /\ t \in Seq(S) /\ Len(t) = Len(s) + 1 /\ DOMAIN t = 1..(Len(s) + 1)
      /\ \A i \in 1..Len(s) : t[i] = s[i]
      /\ t[Len(s) + 1] = e
  BY <1>1, Appended
<1>3. Len(s) \in Nat /\ DOMAIN s = 1..Len(s)
  BY <1>1
<1>4. IsSequence(t)
  <2> DEFINE R == {t[i] : i \in DOMAIN t}
  <2>1. t \in [1..Len(t) -> S] /\ Len(t) \in Nat /\ DOMAIN t = 1..Len(t)
    BY <1>2, LenProperties
  <2>2. \A i \in 1..Len(t) : t[i] \in R
    BY <2>1
  <2>3. t \in [1..Len(t) -> R]
    <3> HIDE DEF t, R
    <3>1. QED
      BY <2>1, <2>2
  <2>4. t \in Seq(R)
    BY <2>1, <2>3, SeqDef
  <2>5. QED
    BY <2>4 DEF IsSequence
<1>5. QED
  BY <1>2, <1>3, <1>4

\* The kinds of two lists of levels agree when they do level by level.
LEMMA SameKinds ==
  ASSUME NEW s \in Seq(Levels), NEW t \in Seq(Places)
  PROVE  KindsOf(t) = KindsOf(s) <=> Len(t) = Len(s) /\ \A i \in 1..Len(s) : t[i].kind = s[i].kind
<1>1. DOMAIN s = 1..Len(s) /\ DOMAIN t = 1..Len(t) /\ Len(s) \in Nat /\ Len(t) \in Nat
  OBVIOUS
<1>2. /\ DOMAIN KindsOf(s) = 1..Len(s) /\ \A i \in 1..Len(s) : KindsOf(s)[i] = s[i].kind
      /\ DOMAIN KindsOf(t) = 1..Len(t) /\ \A i \in 1..Len(t) : KindsOf(t)[i] = t[i].kind
  BY <1>1 DEF KindsOf
<1>3. ASSUME KindsOf(t) = KindsOf(s)
      PROVE  Len(t) = Len(s) /\ \A i \in 1..Len(s) : t[i].kind = s[i].kind
  <2>1. 1..Len(t) = 1..Len(s)
    BY <1>2, <1>3
  <2>2. Len(t) = Len(s)
    <3>1. \A m, n \in Nat : 1..m = 1..n => m = n
      <4> SUFFICES ASSUME NEW m \in Nat, NEW n \in Nat, m < n, 1..m = 1..n PROVE FALSE
        OBVIOUS
      <4>1. n \in 1..n /\ n \notin 1..m
        OBVIOUS
      <4>2. QED
        BY <4>1
    <3>2. QED
      BY <1>1, <2>1, <3>1
  <2>3. QED
    BY <1>2, <1>3, <2>2
<1>4. ASSUME Len(t) = Len(s), \A i \in 1..Len(s) : t[i].kind = s[i].kind
      PROVE  KindsOf(t) = KindsOf(s)
  BY <1>1, <1>4 DEF KindsOf
<1>5. QED
  BY <1>3, <1>4

-----------------------------------------------------------------------------
(* Where the walker is. *)

\* Either the walker is in the parser's container, or the parser is in a table
\* in a quote and the walker in the quote.
LEMMA WalkerPlace ==
  ASSUME TypeInv, WalkInv
  PROVE  LET last == nest[Len(nest)]
         IN  /\ Top = open[Len(open)] /\ Top \in Places /\ Len(open) \in Nat \ {0}
             /\ Last(nest) = last /\ last \in Levels /\ Len(nest) \in Nat \ {0}
             /\ last.kind # "table" => ~InSkippedTable
             /\ ~InSkippedTable =>
                  /\ Len(open) = Len(nest) /\ Top.kind = last.kind
                  /\ \A i \in 1..Len(nest) : open[i].kind = nest[i].kind
             /\ InSkippedTable =>
                  /\ Len(nest) > 1 /\ Len(open) = Len(nest) - 1 /\ Top.kind = "quote"
                  /\ last.kind = "table"
                  /\ \A i \in 1..(Len(nest) - 1) : open[i].kind = nest[i].kind
<1>1. /\ nest \in Seq(Levels) /\ nest # <<>> /\ open \in Seq(Places) /\ open # <<>>
      /\ WalkerInStep
  BY DEF TypeInv, WalkInv
<1>2. /\ Top = open[Len(open)] /\ Top \in Places /\ Len(open) \in Nat \ {0}
      /\ nest[Len(nest)] \in Levels /\ Len(nest) \in Nat \ {0} /\ Last(nest) = nest[Len(nest)]
  BY <1>1 DEF Top, Last
<1>3. nest[Len(nest)].kind # "table" => ~InSkippedTable
  BY DEF InSkippedTable
<1>4. CASE ~InSkippedTable
  <2>1. Len(open) = Len(nest) /\ \A i \in 1..Len(nest) : open[i].kind = nest[i].kind
    BY <1>1, <1>4, SameKinds DEF WalkerInStep
  <2>2. QED
    BY <1>2, <1>3, <1>4, <2>1
<1>5. CASE InSkippedTable
  <2>1. Front(nest) \in Seq(Levels) /\ Len(Front(nest)) = Len(nest) - 1
        /\ \A i \in 1..(Len(nest) - 1) : Front(nest)[i] = nest[i]
    BY <1>1, FrontOf
  <2>2. Len(open) = Len(Front(nest))
        /\ \A i \in 1..Len(Front(nest)) : open[i].kind = Front(nest)[i].kind
    BY <1>1, <1>5, <2>1, SameKinds DEF WalkerInStep
  <2>3. QED
    BY <1>2, <1>5, <2>1, <2>2 DEF InSkippedTable
<1>6. QED
  BY <1>4, <1>5

\* What one level of the document holds, and what the walker makes of it.
LEMMA HeldIsAccepted ==
  ASSUME NEW l \in LevelKinds, NEW k \in Holds(l)
  PROVE  /\ l # "table" => k # "row"
         /\ l = "table" => k = "row"
         /\ k = "heading" => k \in Accepts(l)
         /\ k \in Containers => (k \in Accepts(l) <=> ~(k = "table" /\ l = "quote"))
         /\ l = "quote" => "row" \notin Accepts(l)
         /\ k \in Accepts(l) => k \in Kinds /\ k # "cell"
  BY DEF Holds, Accepts, LevelKinds, Containers, Kinds

\* A line entered is counted on every level and changes no kind.
LEMMA EnteredLevels ==
  ASSUME nest \in Seq(Levels)
  PROVE  /\ Entered \in Seq(Levels) /\ Len(Entered) = Len(nest)
         /\ \A i \in 1..Len(nest) : Entered[i].kind = nest[i].kind
<1>1. Len(nest) \in Nat /\ DOMAIN nest = 1..Len(nest) /\ \A i \in 1..Len(nest) : nest[i] \in Levels
  BY LenProperties, ElementOfSeq
<1>2. \A i \in 1..Len(nest) : [nest[i] EXCEPT !.children = @ + 1] \in Levels
                              /\ [nest[i] EXCEPT !.children = @ + 1].kind = nest[i].kind
  BY <1>1 DEF Levels
<1>3. /\ DOMAIN Entered = 1..Len(nest)
      /\ \A i \in 1..Len(nest) : Entered[i] = [nest[i] EXCEPT !.children = @ + 1]
  BY <1>1 DEF Entered
<1>4. Entered \in [1..Len(nest) -> Levels]
  BY <1>1, <1>2 DEF Entered
<1>5. Entered \in Seq(Levels)
  BY <1>1, <1>4, SeqDef
<1>6. Len(Entered) = Len(nest)
  BY <1>1, <1>3, <1>5, LenProperties
<1>7. QED
  BY <1>2, <1>3, <1>5, <1>6

-----------------------------------------------------------------------------
(* The structural map, one block or container longer. *)

\* Nodes are added behind the others: one of block n, none of another.
Extended(n) ==
    /\ nodes' \in Seq(NodeRecords) /\ Len(nodes') \in Nat
    /\ Len(nodes) <= Len(nodes')
    /\ \A i \in DOMAIN nodes : nodes'[i] = nodes[i]
    /\ \A i \in DOMAIN nodes' \ DOMAIN nodes :
         /\ nodes'[i].parent < i
         /\ nodes'[i].block \in {0, n}
         /\ nodes'[i].text # NoText => nodes'[i].block = n
    /\ \A i, j \in DOMAIN nodes' \ DOMAIN nodes :
         i # j => nodes'[i].block = 0 \/ nodes'[j].block = 0

\* A block parsed adds its nodes behind the others, and a heading its anchor.
LEMMA NodesExtended ==
  ASSUME TypeInv, WalkInv, NEW b \in Blocks, ParseBlock(b)
  PROVE  /\ Extended(Len(input) + 1)
         /\ b.kind = "heading" =>
              /\ Len(nodes) + 1 \in DOMAIN nodes'
              /\ nodes'[Len(nodes) + 1].kind = "heading"
              /\ nodes'[Len(nodes) + 1].block = Len(input) + 1
              /\ registry' = Register(b.text)
         /\ b.kind # "heading" => registry' = registry
<1> DEFINE n == Len(input) + 1
           m == Len(nodes)
<1>1. /\ nodes \in Seq(NodeRecords) /\ m \in Nat /\ DOMAIN nodes = 1..m
      /\ n \in Nat \ {0} /\ Top.node \in 0..m
  <2>1. IsSequence(input) /\ nodes \in Seq(NodeRecords) /\ open \in Seq(Places) /\ open # <<>>
        /\ \A k \in DOMAIN open : open[k].node <= Len(nodes)
    BY DEF TypeInv
  <2>2. Len(input) \in Nat /\ Len(nodes) \in Nat /\ DOMAIN nodes = 1..Len(nodes)
    BY <2>1 DEF IsSequence
  <2>3. Len(open) \in DOMAIN open /\ open[Len(open)] \in Places
    BY <2>1
  <2>4. QED
    BY <2>1, <2>2, <2>3 DEF Top, Places
<1>2. b.kind \in Holds(nest[Len(nest)].kind) /\ nest[Len(nest)].kind \in LevelKinds
  BY WalkerPlace DEF ParseBlock, Levels
<1>3. b.text \in Texts /\ b.kind # "table" /\ NoText \in Texts
  BY DocumentAssumption DEF Texts
<1>4. CASE b.kind \notin Accepts(Top.kind)
  <2>1. nodes' = nodes /\ registry' = registry
    BY <1>4 DEF ParseBlock
  <2>2. b.kind # "heading"
    <3>1. CASE b.kind = "heading"
      <4>1. nest[Len(nest)].kind # "table"
        BY <1>2, <3>1, HeldIsAccepted
      <4>2. Top.kind = nest[Len(nest)].kind
        BY <4>1, WalkerPlace
      <4>3. QED
        BY <1>2, <1>4, <3>1, <4>2, HeldIsAccepted
    <3>2. QED
      BY <3>1
  <2>3. QED
    BY <1>1, <2>1, <2>2 DEF Extended
<1>5. CASE b.kind \in Accepts(Top.kind) /\ b.kind = "row"
  <2> DEFINE r == Node("row", NoText, 0)
             c == [Node("cell", b.text, n) EXCEPT !.parent = m + 1]
  <2>1. r \in NodeRecords /\ r.parent < m + 1 /\ r.block = 0 /\ r.text = NoText
    BY <1>1, <1>3 DEF Node, NodeRecords, Kinds
  <2>2. c \in NodeRecords /\ c.parent = m + 1 /\ c.block = n
    <3>1. c = [kind |-> "cell", text |-> b.text, parent |-> m + 1, block |-> n]
      BY DEF Node
    <3>2. "cell" \in Kinds /\ m + 1 \in Nat /\ n \in Nat
      BY <1>1 DEF Kinds
    <3> HIDE DEF c, m, n
    <3>3. QED
      BY <1>3, <3>1, <3>2 DEF NodeRecords
  <2>3. nodes' = nodes \o <<r, c>> /\ registry' = registry
    BY <1>5 DEF ParseBlock
  <2> HIDE DEF r, c
  <2>4. <<r, c>> \in Seq(NodeRecords) /\ Len(<<r, c>>) = 2 /\ <<r, c>>[1] = r /\ <<r, c>>[2] = c
    BY <2>1, <2>2
  <2>5. /\ nodes' \in Seq(NodeRecords) /\ Len(nodes') = m + 2
        /\ \A i \in 1..m : nodes'[i] = nodes[i]
        /\ nodes'[m + 1] = r /\ nodes'[m + 2] = c
    BY <1>1, <2>3, <2>4, ConcatProperties
  <2>6. DOMAIN nodes' = 1..(m + 2) /\ DOMAIN nodes' \ DOMAIN nodes = {m + 1, m + 2}
    <3>1. DOMAIN nodes' = 1..(m + 2)
      BY <2>5, LenProperties
    <3>2. QED
      BY <1>1, <3>1
  <2>7. /\ \A i \in DOMAIN nodes : nodes'[i] = nodes[i]
        /\ Len(nodes') \in Nat /\ Len(nodes) <= Len(nodes')
    BY <1>1, <2>5
  <2>8. \A i \in {m + 1, m + 2} :
          /\ nodes'[i].parent < i
          /\ nodes'[i].block \in {0, n}
          /\ nodes'[i].text # NoText => nodes'[i].block = n
    <3>1. m + 1 < m + 2
      BY <1>1
    <3> HIDE DEF m, n
    <3>2. QED
      BY <2>1, <2>2, <2>5, <3>1
  <2>9. \A i, j \in {m + 1, m + 2} : i # j => nodes'[i].block = 0 \/ nodes'[j].block = 0
    <3> HIDE DEF m, n
    <3>1. QED
      BY <2>1, <2>5
  <2>10. Extended(n)
    <3> HIDE DEF n
    <3>1. QED
      BY <2>5, <2>6, <2>7, <2>8, <2>9 DEF Extended
  <2>11. QED
    BY <1>5, <2>3, <2>10
<1>6. CASE b.kind \in Accepts(Top.kind) /\ b.kind # "row"
  <2> DEFINE e == Node(b.kind, b.text, n)
  <2>1. b.kind \in Kinds
    <3>1. Top.kind \in LevelKinds
      BY WalkerPlace DEF Places
    <3>2. QED
      BY <1>6, <3>1 DEF Kinds, Accepts, LevelKinds, Containers
  <2>2. /\ e \in NodeRecords /\ e.parent < m + 1 /\ e.block = n /\ e.kind = b.kind
    BY <1>1, <1>3, <2>1 DEF Node, NodeRecords
  <2>3. /\ nodes' = nodes \o <<e>>
        /\ registry' = IF b.kind = "heading" THEN Register(b.text) ELSE registry
    BY <1>6 DEF ParseBlock
  <2> HIDE DEF e
  <2>4. <<e>> \in Seq(NodeRecords) /\ Len(<<e>>) = 1 /\ <<e>>[1] = e
    BY <2>2
  <2>5. /\ nodes' \in Seq(NodeRecords) /\ Len(nodes') = m + 1
        /\ \A i \in 1..m : nodes'[i] = nodes[i]
        /\ nodes'[m + 1] = e
    BY <1>1, <2>3, <2>4, ConcatProperties
  <2>6. DOMAIN nodes' = 1..(m + 1) /\ DOMAIN nodes' \ DOMAIN nodes = {m + 1}
    <3>1. DOMAIN nodes' = 1..(m + 1)
      BY <2>5, LenProperties
    <3>2. QED
      BY <1>1, <3>1
  <2>7. QED
    BY <1>1, <1>6, <2>2, <2>3, <2>5, <2>6 DEF Extended
<1>7. QED
  BY <1>4, <1>5, <1>6

-----------------------------------------------------------------------------
(* The initial state. *)

\* An empty document keeps the invariant.
LEMMA DocumentInit ==
  ASSUME Init
  PROVE  DocumentInv
<1>1. /\ Len(input) = 0 /\ DOMAIN input = {} /\ DOMAIN nodes = {} /\ Len(nodes) = 0
      /\ nodes \in Seq(NodeRecords)
  BY DEF Init
<1>2. IsSequence(input)
  BY DEF Init, IsSequence
<1>3. nest \in Seq(Levels) /\ nest # <<>> /\ Len(nest) = 1 /\ nest[1].kind = "root"
      /\ open \in Seq(Places) /\ open # <<>> /\ Len(open) = 1 /\ open[1] = Root
      /\ Root.kind = "root" /\ Root.node = 0
  <2>1. [kind |-> "root", children |-> 0] \in Levels /\ Root \in Places
    BY DEF Levels, Places, LevelKinds, Root
  <2>2. QED
    BY <2>1 DEF Init, Root
<1>4. DOMAIN open = {1}
  BY <1>3
<1>5. /\ DOMAIN registry = {"placeholder", "counter", "bound", "slugs"}
      /\ registry.counter = 0 /\ registry.slugs = {} /\ DOMAIN registry.bound = {}
  BY DEF Init
<1>6. TypeInv
  <2>1. MaxBlocks \in Nat /\ MaxNests \in Nat
    BY DocumentAssumption
  <2>2. phase = "parse" /\ nests = 0 /\ next = 1
    BY DEF Init
  <2>3. QED
    BY <1>1, <1>2, <1>3, <1>4, <1>5, <2>1, <2>2 DEF TypeInv
<1>7. WalkInv
  <2>1. ~InSkippedTable
    BY <1>3 DEF InSkippedTable
  <2>2. KindsOf(open) = KindsOf(nest)
    BY <1>3, SameKinds
  <2>3. QED
    BY <1>3, <2>1, <2>2 DEF WalkInv, WalkerInStep
<1>8. PlaceInv
  BY <1>3, <1>4 DEF PlaceInv
<1>9. BlockInv /\ HeadingInv
  BY <1>1 DEF BlockInv, HeadingInv
<1>10. BoundInv
  BY <1>5, FS_EmptySet DEF BoundInv
<1>11. QED
  BY <1>6, <1>7, <1>8, <1>9, <1>10 DEF DocumentInv

-----------------------------------------------------------------------------
(* Where the walker is after a step. *)

\* The table in the quote that a nest of levels ends in.
EndsInSkippedTable(levels) ==
    Len(levels) > 1 /\ levels[Len(levels)].kind = "table" /\ levels[Len(levels) - 1].kind = "quote"

\* The places have the kinds of the levels, but for a table that was skipped.
LEMMA InStepWith ==
  ASSUME NEW levels \in Seq(Levels), levels # <<>>, NEW places \in Seq(Places),
         EndsInSkippedTable(levels) => Len(places) = Len(levels) - 1,
         ~EndsInSkippedTable(levels) => Len(places) = Len(levels),
         \A i \in 1..Len(places) : places[i].kind = levels[i].kind
  PROVE  KindsOf(places) =
           KindsOf(IF EndsInSkippedTable(levels) THEN Front(levels) ELSE levels)
<1>1. /\ Front(levels) \in Seq(Levels) /\ Len(Front(levels)) = Len(levels) - 1
      /\ \A i \in 1..(Len(levels) - 1) : Front(levels)[i] = levels[i]
  BY FrontOf
<1>2. CASE EndsInSkippedTable(levels)
  <2>1. Len(places) = Len(Front(levels))
        /\ \A i \in 1..Len(Front(levels)) : places[i].kind = Front(levels)[i].kind
    BY <1>1, <1>2
  <2>2. KindsOf(places) = KindsOf(Front(levels))
    BY <1>1, <2>1, SameKinds
  <2>3. QED
    BY <1>2, <2>2
<1>3. CASE ~EndsInSkippedTable(levels)
  <2>1. KindsOf(places) = KindsOf(levels)
    BY <1>3, SameKinds
  <2>2. QED
    BY <1>3, <2>1
<1>4. QED
  BY <1>2, <1>3

\* It is so in the next state when it is so of what that state has.
LEMMA WalkerInStepThen ==
  ASSUME KindsOf(open') = KindsOf(IF EndsInSkippedTable(nest') THEN Front(nest') ELSE nest')
  PROVE  WalkerInStep'
BY DEF WalkerInStep, InSkippedTable, EndsInSkippedTable

-----------------------------------------------------------------------------
(* What the growth of the structural map keeps. *)

\* The map with the nodes of a step behind it keeps what is said of its nodes.
LEMMA MapGrown ==
  ASSUME TypeInv, PlaceInv, BlockInv, Extended(Len(input) + 1)
  PROVE  /\ BlockInv'
         /\ \A i \in DOMAIN nodes' :
              nodes'[i].parent < i /\ nodes'[i].block <= Len(input) + 1
         /\ \A i \in DOMAIN nodes : i \in DOMAIN nodes' /\ nodes'[i] = nodes[i]
<1> DEFINE n == Len(input) + 1
           m == Len(nodes)
<1>1. /\ Len(input) \in Nat /\ n \in Nat \ {0} /\ m \in Nat /\ DOMAIN nodes = 1..m
      /\ \A i \in DOMAIN nodes : nodes[i].parent < i /\ nodes[i].block <= Len(input)
                                 /\ nodes[i].block \in Nat
  <2>1. nodes \in Seq(NodeRecords) /\ IsSequence(input)
        /\ \A i \in DOMAIN nodes : nodes[i].parent < i /\ nodes[i].block <= Len(input)
    BY DEF TypeInv
  <2>2. \A i \in DOMAIN nodes : nodes[i] \in NodeRecords
    BY <2>1
  <2>3. Len(input) \in Nat
    BY <2>1 DEF IsSequence
  <2>4. QED
    BY <2>1, <2>2, <2>3 DEF NodeRecords
<1>2. /\ nodes' \in Seq(NodeRecords) /\ Len(nodes') \in Nat /\ m <= Len(nodes')
      /\ \A i \in DOMAIN nodes : nodes'[i] = nodes[i]
      /\ \A i \in DOMAIN nodes' \ DOMAIN nodes :
           /\ nodes'[i].parent < i /\ nodes'[i].block \in {0, n}
           /\ nodes'[i].text # NoText => nodes'[i].block = n
      /\ \A i, j \in DOMAIN nodes' \ DOMAIN nodes :
           i # j => nodes'[i].block = 0 \/ nodes'[j].block = 0
  BY DEF Extended
<1>3. DOMAIN nodes' = 1..Len(nodes')
  BY <1>2, LenProperties
<1>4. \A i \in DOMAIN nodes : i \in DOMAIN nodes' /\ nodes'[i] = nodes[i]
  BY <1>1, <1>2, <1>3
<1>5. \A i \in DOMAIN nodes' : nodes'[i].parent < i /\ nodes'[i].block <= n
  <2> SUFFICES ASSUME NEW i \in DOMAIN nodes' PROVE nodes'[i].parent < i /\ nodes'[i].block <= n
    OBVIOUS
  <2>1. CASE i \in DOMAIN nodes
    BY <1>1, <1>2, <2>1
  <2>2. CASE i \notin DOMAIN nodes
    BY <1>1, <1>2, <2>2
  <2>3. QED
    BY <2>1, <2>2
<1>6. \A i \in DOMAIN nodes' : nodes'[i].text # NoText => nodes'[i].block # 0
  <2> SUFFICES ASSUME NEW i \in DOMAIN nodes', nodes'[i].text # NoText
               PROVE  nodes'[i].block # 0
    OBVIOUS
  <2>1. CASE i \in DOMAIN nodes
    BY <1>2, <2>1 DEF BlockInv
  <2>2. CASE i \notin DOMAIN nodes
    BY <1>1, <1>2, <2>2
  <2>3. QED
    BY <2>1, <2>2
<1>7. ASSUME NEW i \in DOMAIN nodes', NEW j \in DOMAIN nodes',
             i < j, nodes'[i].block = nodes'[j].block, nodes'[i].block # 0
      PROVE  nodes'[i].kind = "item" /\ nodes'[j].kind = "paragraph" /\ nodes'[j].parent = i
  <2>1. CASE j \in DOMAIN nodes
    <3>1. i \in DOMAIN nodes
      BY <1>1, <1>3, <1>7, <2>1
    <3>2. QED
      BY <1>2, <1>7, <2>1, <3>1 DEF BlockInv
  <2>2. CASE j \notin DOMAIN nodes
    <3>1. nodes'[j].block = n
      BY <1>2, <1>7, <2>2
    <3>2. CASE i \in DOMAIN nodes
      BY <1>1, <1>2, <1>7, <3>1, <3>2
    <3>3. CASE i \notin DOMAIN nodes
      BY <1>2, <1>7, <2>2, <3>3
    <3>4. QED
      BY <3>2, <3>3
  <2>3. QED
    BY <2>1, <2>2
<1>8. BlockInv'
  BY <1>6, <1>7 DEF BlockInv
<1>9. QED
  BY <1>4, <1>5, <1>8

\* The places of the walker while it is in the containers it was in.
LEMMA PlacesKept ==
  ASSUME TypeInv, PlaceInv, UNCHANGED open,
         \A i \in DOMAIN nodes : i \in DOMAIN nodes' /\ nodes'[i] = nodes[i]
  PROVE  PlaceInv'
<1>1. \A k \in 2..Len(open) : open[k].node \in DOMAIN nodes
  <2>1. open \in Seq(Places) /\ \A k \in DOMAIN open : open[k].node <= Len(nodes)
        /\ nodes \in Seq(NodeRecords)
    BY DEF TypeInv
  <2>2. \A k \in 2..Len(open) : k \in DOMAIN open /\ open[k] \in Places
    BY <2>1
  <2>3. \A k \in 2..Len(open) : open[k].node \in Nat \ {0}
    BY <2>2 DEF Places, PlaceInv
  <2>4. QED
    BY <2>1, <2>2, <2>3
<1>2. QED
  BY <1>1 DEF PlaceInv

-----------------------------------------------------------------------------
(* Parsing a block. *)

\* A block parsed keeps the invariant.
LEMMA ParseBlockKeeps ==
  ASSUME DocumentInv, NEW b \in Blocks, ParseBlock(b)
  PROVE  DocumentInv'
<1> DEFINE n == Len(input) + 1
           e == [kind |-> b.kind, text |-> b.text, atx |-> b.atx,
                 first |-> Marks(TRUE), rest |-> Marks(FALSE),
                 within |-> [i \in DOMAIN nest |-> nest[i].kind]]
<1>1. TypeInv /\ WalkInv /\ PlaceInv /\ BlockInv /\ HeadingInv /\ BoundInv
  BY DEF DocumentInv
<1>2. /\ Len(input) < MaxBlocks /\ input' = Append(input, e) /\ nest' = Entered
      /\ UNCHANGED <<phase, nests, open, next>>
  BY DEF ParseBlock
<1>3. e.kind = b.kind /\ e.text = b.text
  OBVIOUS
<1> HIDE DEF e
<1>4. /\ IsSequence(input') /\ Len(input') = n /\ Len(input) \in Nat
      /\ DOMAIN input = 1..Len(input) /\ DOMAIN input' = 1..n
      /\ \A i \in 1..Len(input) : input'[i] = input[i]
      /\ input'[n] = e
  <2>1. IsSequence(input)
    BY <1>1 DEF TypeInv
  <2>2. QED
    BY <1>2, <2>1, AppendedTo
<1>5. /\ Extended(n)
      /\ b.kind = "heading" =>
           /\ Len(nodes) + 1 \in DOMAIN nodes' /\ nodes'[Len(nodes) + 1].kind = "heading"
           /\ nodes'[Len(nodes) + 1].block = n /\ registry' = Register(b.text)
      /\ b.kind # "heading" => registry' = registry
  BY <1>1, NodesExtended
<1>6. /\ BlockInv'
      /\ \A i \in DOMAIN nodes' : nodes'[i].parent < i /\ nodes'[i].block <= n
      /\ \A i \in DOMAIN nodes : i \in DOMAIN nodes' /\ nodes'[i] = nodes[i]
  BY <1>1, <1>5, MapGrown
<1>7. PlaceInv'
  BY <1>1, <1>2, <1>6, PlacesKept
<1>8. /\ nest' \in Seq(Levels) /\ nest' # <<>> /\ Len(nest') = Len(nest)
      /\ Len(nest) \in Nat \ {0}
      /\ \A i \in 1..Len(nest) : nest'[i].kind = nest[i].kind
  <2>1. nest \in Seq(Levels) /\ nest # <<>>
    BY <1>1 DEF TypeInv
  <2>2. QED
    BY <1>2, <2>1, EnteredLevels
<1>9. WalkInv'
  <2>1. EndsInSkippedTable(nest') <=> InSkippedTable
    <3>1. \A k \in Nat \ {0} : k > 1 => k \in 1..k /\ k - 1 \in 1..k
      OBVIOUS
    <3>2. QED
      BY <1>8, <3>1 DEF EndsInSkippedTable, InSkippedTable
  <2>2. open \in Seq(Places)
    BY <1>1 DEF TypeInv
  <2>3. /\ InSkippedTable => Len(open) = Len(nest) - 1
        /\ ~InSkippedTable => Len(open) = Len(nest)
        /\ \A i \in 1..Len(open) : open[i].kind = nest[i].kind
    BY <1>1, WalkerPlace
  <2>4. Len(open) \in Nat /\ Len(open) <= Len(nest)
    BY <1>8, <2>2, <2>3
  <2>5. \A i \in 1..Len(open) : open[i].kind = nest'[i].kind
    BY <1>8, <2>3, <2>4
  <2>6. KindsOf(open) = KindsOf(IF EndsInSkippedTable(nest') THEN Front(nest') ELSE nest')
    BY <1>8, <2>1, <2>2, <2>3, <2>5, InStepWith
  <2>7. WalkerInStep'
    BY <1>2, <2>6, WalkerInStepThen
  <2>8. nest'[1].kind = "root" /\ \A i \in 1..(Len(nest') - 1) : nest'[i].kind # "table"
    BY <1>1, <1>8 DEF WalkInv
  <2>9. QED
    BY <2>7, <2>8 DEF WalkInv
<1>10. /\ DOMAIN registry' = {"placeholder", "counter", "bound", "slugs"}
       /\ registry'.counter \in 0..n
       /\ registry'.bound = registry.bound /\ registry'.slugs = registry.slugs
       /\ DOMAIN registry.placeholder \subseteq DOMAIN registry'.placeholder
       /\ b.kind = "heading" => Slug(b.text) \in DOMAIN registry'.placeholder
  <2>1. DOMAIN registry = {"placeholder", "counter", "bound", "slugs"}
        /\ registry.counter \in 0..Len(input)
    BY <1>1 DEF TypeInv
  <2>2. CASE b.kind = "heading"
    <3>1. registry' = Register(b.text)
      BY <1>5, <2>2
    <3>2. /\ DOMAIN registry' = DOMAIN registry
          /\ registry'.counter = registry.counter + 1
          /\ registry'.bound = registry.bound /\ registry'.slugs = registry.slugs
          /\ DOMAIN registry'.placeholder = DOMAIN registry.placeholder \cup {Slug(b.text)}
      BY <2>1, <3>1 DEF Register
    <3>3. QED
      BY <1>4, <2>1, <3>2
  <2>3. CASE b.kind # "heading"
    BY <1>4, <1>5, <2>1, <2>3
  <2>4. QED
    BY <2>2, <2>3
<1>11. TypeInv'
  <2>1. /\ phase \in {"parse", "translate", "restore", "rewrite", "bind", "done"}
        /\ nests \in 0..MaxNests /\ open \in Seq(Places) /\ open # <<>>
        /\ \A k \in DOMAIN open : open[k].node <= Len(nodes)
        /\ next \in 1..(Len(nodes) + 1) /\ nodes \in Seq(NodeRecords)
    BY <1>1 DEF TypeInv
  <2>2. nodes' \in Seq(NodeRecords) /\ Len(nodes') \in Nat /\ Len(nodes) <= Len(nodes')
        /\ Len(nodes) \in Nat
    BY <1>5, <2>1 DEF Extended
  <2>3. \A k \in DOMAIN open : open[k].node \in Nat
    <3>1. \A k \in DOMAIN open : open[k] \in Places
      BY <2>1
    <3>2. QED
      BY <3>1 DEF Places
  <2>4. (\A k \in DOMAIN open : open[k].node <= Len(nodes')) /\ next \in 1..(Len(nodes') + 1)
    BY <2>1, <2>2, <2>3
  <2>5. n <= MaxBlocks
    BY <1>2, <1>4, DocumentAssumption
  <2> HIDE DEF n
  <2>6. QED
    BY <1>2, <1>4, <1>6, <1>8, <1>10, <2>1, <2>2, <2>4, <2>5 DEF TypeInv
<1>12. HeadingInv'
  <2> SUFFICES ASSUME NEW i \in DOMAIN input', input'[i].kind = "heading"
               PROVE  /\ \E k \in DOMAIN nodes' : nodes'[k].block = i /\ nodes'[k].kind = "heading"
                      /\ Slug(input'[i].text) \in DOMAIN registry'.placeholder
    BY DEF HeadingInv
  <2>1. CASE i \in 1..Len(input)
    <3>1. input'[i] = input[i] /\ i \in DOMAIN input
      BY <1>4, <2>1
    <3>2. PICK k \in DOMAIN nodes : nodes[k].block = i /\ nodes[k].kind = "heading"
      BY <1>1, <3>1 DEF HeadingInv
    <3>3. k \in DOMAIN nodes' /\ nodes'[k].block = i /\ nodes'[k].kind = "heading"
      BY <1>6, <3>2
    <3>4. Slug(input[i].text) \in DOMAIN registry.placeholder
      BY <1>1, <3>1 DEF HeadingInv
    <3>5. QED
      BY <1>10, <3>1, <3>3, <3>4
  <2>2. CASE i = n
    <3> HIDE DEF n
    <3>1. input'[i] = e /\ b.kind = "heading"
      BY <1>3, <1>4, <2>2
    <3>2. QED
      BY <1>3, <1>5, <1>10, <2>2, <3>1
  <2>3. QED
    BY <1>4, <2>1, <2>2
<1>13. BoundInv'
  BY <1>1, <1>10 DEF BoundInv
<1>14. QED
  BY <1>6, <1>7, <1>9, <1>11, <1>12, <1>13 DEF DocumentInv

-----------------------------------------------------------------------------
(* Opening a container. *)

\* A container opened keeps the invariant.
LEMMA OpenKeeps ==
  ASSUME DocumentInv, NEW c \in Containers, Open(c)
  PROVE  DocumentInv'
<1> DEFINE l == nest[Len(nest)]
           m == Len(nodes)
<1>1. TypeInv /\ WalkInv /\ PlaceInv /\ BlockInv /\ HeadingInv /\ BoundInv
  BY DEF DocumentInv
<1>2. /\ nests < MaxNests /\ nests' = nests + 1
      /\ nest' = Append(nest, [kind |-> c, children |-> 0])
      /\ c \in Holds(Last(nest).kind)
      /\ UNCHANGED <<phase, input, registry, next>>
  BY DEF Open
<1>3. /\ Top \in Places /\ Len(open) \in Nat \ {0} /\ Last(nest) = l /\ l \in Levels
      /\ Top = open[Len(open)]
      /\ Len(nest) \in Nat \ {0} /\ nest \in Seq(Levels) /\ open \in Seq(Places) /\ open # <<>>
  BY <1>1, WalkerPlace DEF TypeInv
<1>4. l.kind # "table" /\ c \in Kinds /\ c # "row"
      /\ (c \in Accepts(l.kind) <=> ~(c = "table" /\ l.kind = "quote"))
  <2>1. l.kind \in LevelKinds /\ c \in Holds(l.kind)
    BY <1>2, <1>3 DEF Levels
  <2>2. c # "row" /\ c \in Kinds
    BY DEF Containers, Kinds
  <2>3. QED
    BY <2>1, <2>2, HeldIsAccepted
<1>5. /\ Len(open) = Len(nest) /\ Top.kind = l.kind
      /\ \A i \in 1..Len(nest) : open[i].kind = nest[i].kind
  BY <1>1, <1>4, WalkerPlace
<1>6. /\ nest' \in Seq(Levels) /\ nest' # <<>> /\ Len(nest') = Len(nest) + 1
      /\ \A i \in 1..Len(nest) : nest'[i] = nest[i]
      /\ nest'[Len(nest) + 1].kind = c
  <2>1. [kind |-> c, children |-> 0] \in Levels
    BY DEF Levels, LevelKinds
  <2>2. QED
    BY <1>2, <1>3, <2>1, Appended
<1>7. /\ nest'[1].kind = "root"
      /\ \A i \in 1..(Len(nest') - 1) : nest'[i].kind # "table"
      /\ EndsInSkippedTable(nest') <=> c = "table" /\ l.kind = "quote"
  <2>1. nest[1].kind = "root" /\ \A i \in 1..(Len(nest) - 1) : nest[i].kind # "table"
    BY <1>1 DEF WalkInv
  <2>2. \A k \in Nat \ {0} : /\ 1 \in 1..k /\ k \in 1..k /\ k + 1 > 1 /\ (k + 1) - 1 = k
                             /\ \A i \in 1..k : i \in 1..(k - 1) \/ i = k
    OBVIOUS
  <2>3. \A i \in 1..Len(nest) : nest[i].kind # "table"
    BY <1>3, <1>4, <2>1, <2>2
  <2>4. nest'[Len(nest') - 1] = l
    BY <1>3, <1>6, <2>2
  <2>5. EndsInSkippedTable(nest') <=> c = "table" /\ l.kind = "quote"
    BY <1>3, <1>6, <2>2, <2>4 DEF EndsInSkippedTable
  <2>6. QED
    BY <1>3, <1>6, <2>1, <2>2, <2>3, <2>5
<1>8. /\ IsSequence(input) /\ Len(input) \in Nat /\ nodes \in Seq(NodeRecords) /\ m \in Nat
      /\ DOMAIN nodes = 1..m /\ DOMAIN open = 1..Len(open)
      /\ (\A k \in DOMAIN open : open[k].node <= m /\ open[k].node \in Nat)
      /\ next \in 1..(m + 1) /\ nests \in 0..MaxNests
      /\ phase \in {"parse", "translate", "restore", "rewrite", "bind", "done"}
      /\ DOMAIN registry = {"placeholder", "counter", "bound", "slugs"}
      /\ registry.counter \in 0..Len(input) /\ Len(input) <= MaxBlocks
      /\ \A i \in DOMAIN nodes : nodes[i].block <= Len(input)
  <2>1. IsSequence(input) /\ nodes \in Seq(NodeRecords)
        /\ \A k \in DOMAIN open : open[k].node <= m
    BY <1>1 DEF TypeInv
  <2>2. Len(input) \in Nat /\ m \in Nat /\ DOMAIN nodes = 1..m /\ DOMAIN open = 1..Len(open)
    BY <1>3, <2>1 DEF IsSequence
  <2>3. \A k \in DOMAIN open : open[k] \in Places
    BY <1>3
  <2>4. \A k \in DOMAIN open : open[k].node \in Nat
    BY <2>3 DEF Places
  <2>5. QED
    BY <1>1, <2>1, <2>2, <2>4 DEF TypeInv
<1>9. CASE c \notin Accepts(Top.kind)
  <2>1. UNCHANGED <<nodes, open>>
    BY <1>9 DEF Open, smap
  <2>2. EndsInSkippedTable(nest') /\ Len(open) = Len(nest') - 1
    BY <1>3, <1>4, <1>5, <1>6, <1>7, <1>9
  <2>3. \A i \in 1..Len(open) : open[i].kind = nest'[i].kind
    BY <1>5, <1>6
  <2>4. WalkInv'
    <3>1. KindsOf(open) = KindsOf(IF EndsInSkippedTable(nest') THEN Front(nest') ELSE nest')
      BY <1>3, <1>6, <2>2, <2>3, InStepWith
    <3>2. WalkerInStep'
      BY <2>1, <3>1, WalkerInStepThen
    <3>3. QED
      BY <1>7, <3>2 DEF WalkInv
  <2>5. TypeInv'
    BY <1>1, <1>2, <1>6, <2>1, DocumentAssumption DEF TypeInv
  <2>6. QED
    BY <1>1, <1>2, <2>1, <2>4, <2>5
       DEF DocumentInv, PlaceInv, BlockInv, HeadingInv, BoundInv
<1>10. CASE c \in Accepts(Top.kind)
  <2> DEFINE e == Node(c, NoText, 0)
             p == [kind |-> c, node |-> m + 1]
  <2>1. /\ e \in NodeRecords /\ e.kind = c /\ e.parent < m + 1 /\ e.block = 0 /\ e.text = NoText
    <3>1. Top.node \in 0..m
      BY <1>3, <1>8 DEF Places
    <3>2. QED
      BY <1>4, <1>8, <3>1 DEF Node, NodeRecords, Texts
  <2>2. p \in Places /\ p.kind = c /\ p.node = m + 1
    BY <1>8 DEF Places, LevelKinds
  <2>3. nodes' = Append(nodes, e) /\ open' = Append(open, p)
    BY <1>10 DEF Open
  <2> HIDE DEF e, p
  <2>4. /\ nodes' \in Seq(NodeRecords) /\ Len(nodes') = m + 1 /\ DOMAIN nodes' = 1..(m + 1)
        /\ \A i \in 1..m : nodes'[i] = nodes[i]
        /\ nodes'[m + 1] = e
    BY <1>8, <2>1, <2>3, Appended
  <2>5. /\ open' \in Seq(Places) /\ open' # <<>> /\ Len(open') = Len(open) + 1
        /\ DOMAIN open' = 1..(Len(open) + 1)
        /\ \A i \in 1..Len(open) : open'[i] = open[i]
        /\ open'[Len(open) + 1] = p
    BY <1>3, <2>2, <2>3, Appended
  <2>6. WalkInv'
    <3>1. ~EndsInSkippedTable(nest') /\ Len(open') = Len(nest')
      BY <1>4, <1>5, <1>6, <1>7, <1>10, <2>5
    <3>2. \A i \in 1..Len(open') : open'[i].kind = nest'[i].kind
      <4> SUFFICES ASSUME NEW i \in 1..Len(open') PROVE open'[i].kind = nest'[i].kind
        OBVIOUS
      <4>1. CASE i \in 1..Len(open)
        BY <1>5, <1>6, <2>5, <4>1
      <4>2. CASE i = Len(open) + 1
        BY <1>5, <1>6, <2>2, <2>5, <4>2
      <4>3. QED
        BY <1>3, <2>5, <4>1, <4>2
    <3>3. KindsOf(open') = KindsOf(IF EndsInSkippedTable(nest') THEN Front(nest') ELSE nest')
      BY <1>6, <2>5, <3>1, <3>2, InStepWith
    <3>4. WalkerInStep'
      BY <3>3, WalkerInStepThen
    <3>5. QED
      BY <1>7, <3>4 DEF WalkInv
  <2>7. \A i \in DOMAIN nodes' \ DOMAIN nodes : i = m + 1
    BY <1>8, <2>4
  <2>8. Extended(Len(input) + 1)
    BY <1>8, <2>1, <2>4, <2>7 DEF Extended
  <2>9. /\ BlockInv'
        /\ \A i \in DOMAIN nodes' : nodes'[i].parent < i
    BY <1>1, <2>8, MapGrown
  <2>10. \A i \in DOMAIN nodes' : nodes'[i].block <= Len(input)
    <3> SUFFICES ASSUME NEW i \in DOMAIN nodes' PROVE nodes'[i].block <= Len(input)
      OBVIOUS
    <3>1. CASE i \in DOMAIN nodes
      BY <1>8, <2>4, <3>1
    <3>2. CASE i = m + 1
      BY <1>8, <2>1, <2>4, <3>2
    <3>3. QED
      BY <2>7, <3>1, <3>2
  <2>11. \A k \in DOMAIN open' : open'[k].node <= m + 1
    <3> SUFFICES ASSUME NEW k \in DOMAIN open' PROVE open'[k].node <= m + 1
      OBVIOUS
    <3>1. CASE k \in 1..Len(open)
      BY <1>8, <2>5, <3>1
    <3>2. CASE k = Len(open) + 1
      BY <1>8, <2>2, <2>5, <3>2
    <3>3. QED
      BY <1>3, <2>5, <3>1, <3>2
  <2>12. TypeInv'
    <3>1. next \in 1..(m + 1 + 1) /\ nests + 1 \in 0..MaxNests
      BY <1>2, <1>8, DocumentAssumption
    <3> HIDE DEF m
    <3>2. QED
      BY <1>2, <1>6, <1>8, <2>4, <2>5, <2>9, <2>10, <2>11, <3>1 DEF TypeInv
  <2>13. PlaceInv'
    <3>1. open'[1] = Root
      BY <1>1, <1>3, <2>5 DEF PlaceInv
    <3>2. ASSUME NEW k \in 2..Len(open')
          PROVE  /\ open'[k].node # 0
                 /\ nodes'[open'[k].node].kind = open'[k].kind
                 /\ nodes'[open'[k].node].block = 0
      <4>1. CASE k \in 2..Len(open)
        <5>1. /\ open'[k] = open[k] /\ open[k].node # 0
              /\ nodes[open[k].node].kind = open[k].kind /\ nodes[open[k].node].block = 0
          BY <1>1, <1>3, <2>5, <4>1 DEF PlaceInv
        <5>2. open[k].node \in 1..m
          BY <1>3, <1>8, <4>1, <5>1
        <5>3. QED
          BY <2>4, <5>1, <5>2
      <4>2. CASE k = Len(open) + 1
        BY <1>8, <2>1, <2>2, <2>4, <2>5, <4>2
      <4>3. QED
        BY <1>3, <2>5, <4>1, <4>2
    <3>3. ASSUME NEW i \in DOMAIN open', NEW k \in DOMAIN open', i < k
          PROVE  open'[i].node < open'[k].node
      <4>1. CASE k \in 1..Len(open)
        <5>1. i \in DOMAIN open /\ k \in DOMAIN open
          BY <1>3, <1>8, <2>5, <3>3, <4>1
        <5>2. open[i].node < open[k].node
          BY <1>1, <3>3, <5>1 DEF PlaceInv
        <5>3. QED
          BY <1>8, <2>5, <5>1, <5>2
      <4>2. CASE k = Len(open) + 1
        <5>1. open'[k].node = m + 1 /\ i \in 1..Len(open)
          BY <1>3, <2>2, <2>5, <3>3, <4>2
        <5>2. open'[i].node \in Nat /\ open'[i].node <= m
          BY <1>8, <2>5, <5>1
        <5>3. QED
          BY <1>8, <5>1, <5>2
      <4>3. QED
        BY <1>3, <2>5, <4>1, <4>2
    <3>4. QED
      BY <3>1, <3>2, <3>3 DEF PlaceInv
  <2>14. HeadingInv'
    <3> SUFFICES ASSUME NEW i \in DOMAIN input, input[i].kind = "heading"
                 PROVE  /\ \E k \in DOMAIN nodes' :
                             nodes'[k].block = i /\ nodes'[k].kind = "heading"
                        /\ Slug(input[i].text) \in DOMAIN registry.placeholder
      BY <1>2 DEF HeadingInv
    <3>1. PICK k \in DOMAIN nodes : nodes[k].block = i /\ nodes[k].kind = "heading"
      BY <1>1 DEF HeadingInv
    <3>2. k \in DOMAIN nodes' /\ nodes'[k] = nodes[k]
      BY <1>8, <2>4, <3>1
    <3>3. QED
      BY <1>1, <3>1, <3>2 DEF HeadingInv
  <2>15. BoundInv'
    BY <1>1, <1>2 DEF BoundInv
  <2>16. QED
    BY <2>6, <2>9, <2>12, <2>13, <2>14, <2>15 DEF DocumentInv
<1>11. QED
  BY <1>9, <1>10

-----------------------------------------------------------------------------
(* Closing a container. *)

\* A set of places that is not empty has a first one.
LEMMA FirstOf ==
  ASSUME NEW at, at \subseteq Nat, at # {}
  PROVE  LET i == CHOOSE k \in at : \A j \in at : k <= j
         IN  i \in at /\ \A j \in at : i <= j
<1> DEFINE less == OpToRel(<, Nat)
<1> HIDE DEF less
<1>1. PICK i \in at : \A j \in at : <<j, i>> \notin less
  BY NatLessThanWellFounded, WFMin DEF less
<1>2. \A j \in at : i <= j
  <2> SUFFICES ASSUME NEW j \in at PROVE ~(j < i)
    OBVIOUS
  <2>1. <<j, i>> \in Nat \X Nat
    OBVIOUS
  <2>2. QED
    BY <1>1, <2>1 DEF less, OpToRel
<1>3. QED
  BY <1>2

\* A list item that is left gets the text of the paragraph it begins with,
\* which nobody else has; nothing else changes.
LEMMA ClosedMap ==
  ASSUME TypeInv, PlaceInv, BlockInv, nodes' = Closed, Len(open) > 1
  PROVE  /\ nodes' \in Seq(NodeRecords) /\ Len(nodes') = Len(nodes)
         /\ DOMAIN nodes' = DOMAIN nodes
         /\ \A k \in DOMAIN nodes :
              /\ nodes'[k].kind = nodes[k].kind /\ nodes'[k].parent = nodes[k].parent
              /\ nodes[k].block # 0 \/ k # Top.node => nodes'[k] = nodes[k]
              /\ nodes'[k].block <= Len(input)
         /\ BlockInv'
<1> DEFINE t == Top.node
           m == Len(nodes)
           Kids == {i \in DOMAIN nodes : nodes[i].parent = Top.node}
           i == CHOOSE k \in Kids : \A j \in Kids : k <= j
<1>1. /\ nodes \in Seq(NodeRecords) /\ m \in Nat /\ DOMAIN nodes = 1..m
      /\ \A k \in DOMAIN nodes :
           nodes[k] \in NodeRecords /\ nodes[k].parent < k /\ nodes[k].block <= Len(input)
  BY DEF TypeInv
<1>2. t \in DOMAIN nodes /\ nodes[t].kind = Top.kind /\ nodes[t].block = 0
  <2>1. open \in Seq(Places) /\ \A k \in DOMAIN open : open[k].node <= m
    BY DEF TypeInv
  <2>2. Len(open) \in 2..Len(open) /\ Len(open) \in DOMAIN open /\ open[Len(open)] \in Places
    BY <2>1
  <2>3. Top.node # 0 /\ nodes[t].kind = Top.kind /\ nodes[t].block = 0
    BY <2>2 DEF PlaceInv, Top
  <2>4. Top.node \in Nat /\ Top.node <= m
    BY <2>1, <2>2 DEF Top, Places
  <2>5. QED
    BY <1>1, <2>3, <2>4
<1> HIDE DEF t
<1>3. CASE nodes' = nodes
  BY <1>1, <1>3 DEF BlockInv
<1>4. CASE Top.kind = "item" /\ Kids # {} /\ nodes[i].kind = "paragraph"
  <2>1. i \in DOMAIN nodes /\ nodes[i].parent = t
    <3>1. Kids \subseteq Nat
      BY <1>1
    <3>2. i \in Kids
      BY <1>4, <3>1, FirstOf
    <3>3. QED
      BY <3>2 DEF t
  <2> DEFINE r == [nodes[t] EXCEPT !.text = nodes[i].text, !.block = nodes[i].block]
  <2>2. nodes' = [nodes EXCEPT ![t].text = nodes[i].text, ![t].block = nodes[i].block]
    BY <1>4 DEF Closed, t
  <2> HIDE DEF i
  <2>3. nodes' = [nodes EXCEPT ![t] = r]
    BY <1>2, <2>2
  <2>4. /\ r \in NodeRecords /\ r.kind = nodes[t].kind /\ r.parent = nodes[t].parent
        /\ r.text = nodes[i].text /\ r.block = nodes[i].block
    BY <1>1, <1>2, <2>1 DEF NodeRecords
  <2> HIDE DEF r
  <2>5. /\ DOMAIN nodes' = DOMAIN nodes /\ nodes'[t] = r
        /\ \A k \in DOMAIN nodes : k # t => nodes'[k] = nodes[k]
    BY <1>2, <2>3
  <2>6. nodes' \in Seq(NodeRecords) /\ Len(nodes') = m
    <3>1. nodes \in [1..m -> NodeRecords]
      BY <1>1, LenProperties
    <3>2. nodes' \in [1..m -> NodeRecords]
      BY <2>3, <2>4, <3>1
    <3>3. nodes' \in Seq(NodeRecords)
      BY <1>1, <3>2, SeqDef
    <3>4. QED
      BY <1>1, <2>5, <3>3, LenProperties
  <2>7. \A k \in DOMAIN nodes :
          /\ nodes'[k].kind = nodes[k].kind /\ nodes'[k].parent = nodes[k].parent
          /\ nodes[k].block # 0 \/ k # t => nodes'[k] = nodes[k]
          /\ nodes'[k].block <= Len(input)
    BY <1>1, <1>2, <2>1, <2>4, <2>5
  <2>8. t < i
    BY <1>1, <2>1
  <2>9. \A k \in DOMAIN nodes' : nodes'[k].text # NoText => nodes'[k].block # 0
    BY <2>1, <2>4, <2>5 DEF BlockInv
  <2>10. ASSUME NEW a \in DOMAIN nodes', NEW b \in DOMAIN nodes',
                a < b, nodes'[a].block = nodes'[b].block, nodes'[a].block # 0
         PROVE  nodes'[a].kind = "item" /\ nodes'[b].kind = "paragraph" /\ nodes'[b].parent = a
    <3>1. CASE a # t /\ b # t
      BY <2>5, <2>10, <3>1 DEF BlockInv
    <3>2. CASE a = t
      <4>1. nodes[i].block = nodes[b].block /\ nodes[i].block # 0 /\ b # t
        BY <2>4, <2>5, <2>10, <3>2, <1>1
      <4>2. ~(i < b)
        <5>1. i < b => nodes[i].kind = "item"
          BY <2>1, <2>5, <2>10, <4>1 DEF BlockInv
        <5>2. QED
          BY <1>4, <5>1 DEF i
      <4>3. ~(b < i)
        <5>1. b < i => nodes[i].parent = b
          BY <2>1, <2>5, <2>10, <4>1 DEF BlockInv
        <5>2. QED
          BY <2>1, <4>1, <5>1
      <4>4. b = i
        BY <1>1, <2>1, <2>5, <4>2, <4>3
      <4>5. nodes'[i].kind = "paragraph" /\ nodes'[t].kind = "item"
        BY <1>2, <1>4, <2>1, <2>7 DEF i
      <4>6. QED
        BY <2>1, <2>7, <3>2, <4>4, <4>5
    <3>3. CASE b = t
      <4>1. nodes[a].block = nodes[i].block /\ nodes[a].block # 0 /\ a < i /\ a # t
        <5>1. a # t /\ a < t
          BY <1>1, <2>5, <2>10, <3>3
        <5>2. nodes'[a] = nodes[a] /\ nodes'[t].block = nodes[i].block
          BY <2>4, <2>5, <5>1
        <5>3. nodes[a].block = nodes[i].block /\ nodes[a].block # 0
          BY <2>10, <3>3, <5>2
        <5>4. a < i
          BY <1>1, <1>2, <2>1, <2>5, <2>8, <5>1
        <5>5. QED
          BY <5>1, <5>3, <5>4
      <4>2. nodes[i].parent = a
        BY <2>1, <2>5, <2>10, <4>1 DEF BlockInv
      <4>3. QED
        BY <2>1, <4>1, <4>2
    <3>4. QED
      BY <3>1, <3>2, <3>3
  <2>11. BlockInv'
    BY <2>9, <2>10 DEF BlockInv
  <2>12. QED
    BY <2>5, <2>6, <2>7, <2>11 DEF t
<1>5. QED
  BY <1>3, <1>4 DEF Closed

\* A container closed keeps the invariant.
LEMMA CloseKeeps ==
  ASSUME DocumentInv, Close
  PROVE  DocumentInv'
<1> DEFINE l == nest[Len(nest)]
<1>1. TypeInv /\ WalkInv /\ PlaceInv /\ BlockInv /\ HeadingInv /\ BoundInv
  BY DEF DocumentInv
<1>2. /\ Len(nest) > 1 /\ nest' = Front(nest)
      /\ UNCHANGED <<phase, input, nests, registry, next>>
  BY DEF Close
<1>3. /\ Top \in Places /\ Len(open) \in Nat \ {0} /\ Last(nest) = l /\ l \in Levels
      /\ Len(nest) \in Nat \ {0} /\ nest \in Seq(Levels) /\ nest # <<>>
      /\ open \in Seq(Places) /\ open # <<>>
      /\ nest[1].kind = "root"
      /\ \A i \in 1..(Len(nest) - 1) : nest[i].kind # "table"
  BY <1>1, WalkerPlace DEF TypeInv, WalkInv
<1>4. /\ nest' \in Seq(Levels) /\ nest' # <<>> /\ Len(nest') = Len(nest) - 1
      /\ \A i \in 1..(Len(nest) - 1) : nest'[i] = nest[i]
  <2>1. /\ nest' \in Seq(Levels) /\ Len(nest') = Len(nest) - 1
        /\ \A i \in 1..(Len(nest) - 1) : nest'[i] = nest[i]
    BY <1>2, <1>3, FrontOf
  <2>2. nest' # <<>>
    BY <1>2, <1>3, <2>1
  <2>3. QED
    BY <2>1, <2>2
<1>5. /\ ~EndsInSkippedTable(nest') /\ nest'[1].kind = "root"
      /\ \A i \in 1..(Len(nest') - 1) : nest'[i].kind # "table"
  BY <1>2, <1>3, <1>4 DEF EndsInSkippedTable
<1>6. /\ IsSequence(input) /\ nodes \in Seq(NodeRecords) /\ Len(nodes) \in Nat
      /\ DOMAIN nodes = 1..Len(nodes) /\ DOMAIN open = 1..Len(open)
      /\ \A k \in DOMAIN open : open[k].node <= Len(nodes) /\ open[k].node \in Nat
  <2>1. IsSequence(input) /\ nodes \in Seq(NodeRecords)
        /\ \A k \in DOMAIN open : open[k].node <= Len(nodes)
    BY <1>1 DEF TypeInv
  <2>2. \A k \in DOMAIN open : open[k] \in Places
    BY <1>3
  <2>3. \A k \in DOMAIN open : open[k].node \in Nat
    BY <2>2 DEF Places
  <2>4. QED
    BY <1>3, <2>1, <2>3
<1>7. CASE Top.kind # l.kind
  <2>1. UNCHANGED <<nodes, open>>
    BY <1>3, <1>7 DEF Close, WalkerLeaves, smap
  <2>2. InSkippedTable
    BY <1>1, <1>7, WalkerPlace
  <2>3. /\ Len(open) = Len(nest) - 1
        /\ \A i \in 1..(Len(nest) - 1) : open[i].kind = nest[i].kind
    BY <1>1, <2>2, WalkerPlace
  <2>4. KindsOf(open) = KindsOf(IF EndsInSkippedTable(nest') THEN Front(nest') ELSE nest')
    <3>1. Len(open) = Len(nest') /\ \A i \in 1..Len(open) : open[i].kind = nest'[i].kind
      BY <1>4, <2>3
    <3>2. QED
      BY <1>3, <1>4, <1>5, <3>1, InStepWith
  <2>5. WalkerInStep'
    BY <2>1, <2>4, WalkerInStepThen
  <2>6. WalkInv'
    BY <1>5, <2>5 DEF WalkInv
  <2>7. TypeInv'
    BY <1>1, <1>2, <1>4, <2>1 DEF TypeInv
  <2>8. QED
    BY <1>1, <1>2, <2>1, <2>6, <2>7
       DEF DocumentInv, PlaceInv, BlockInv, HeadingInv, BoundInv
<1>8. CASE Top.kind = l.kind
  <2>1. nodes' = Closed /\ open' = Front(open)
    BY <1>3, <1>8 DEF Close, WalkerLeaves
  <2>2. ~InSkippedTable
    <3>1. InSkippedTable => Top.kind = "quote" /\ l.kind = "table"
      BY <1>1, WalkerPlace
    <3>2. QED
      BY <1>8, <3>1
  <2>3. Len(open) = Len(nest) /\ \A i \in 1..Len(nest) : open[i].kind = nest[i].kind
    BY <1>1, <2>2, WalkerPlace
  <2>4. /\ open' \in Seq(Places) /\ open' # <<>> /\ Len(open') = Len(open) - 1
        /\ DOMAIN open' = 1..(Len(open) - 1)
        /\ \A i \in 1..(Len(open) - 1) : open'[i] = open[i]
    <3>1. /\ open' \in Seq(Places) /\ Len(open') = Len(open) - 1
          /\ DOMAIN open' = 1..(Len(open) - 1)
          /\ \A i \in 1..(Len(open) - 1) : open'[i] = open[i]
      BY <1>3, <2>1, FrontOf
    <3>2. open' # <<>>
      BY <1>2, <1>3, <2>3, <3>1
    <3>3. QED
      BY <3>1, <3>2
  <2>5. WalkInv'
    <3>1. Len(open') = Len(nest') /\ \A i \in 1..Len(open') : open'[i].kind = nest'[i].kind
      <4>1. Len(open') = Len(nest')
        BY <1>4, <2>3, <2>4
      <4>2. \A i \in 1..(Len(nest) - 1) : i \in 1..Len(nest)
        BY <1>3
      <4>3. \A i \in 1..(Len(nest) - 1) : open'[i].kind = nest'[i].kind
        BY <1>4, <2>3, <2>4, <4>2
      <4>4. QED
        BY <1>4, <4>1, <4>3
    <3>2. KindsOf(open') = KindsOf(IF EndsInSkippedTable(nest') THEN Front(nest') ELSE nest')
      BY <1>4, <1>5, <2>4, <3>1, InStepWith
    <3>3. WalkerInStep'
      BY <3>2, WalkerInStepThen
    <3>4. QED
      BY <1>5, <3>3 DEF WalkInv
  <2>6. /\ nodes' \in Seq(NodeRecords) /\ Len(nodes') = Len(nodes)
        /\ DOMAIN nodes' = DOMAIN nodes
        /\ \A k \in DOMAIN nodes :
             /\ nodes'[k].kind = nodes[k].kind /\ nodes'[k].parent = nodes[k].parent
             /\ nodes[k].block # 0 \/ k # Top.node => nodes'[k] = nodes[k]
             /\ nodes'[k].block <= Len(input)
        /\ BlockInv'
    BY <1>1, <1>2, <2>1, <2>3, ClosedMap
  <2>7. TypeInv'
    <3>1. \A k \in DOMAIN open' : open'[k].node <= Len(nodes')
      BY <1>3, <1>6, <2>4, <2>6
    <3>2. \A i \in DOMAIN nodes' : nodes'[i].parent < i
      BY <1>1, <2>6 DEF TypeInv
    <3>3. QED
      BY <1>1, <1>2, <1>4, <2>4, <2>6, <3>1, <3>2 DEF TypeInv
  <2>8. PlaceInv'
    <3>1. \A k \in 1..(Len(open) - 1) : k \in DOMAIN open /\ open[k].node < Top.node
      <4>1. \A k \in 1..(Len(open) - 1) : k \in DOMAIN open /\ k < Len(open)
        BY <1>3, <1>6
      <4>2. Len(open) \in DOMAIN open
        BY <1>3, <1>6
      <4>3. QED
        BY <1>1, <4>1, <4>2 DEF PlaceInv, Top
    <3>2. open'[1] = Root
      BY <1>1, <1>2, <1>3, <2>3, <2>4 DEF PlaceInv
    <3>3. ASSUME NEW k \in 2..Len(open')
          PROVE  /\ open'[k].node # 0
                 /\ nodes'[open'[k].node].kind = open'[k].kind
                 /\ nodes'[open'[k].node].block = 0
      <4>1. k \in 2..Len(open) /\ k \in 1..(Len(open) - 1) /\ open'[k] = open[k]
        BY <1>3, <2>4, <3>3
      <4>2. /\ open[k].node # 0 /\ nodes[open[k].node].kind = open[k].kind
            /\ nodes[open[k].node].block = 0
        BY <1>1, <4>1 DEF PlaceInv
      <4>3. open[k].node \in DOMAIN nodes /\ open[k].node # Top.node
        <5>1. open[k].node < Top.node /\ open[k].node \in Nat /\ open[k].node <= Len(nodes)
          BY <1>6, <3>1, <4>1
        <5>2. QED
          BY <1>3, <1>6, <4>2, <5>1 DEF Places
      <4>4. QED
        BY <2>6, <4>1, <4>2, <4>3
    <3>4. ASSUME NEW i \in DOMAIN open', NEW k \in DOMAIN open', i < k
          PROVE  open'[i].node < open'[k].node
      BY <1>1, <2>4, <3>1, <3>4 DEF PlaceInv
    <3>5. QED
      BY <3>2, <3>3, <3>4 DEF PlaceInv
  <2>9. HeadingInv'
    <3> SUFFICES ASSUME NEW i \in DOMAIN input, input[i].kind = "heading"
                 PROVE  /\ \E k \in DOMAIN nodes' :
                             nodes'[k].block = i /\ nodes'[k].kind = "heading"
                        /\ Slug(input[i].text) \in DOMAIN registry.placeholder
      BY <1>2 DEF HeadingInv
    <3>1. PICK k \in DOMAIN nodes : nodes[k].block = i /\ nodes[k].kind = "heading"
      BY <1>1 DEF HeadingInv
    <3>2. nodes'[k] = nodes[k]
      <4>1. i # 0
        <5>1. DOMAIN input = 1..Len(input)
          BY <1>6 DEF IsSequence
        <5>2. QED
          BY <5>1
      <4>2. QED
        BY <2>6, <3>1, <4>1
    <3>3. QED
      BY <1>1, <2>6, <3>1, <3>2 DEF HeadingInv
  <2>10. BoundInv'
    BY <1>1, <1>2 DEF BoundInv
  <2>11. QED
    BY <2>5, <2>6, <2>7, <2>8, <2>9, <2>10 DEF DocumentInv
<1>9. QED
  BY <1>7, <1>8

-----------------------------------------------------------------------------
(* The phases of the translation and the binding of the headings. *)

\* The phases of the translation keep the invariant: they leave document and map alone.
LEMMA PhasesKeep ==
  ASSUME DocumentInv,
         \/ EndOfDocument \/ TranslateLeaf \/ TranslateWhole \/ LeavesDone
         \/ RestoreCode \/ NormalizeAnchors \/ RewriteAnchors
  PROVE  DocumentInv'
<1>1. TypeInv /\ WalkInv /\ PlaceInv /\ BlockInv /\ HeadingInv /\ BoundInv
  BY DEF DocumentInv
<1>2. UNCHANGED <<input, nest, nests, open, nodes, registry>>
  BY DEF EndOfDocument, TranslateLeaf, TranslateWhole, LeavesDone, RestoreCode,
         NormalizeAnchors, RewriteAnchors, document, smap
<1>3. phase' \in {"parse", "translate", "restore", "rewrite", "bind", "done"}
  BY <1>1 DEF TypeInv, EndOfDocument, TranslateLeaf, TranslateWhole, LeavesDone, RestoreCode,
              NormalizeAnchors, RewriteAnchors
<1>4. next' \in 1..(Len(nodes) + 1)
  <2>1. nodes \in Seq(NodeRecords) /\ next \in 1..(Len(nodes) + 1)
    BY <1>1 DEF TypeInv
  <2>2. Len(nodes) \in Nat /\ DOMAIN nodes = 1..Len(nodes)
    BY <2>1
  <2>3. CASE next' = next
    BY <2>1, <2>3
  <2>4. CASE TranslateLeaf
    <3>1. PICK i \in DOMAIN nodes : next' = i + 1
      BY <2>4 DEF TranslateLeaf, Leaves
    <3>2. QED
      BY <2>2, <3>1
  <2>5. CASE NormalizeAnchors
    <3>1. next' = 1
      BY <2>5 DEF NormalizeAnchors
    <3>2. QED
      BY <2>2, <3>1
  <2>6. QED
    BY <2>3, <2>4, <2>5
       DEF EndOfDocument, TranslateWhole, LeavesDone, RestoreCode, RewriteAnchors
<1>5. TypeInv'
  BY <1>1, <1>2, <1>3, <1>4 DEF TypeInv
<1>6. QED
  BY <1>1, <1>2, <1>5
     DEF DocumentInv, WalkInv, WalkerInStep, InSkippedTable, PlaceInv, BlockInv, HeadingInv, BoundInv

\* resolve_slug finds a slug that is not in use: of as many numbers as there
\* are slugs, and one more, one is free.
LEMMA ResolvedIsFree ==
  ASSUME NEW existing, IsFiniteSet(existing), NEW t
  PROVE  ResolveSlug(existing, t) \notin existing
<1> DEFINE base == Slug(t)
           n == Cardinality(existing)
           free == {k \in 1..(n + 1) : Numbered(base, k) \notin existing}
<1>1. n \in Nat
  BY FS_CardinalityType
<1> HIDE DEF base
<1>2. \A k, j : Numbered(base, k) = Numbered(base, j) => k = j
  <2> SUFFICES ASSUME NEW k, NEW j, Numbered(base, k) = Numbered(base, j) PROVE k = j
    OBVIOUS
  <2> DEFINE last == Len(base) + 1
  <2>1. Numbered(base, k)[last] = Num(k) /\ Numbered(base, j)[last] = Num(j)
    <3> HIDE DEF last
    <3>1. QED
      BY DEF Numbered, last
  <2>2. Num(k) = Num(j)
    BY <2>1
  <2>3. QED
    BY <2>2 DEF Num
<1>3. free # {}
  <2> SUFFICES ASSUME \A k \in 1..(n + 1) : Numbered(base, k) \in existing PROVE FALSE
    BY DEF free
  <2> DEFINE f == [k \in 1..(n + 1) |-> Numbered(base, k)]
  <2>1. IsFiniteSet(1..(n + 1)) /\ n < Cardinality(1..(n + 1))
    <3> HIDE DEF n
    <3>1. 1 \in Int /\ n + 1 \in Int /\ ~(1 > n + 1) /\ n + 1 - 1 + 1 = n + 1
      BY <1>1
    <3>2. IsFiniteSet(1..(n + 1)) /\ Cardinality(1..(n + 1)) = n + 1 - 1 + 1
      BY <3>1, FS_Interval
    <3>3. QED
      BY <1>1, <3>1, <3>2
  <2>2. f \in [1..(n + 1) -> existing]
    OBVIOUS
  <2>3. PICK x, y \in 1..(n + 1) : x # y /\ f[x] = f[y]
    <3> HIDE DEF f
    <3>1. QED
      BY <2>1, <2>2, FS_PigeonHole
  <2>4. QED
    BY <1>2, <2>3
<1>4. free \subseteq Nat
  BY <1>1
<1> DEFINE k == CHOOSE i \in free : \A j \in free : i <= j
<1>5. k \in free
  <2> HIDE DEF free
  <2>1. QED
    BY <1>3, <1>4, FirstOf
<1>6. Numbered(base, k) \notin existing
  BY <1>5
<1>7. ResolveSlug(existing, t) = IF base \notin existing THEN base ELSE Numbered(base, k)
  BY DEF ResolveSlug, base
<1> HIDE DEF k
<1>8. QED
  BY <1>6, <1>7

\* A heading bound keeps the invariant: its slug is not in use yet.
LEMMA BindHeadingKeeps ==
  ASSUME DocumentInv, BindHeading
  PROVE  DocumentInv'
<1>1. TypeInv /\ WalkInv /\ PlaceInv /\ BlockInv /\ HeadingInv /\ BoundInv
  BY DEF DocumentInv
<1>2. UNCHANGED <<phase, input, nest, nests, open, nodes>>
  BY DEF BindHeading, document, smap
<1>3. PICK i \in DOMAIN nodes :
        /\ registry' = Bind(nodes[i].text, HeadingLines(text)[Order(i)])
        /\ next' = i + 1
  BY DEF BindHeading, Paired, SourceHeadings
<1>4. next' \in 1..(Len(nodes) + 1)
  <2>1. Len(nodes) \in Nat /\ DOMAIN nodes = 1..Len(nodes)
    BY <1>1 DEF TypeInv
  <2>2. QED
    BY <1>3, <2>1
<1> DEFINE s == ResolveSlug(registry.slugs, HeadingLines(text)[Order(i)])
           p == registry.placeholder[Slug(nodes[i].text)]
<1>5. s \notin registry.slugs
  BY <1>1, ResolvedIsFree DEF BoundInv
<1>6. \/ registry' = registry
      \/ registry' = [registry EXCEPT
            !.slugs = @ \cup {s},
            !.bound = [q \in DOMAIN @ \cup {p} |-> IF q = p THEN s ELSE @[q]]]
  BY <1>3 DEF Bind
<1> HIDE DEF s, p
<1>7. DOMAIN registry = {"placeholder", "counter", "bound", "slugs"}
  BY <1>1 DEF TypeInv
<1>8. CASE registry' = registry
  <2>1. TypeInv'
    BY <1>1, <1>2, <1>4, <1>8 DEF TypeInv
  <2>2. QED
    BY <1>1, <1>2, <1>8, <2>1
       DEF DocumentInv, WalkInv, WalkerInStep, InSkippedTable, PlaceInv, BlockInv, HeadingInv, BoundInv
<1>9. CASE registry' = [registry EXCEPT
            !.slugs = @ \cup {s},
            !.bound = [q \in DOMAIN @ \cup {p} |-> IF q = p THEN s ELSE @[q]]]
  <2>1. /\ DOMAIN registry' = DOMAIN registry
        /\ registry'.counter = registry.counter /\ registry'.placeholder = registry.placeholder
        /\ registry'.slugs = registry.slugs \cup {s}
        /\ DOMAIN registry'.bound = DOMAIN registry.bound \cup {p}
        /\ registry'.bound[p] = s
        /\ \A q \in DOMAIN registry.bound : q # p => registry'.bound[q] = registry.bound[q]
    BY <1>7, <1>9
  <2>2. BoundInv'
    <3>1. IsFiniteSet(registry'.slugs)
      BY <1>1, <2>1, FS_AddElement DEF BoundInv
    <3>2. ASSUME NEW q \in DOMAIN registry'.bound PROVE registry'.bound[q] \in registry'.slugs
      BY <1>1, <2>1 DEF BoundInv
    <3>3. ASSUME NEW q \in DOMAIN registry'.bound, NEW o \in DOMAIN registry'.bound, q # o
          PROVE  registry'.bound[q] # registry'.bound[o]
      BY <1>1, <1>5, <2>1, <3>3 DEF BoundInv
    <3>4. QED
      BY <3>1, <3>2, <3>3 DEF BoundInv
  <2>3. TypeInv'
    BY <1>1, <1>2, <1>4, <2>1 DEF TypeInv
  <2>4. QED
    BY <1>1, <1>2, <2>1, <2>2, <2>3
       DEF DocumentInv, WalkInv, WalkerInStep, InSkippedTable, PlaceInv, BlockInv, HeadingInv
<1>10. QED
  BY <1>6, <1>8, <1>9

-----------------------------------------------------------------------------
(* The theorems. *)

\* DocumentInv holds before every step of the walker, the translation and the
\* binding of the headings.
THEOREM DocumentInvariant == Spec => []DocumentInv
<1>1. Init => DocumentInv
  BY DocumentInit
<1>2. DocumentInv /\ [Next]_vars => DocumentInv'
  <2> SUFFICES ASSUME DocumentInv, [Next]_vars PROVE DocumentInv'
    OBVIOUS
  <2>1. ASSUME NEW b \in Blocks, ParseBlock(b) PROVE DocumentInv'
    BY <2>1, ParseBlockKeeps
  <2>2. ASSUME NEW c \in Containers, Open(c) PROVE DocumentInv'
    BY <2>2, OpenKeeps
  <2>3. CASE Close
    BY <2>3, CloseKeeps
  <2>4. CASE \/ EndOfDocument \/ TranslateLeaf \/ TranslateWhole \/ LeavesDone
             \/ RestoreCode \/ NormalizeAnchors \/ RewriteAnchors
    BY <2>4, PhasesKeep
  <2>5. CASE BindHeading
    BY <2>5, BindHeadingKeeps
  <2>6. CASE UNCHANGED vars
    BY <2>6 DEF vars, document, smap, DocumentInv, TypeInv, WalkInv, WalkerInStep,
                InSkippedTable, PlaceInv, BlockInv, HeadingInv, BoundInv
  <2>7. QED
    BY <2>1, <2>2, <2>3, <2>4, <2>5, <2>6 DEF Next
<1>3. QED
  BY <1>1, <1>2, PTL DEF Spec

\* The types of the variables; a node of the map comes behind its parent.
THEOREM DocumentTypes == Spec => []TypeOK
<1>1. DocumentInv => TypeOK
  <2> SUFFICES ASSUME DocumentInv PROVE TypeOK
    OBVIOUS
  <2>1. TypeInv /\ PlaceInv
    BY DEF DocumentInv
  <2>2. /\ IsSequence(input) /\ Len(input) <= MaxBlocks /\ nests \in 0..MaxNests
        /\ nodes \in Seq(NodeRecords) /\ open \in Seq(Places) /\ open # <<>>
        /\ phase \in {"parse", "translate", "restore", "rewrite", "bind", "done"}
        /\ \A i \in DOMAIN nodes : nodes[i].parent < i /\ nodes[i].block <= Len(input)
        /\ \A k \in DOMAIN open : open[k].node <= Len(nodes)
        /\ registry.counter \in 0..Len(input) /\ next \in 1..(Len(nodes) + 1)
    BY <2>1 DEF TypeInv
  <2>3. Len(input) \in Nat /\ Len(nodes) \in Nat /\ MaxBlocks \in Nat
    BY <2>2, DocumentAssumption DEF IsSequence
  <2>4. Len(input) \in 0..MaxBlocks /\ registry.counter \in 0..MaxBlocks
    BY <2>2, <2>3
  <2>5. ASSUME NEW i \in DOMAIN nodes
        PROVE  /\ nodes[i].kind \in Kinds /\ nodes[i].parent \in 0..(i - 1)
               /\ nodes[i].block \in 0..Len(input)
    <3>1. nodes[i] \in NodeRecords /\ i \in Nat
      BY <2>2, <2>3, <2>5
    <3>2. QED
      BY <2>2, <2>3, <2>5, <3>1 DEF NodeRecords
  <2>6. ASSUME NEW k \in DOMAIN open PROVE open[k].node \in 0..Len(nodes)
    <3>1. open[k] \in Places
      BY <2>2, <2>6
    <3>2. QED
      BY <2>2, <2>3, <2>6, <3>1 DEF Places
  <2>7. QED
    BY <2>2, <2>4, <2>5, <2>6 DEF TypeOK
<1>2. QED
  BY <1>1, DocumentInvariant, PTL

\* The loops of the walker, each with its own close token, keep step with the
\* parser through any nest of lists, quotes and tables.
THEOREM WalkerKeepsStep == Spec => []WalkerInStep
<1>1. DocumentInv => WalkerInStep
  BY DEF DocumentInv, WalkInv
<1>2. QED
  BY <1>1, DocumentInvariant, PTL

\* Every heading has its node and its placeholder, and the anchors that are
\* bound differ, however many headings translate alike.
THEOREM HeadingsAnchored == Spec => []EveryHeadingAnchored
<1>1. DocumentInv => EveryHeadingAnchored
  BY DEF DocumentInv, HeadingInv, BoundInv, EveryHeadingAnchored
<1>2. QED
  BY <1>1, DocumentInvariant, PTL

\* No block of the document is translated as two leaf segments.
THEOREM LeavesOnce == Spec => []NoLeafTwice
<1>1. DocumentInv => NoLeafTwice
  <2> SUFFICES ASSUME DocumentInv, NEW i \in Leaves, NEW j \in Leaves, i # j
               PROVE  nodes[i].block # nodes[j].block
    BY DEF NoLeafTwice
  <2>1. TypeInv /\ BlockInv
    BY DEF DocumentInv
  <2>2. DOMAIN nodes = 1..Len(nodes) /\ Len(nodes) \in Nat
    BY <2>1 DEF TypeInv
  <2>3. ASSUME NEW a \in Leaves, NEW b \in Leaves, a < b PROVE nodes[a].block # nodes[b].block
    <3> SUFFICES ASSUME nodes[a].block = nodes[b].block PROVE FALSE
      OBVIOUS
    <3>1. /\ a \in DOMAIN nodes /\ b \in DOMAIN nodes /\ nodes[a].text # NoText
          /\ ~IsDupParagraph(nodes[b])
      BY DEF Leaves, IsLeaf
    <3>2. nodes[a].block # 0
      BY <2>1, <3>1 DEF BlockInv
    <3>3. nodes[a].kind = "item" /\ nodes[b].kind = "paragraph" /\ nodes[b].parent = a
      BY <2>1, <2>3, <3>1, <3>2 DEF BlockInv
    <3>4. a # 0
      BY <2>2, <3>1
    <3>5. QED
      BY <3>1, <3>3, <3>4 DEF IsDupParagraph
  <2>4. i \in DOMAIN nodes /\ j \in DOMAIN nodes
    BY DEF Leaves
  <2>5. CASE i < j
    BY <2>3, <2>5
  <2>6. CASE j < i
    BY <2>3, <2>6
  <2>7. QED
    BY <2>2, <2>4, <2>5, <2>6
<1>2. QED
  BY <1>1, DocumentInvariant, PTL

-----------------------------------------------------------------------------
(* Induction, and the functions defined by recursion. *)

\* Induction: a set of numbers with 0 and every successor has them all.
LEMMA AllNumbers ==
  ASSUME NEW S \in SUBSET Nat, 0 \in S, \A n \in S : n + 1 \in S
  PROVE  S = Nat
<1> SUFFICES ASSUME Nat \ S # {} PROVE FALSE
  OBVIOUS
<1>1. PICK i \in Nat \ S : \A j \in Nat \ S : i <= j
  BY FirstOf
<1>2. i # 0 /\ i - 1 \in Nat /\ ~(i <= i - 1)
  BY <1>1
<1>3. i - 1 \in S
  BY <1>1, <1>2
<1>4. QED
  BY <1>1, <1>3

\* A function defined by recursion on the first n numbers: what it is at 0,
\* and at every number after that.
Recursive(f, base, F, n) ==
    f[0] = base /\ \A i \in 1..n : f[i] = F[<<i, f[i - 1]>>]

\* For every n there is a function into X that is base at 0 and, after that, F
\* of what it was before.
LEMMA Recursion ==
  ASSUME NEW X, NEW F \in [Nat \X X -> X], NEW base \in X, NEW n \in Nat
  PROVE  \E f \in [0..n -> X] : Recursive(f, base, F, n)
<1> DEFINE Ok(m) == \E f \in [0..m -> X] :
              f[0] = base /\ \A i \in 1..m : f[i] = F[<<i, f[i - 1]>>]
           S == {m \in Nat : Ok(m)}
<1>1. Ok(0)
  <2> DEFINE f == [i \in 0..0 |-> base]
  <2>1. f \in [0..0 -> X] /\ f[0] = base /\ 1..0 = {}
    OBVIOUS
  <2>2. QED
    BY <2>1
<1>2. ASSUME NEW m \in Nat, Ok(m) PROVE Ok(m + 1)
  <2>1. PICK f \in [0..m -> X] :
               f[0] = base /\ \A i \in 1..m : f[i] = F[<<i, f[i - 1]>>]
    BY <1>2
  <2> DEFINE g == [i \in 0..(m + 1) |-> IF i = m + 1 THEN F[<<m + 1, f[m]>>] ELSE f[i]]
  <2>2. f[m] \in X /\ F[<<m + 1, f[m]>>] \in X
    BY <2>1
  <2>3. \A i \in 0..(m + 1) : i # m + 1 => i \in 0..m
    OBVIOUS
  <2>4. g \in [0..(m + 1) -> X]
    BY <2>2, <2>3
  <2>5. g[0] = base
    BY <2>1
  <2>6. ASSUME NEW i \in 1..(m + 1) PROVE g[i] = F[<<i, g[i - 1]>>]
    <3>1. i - 1 \in 0..m /\ i - 1 # m + 1 /\ i - 1 \in 0..(m + 1) /\ i \in 0..(m + 1)
      OBVIOUS
    <3>2. g[i - 1] = f[i - 1]
      BY <3>1
    <3>3. CASE i = m + 1
      BY <3>1, <3>2, <3>3
    <3>4. CASE i # m + 1
      <4>1. i \in 1..m
        BY <3>4
      <4>2. g[i] = f[i]
        BY <3>1, <3>4
      <4>3. QED
        BY <4>1, <4>2, <3>2, <2>1
    <3>5. QED
      BY <3>3, <3>4
  <2> HIDE DEF g
  <2>7. QED
    BY <2>4, <2>5, <2>6
<1> HIDE DEF Ok
<1>3. S \in SUBSET Nat /\ 0 \in S /\ \A m \in S : m + 1 \in S
  BY <1>1, <1>2
<1>4. S = Nat
  <2> HIDE DEF S
  <2>1. QED
    BY <1>3, AllNumbers
<1>5. Ok(n)
  BY <1>4
<1>6. QED
  BY <1>5 DEF Ok, Recursive

\* What FlattenSeq makes of a sequence of sequences, one after the other.
LEMMA Flattened ==
  ASSUME NEW X, NEW s \in Seq(Seq(X))
  PROVE  \E f \in [0..Len(s) -> Seq(X)] :
            /\ f[0] = <<>> /\ \A i \in 1..Len(s) : f[i] = f[i - 1] \o s[i]
            /\ FlattenSeq(s) = f[Len(s)]
<1> DEFINE n == Len(s)
           F == [p \in Nat \X Seq(X) |-> IF p[1] \in 1..n THEN p[2] \o s[p[1]] ELSE p[2]]
<1>1. n \in Nat /\ (\A i \in 1..n : s[i] \in Seq(X)) /\ <<>> \in Seq(X)
  OBVIOUS
<1>2. F \in [Nat \X Seq(X) -> Seq(X)]
  <2>1. \A p \in Nat \X Seq(X) : p[2] \in Seq(X) /\ (p[1] \in 1..n => p[2] \o s[p[1]] \in Seq(X))
    BY <1>1
  <2> HIDE DEF n
  <2>2. QED
    BY <2>1
<1> HIDE DEF n, F
<1>3. PICK f \in [0..n -> Seq(X)] :
              f[0] = <<>> /\ \A i \in 1..n : f[i] = F[<<i, f[i - 1]>>]
  <2> DEFINE base == <<>>
             Y == Seq(X)
  <2>1. base \in Y /\ F \in [Nat \X Y -> Y] /\ n \in Nat
    BY <1>1, <1>2
  <2> HIDE DEF base, Y
  <2>2. \E f \in [0..n -> Y] : Recursive(f, base, F, n)
    BY <2>1, Recursion
  <2>3. QED
    BY <2>2 DEF base, Y, Recursive
<1>4. \A i \in 1..n : f[i] = f[i - 1] \o s[i]
  <2> SUFFICES ASSUME NEW i \in 1..n PROVE f[i] = f[i - 1] \o s[i]
    OBVIOUS
  <2>1. i \in Nat /\ i - 1 \in 0..n /\ f[i - 1] \in Seq(X)
    BY <1>1
  <2>2. F[<<i, f[i - 1]>>] = f[i - 1] \o s[i]
    BY <2>1 DEF F
  <2>3. QED
    BY <1>3, <2>2
<1>5. CASE n = 0
  <2>1. s = <<>> /\ FlattenSeq(s) = s
    BY <1>5 DEF FlattenSeq, n
  <2>2. QED
    BY <1>3, <1>4, <1>5, <2>1 DEF n
<1>6. CASE n # 0
  <2> DEFINE Def(g) == g = [i \in 1..n |-> IF i = 1 THEN s[i] ELSE g[i - 1] \o s[i]]
             c == CHOOSE g : Def(g)
             h == [i \in 1..n |-> f[i]]
  <2>1. FlattenSeq(s) = c[n]
    BY <1>1, <1>6 DEF FlattenSeq, n
  <2> HIDE DEF c, Def
  <2>2. Def(h)
    <3>1. ASSUME NEW i \in 1..n
          PROVE  h[i] = IF i = 1 THEN s[i] ELSE h[i - 1] \o s[i]
      <4>1. h[i] = f[i - 1] \o s[i] /\ s[i] \in Seq(X)
        BY <1>1, <1>4
      <4>2. CASE i = 1
        <5>1. <<>> \o s[1] = s[1]
          BY <1>1, <4>2, ConcatEmptySeq
        <5>2. i - 1 = 0
          BY <4>2
        <5>3. QED
          BY <1>3, <4>1, <4>2, <5>1, <5>2
      <4>3. CASE i # 1
        <5>1. i - 1 \in 1..n
          BY <1>1, <4>3
        <5>2. h[i - 1] = f[i - 1]
          BY <5>1
        <5>3. QED
          BY <4>1, <4>3, <5>2
      <4>4. QED
        BY <4>2, <4>3
    <3>2. h = [i \in 1..n |-> h[i]]
      OBVIOUS
    <3> HIDE DEF h
    <3>3. QED
      BY <3>1, <3>2 DEF Def
  <2>3. Def(c)
    BY <2>2 DEF c
  <2>4. \A i \in 1..n : c[i] = IF i = 1 THEN s[i] ELSE c[i - 1] \o s[i]
    BY <2>3 DEF Def
  <2> DEFINE S == {i \in Nat : i + 1 \in 1..n => c[i + 1] = f[i + 1]}
  <2>5. 0 \in S
    <3> DEFINE k == 0 + 1
    <3>1. k = 1 /\ k \in 1..n /\ k - 1 = 0
      BY <1>1, <1>6
    <3> HIDE DEF k
    <3>2. <<>> \o s[k] = s[k]
      BY <1>1, <3>1, ConcatEmptySeq
    <3>3. f[k] = f[k - 1] \o s[k] /\ c[k] = s[k]
      BY <1>4, <2>4, <3>1
    <3>4. c[k] = f[k]
      BY <1>3, <3>1, <3>2, <3>3
    <3>5. QED
      BY <3>4 DEF k
  <2>6. ASSUME NEW i \in S PROVE i + 1 \in S
    <3> SUFFICES ASSUME i + 1 + 1 \in 1..n PROVE c[i + 1 + 1] = f[i + 1 + 1]
      OBVIOUS
    <3>1. /\ i \in Nat /\ i + 1 \in 1..n /\ i + 1 + 1 # 1 /\ i + 1 + 1 - 1 = i + 1
          /\ c[i + 1] = f[i + 1]
      BY <1>1
    <3> DEFINE k == i + 1 + 1
    <3>2. k \in 1..n /\ k # 1 /\ k - 1 = i + 1
      BY <3>1
    <3> HIDE DEF k
    <3>3. c[k] = c[i + 1] \o s[k] /\ f[k] = f[i + 1] \o s[k]
      BY <1>4, <2>4, <3>2
    <3>4. QED
      BY <3>1, <3>3 DEF k
  <2>7. S = Nat
    <3> HIDE DEF S
    <3>1. QED
      BY <2>5, <2>6, AllNumbers DEF S
  <2>8. n - 1 \in S
    <3>1. n - 1 \in Nat
      BY <1>1, <1>6
    <3> HIDE DEF S
    <3>2. QED
      BY <2>7, <3>1
  <2>9. c[n] = f[n]
    <3>1. n - 1 + 1 = n /\ n \in 1..n
      BY <1>1, <1>6
    <3>2. QED
      BY <2>8, <3>1
  <2>10. QED
    BY <1>3, <1>4, <2>1, <2>9 DEF n
<1>7. QED
  BY <1>5, <1>6 DEF n

\* A scan that is in X at the start and stays there is a function into X.
ScanIn(X, c, base, F, n) ==
    /\ c = [i \in 0..n |-> c[i]] /\ c[0] = base
    /\ \A i \in 1..n : c[i - 1] \in X => c[i] = F[<<i, c[i - 1]>>]

\* What ScanIn says of a scan at its defined places holds at all of them:
\* the scan never leaves X.
LEMMA Scanned ==
  ASSUME NEW X, NEW base \in X, NEW F \in [Nat \X X -> X], NEW n \in Nat,
         NEW c, ScanIn(X, c, base, F, n)
  PROVE  c \in [0..n -> X] /\ \A i \in 1..n : c[i] = F[<<i, c[i - 1]>>]
<1> USE DEF ScanIn
<1> DEFINE S == {i \in Nat : i \in 0..n => c[i] \in X}
<1>1. 0 \in S
  OBVIOUS
<1>2. ASSUME NEW i \in S PROVE i + 1 \in S
  <2> DEFINE k == i + 1
  <2> SUFFICES ASSUME k \in 0..n PROVE c[k] \in X
    OBVIOUS
  <2>1. k \in 1..n /\ k \in Nat /\ k - 1 = i /\ i \in 0..n
    OBVIOUS
  <2> HIDE DEF k
  <2>2. c[k - 1] \in X /\ <<k, c[k - 1]>> \in Nat \X X
    BY <2>1
  <2>3. QED
    BY <2>1, <2>2
<1>3. S = Nat
  <2> HIDE DEF S
  <2>1. QED
    BY <1>1, <1>2, AllNumbers DEF S
<1>4. \A i \in 0..n : c[i] \in X
  BY <1>3
<1>5. \A i \in 1..n : i - 1 \in 0..n
  OBVIOUS
<1>6. QED
  BY <1>4, <1>5

\* The lines of a text over A are texts over A.
LEMMA LinesTyped ==
  ASSUME NEW A, NEW t \in Seq(A)
  PROVE  Lines(t) \in Seq(Seq(A))
<1> DEFINE X == Seq(Seq(A)) \ {<<>>}
           n == Len(t)
           Op(ls, a) == IF a = Nl THEN Append(ls, <<>>) ELSE Front(ls) \o <<Append(Last(ls), a)>>
           F == [p \in Nat \X X |-> IF p[1] \in 1..n THEN Op(p[2], t[p[1]]) ELSE p[2]]
           base == << <<>> >>
           Def(f) == f = [i \in 0..n |-> IF i = 0 THEN base ELSE Op(f[i - 1], t[i])]
           c == CHOOSE f : Def(f)
<1>1. Lines(t) = c[n]
  BY DEF Lines, Scan
<1> HIDE DEF c, Def
<1>2. base \in X /\ n \in Nat /\ \A i \in 1..n : t[i] \in A
  OBVIOUS
<1>3. F \in [Nat \X X -> X]
  <2>1. ASSUME NEW ls \in X, NEW a \in A PROVE Op(ls, a) \in X
    <3>1. ls \in Seq(Seq(A)) /\ ls # <<>>
      OBVIOUS
    <3>2. CASE a = Nl
      <4> DEFINE none == <<>>
                 Y == Seq(A)
                 z == Append(ls, none)
      <4>1. none \in Y /\ ls \in Seq(Y)
        BY <3>1
      <4> HIDE DEF none, Y
      <4>2. z \in Seq(Y) /\ z # <<>>
        BY <4>1, Appended
      <4> HIDE DEF z
      <4>3. z \in X
        BY <4>2 DEF Y
      <4>4. QED
        BY <3>2, <4>3 DEF z, none
    <3>3. CASE a # Nl
      <4>1. Front(ls) \in Seq(Seq(A)) /\ Last(ls) \in Seq(A)
        <5>1. Front(ls) \in Seq(Seq(A)) /\ Last(ls) = ls[Len(ls)] /\ Len(ls) \in 1..Len(ls)
          BY <3>1, FrontOf
        <5>2. QED
          BY <3>1, <5>1
      <4>2. Append(Last(ls), a) \in Seq(A)
        BY <4>1
      <4> DEFINE e == Append(Last(ls), a)
                 f == Front(ls)
      <4> HIDE DEF e, f
      <4>3. <<e>> \in Seq(Seq(A)) /\ Len(<<e>>) = 1 /\ f \in Seq(Seq(A))
        BY <4>1, <4>2 DEF e, f
      <4>4. f \o <<e>> \in Seq(Seq(A)) /\ f \o <<e>> # <<>>
        BY <4>3
      <4>5. QED
        BY <3>3, <4>4 DEF e, f
    <3>4. QED
      BY <3>2, <3>3
  <2> HIDE DEF Op, X
  <2>2. \A p \in Nat \X X : p[2] \in X /\ (p[1] \in 1..n => Op(p[2], t[p[1]]) \in X)
    BY <1>2, <2>1
  <2> HIDE DEF n
  <2>3. QED
    BY <2>2
<1> HIDE DEF F, X, base, n, Op
<1>4. PICK f \in [0..n -> X] : Recursive(f, base, F, n)
  BY <1>2, <1>3, Recursion
<1>5. Def(f)
  <2>1. ASSUME NEW i \in 1..n PROVE f[i] = Op(f[i - 1], t[i])
    <3>1. i \in Nat /\ i - 1 \in 0..n /\ f[i - 1] \in X
      BY <1>2
    <3>2. F[<<i, f[i - 1]>>] = Op(f[i - 1], t[i])
      BY <3>1 DEF F
    <3>3. QED
      BY <1>4, <3>2 DEF Recursive
  <2>2. \A i \in 0..n : f[i] = IF i = 0 THEN base ELSE Op(f[i - 1], t[i])
    BY <1>2, <1>4, <2>1 DEF Recursive
  <2>3. QED
    BY <2>2 DEF Def
<1>6. Def(c)
  BY <1>5 DEF c
<1>7. c \in [0..n -> X]
  <2>1. c = [i \in 0..n |-> c[i]] /\ c[0] = base
        /\ \A i \in 1..n : c[i] = Op(c[i - 1], t[i])
    BY <1>2, <1>6 DEF Def
  <2>2. ASSUME NEW i \in 1..n, c[i - 1] \in X
        PROVE  c[i] = F[<<i, c[i - 1]>>]
    <3>1. <<i, c[i - 1]>> \in Nat \X X
      BY <1>2, <2>2
    <3>2. F[<<i, c[i - 1]>>] = Op(c[i - 1], t[i])
      BY <3>1 DEF F
    <3>3. QED
      BY <2>1, <3>2
  <2>3. ScanIn(X, c, base, F, n)
    BY <2>1, <2>2 DEF ScanIn
  <2>4. QED
    BY <1>2, <1>3, <2>3, Scanned
<1>8. QED
  BY <1>1, <1>2, <1>7 DEF X

-----------------------------------------------------------------------------
(* FlattenSeq, and texts that differ in their words only. *)

\* FlattenSeq of a sequence with one more piece: that piece comes last.
LEMMA FlattenAppended ==
  ASSUME NEW X, NEW s \in Seq(Seq(X)), NEW e \in Seq(X)
  PROVE  /\ FlattenSeq(s) \in Seq(X)
         /\ FlattenSeq(Append(s, e)) = FlattenSeq(s) \o e
<1> DEFINE n == Len(s)
           u == Append(s, e)
<1>1. /\ n \in Nat /\ u \in Seq(Seq(X)) /\ Len(u) = n + 1
      /\ (\A i \in 1..n : u[i] = s[i]) /\ u[n + 1] = e
  BY Appended
<1>2. PICK f \in [0..n -> Seq(X)] :
         /\ f[0] = <<>> /\ \A i \in 1..n : f[i] = f[i - 1] \o s[i]
         /\ FlattenSeq(s) = f[n]
  BY Flattened
<1> HIDE DEF u
<1>3. PICK g \in [0..(n + 1) -> Seq(X)] :
         /\ g[0] = <<>> /\ \A i \in 1..(n + 1) : g[i] = g[i - 1] \o u[i]
         /\ FlattenSeq(u) = g[n + 1]
  <2>1. \E g \in [0..Len(u) -> Seq(X)] :
         /\ g[0] = <<>> /\ \A i \in 1..Len(u) : g[i] = g[i - 1] \o u[i]
         /\ FlattenSeq(u) = g[Len(u)]
    BY <1>1, Flattened
  <2>2. QED
    BY <1>1, <2>1
<1> HIDE DEF n
<1> DEFINE S == {i \in Nat : i \in 0..n => f[i] = g[i]}
<1>4. 0 \in S
  BY <1>2, <1>3
<1>5. ASSUME NEW i \in S PROVE i + 1 \in S
  <2> DEFINE k == i + 1
  <2> SUFFICES ASSUME k \in 0..n PROVE f[k] = g[k]
    OBVIOUS
  <2>1. k \in 1..n /\ k \in 1..(n + 1) /\ k - 1 = i /\ i \in 0..n
    BY <1>1
  <2> HIDE DEF k
  <2>2. f[k - 1] = g[k - 1] /\ u[k] = s[k]
    BY <1>1, <2>1
  <2>3. QED
    BY <1>2, <1>3, <2>1, <2>2
<1>6. S = Nat
  <2> HIDE DEF S
  <2>1. QED
    BY <1>4, <1>5, AllNumbers DEF S
<1>7. f[n] = g[n]
  BY <1>1, <1>6
<1>8. g[n + 1] = g[n] \o u[n + 1]
  <2> DEFINE k == n + 1
  <2>1. k \in 1..(n + 1) /\ k - 1 = n
    BY <1>1
  <2> HIDE DEF k
  <2>2. g[k] = g[n] \o u[k]
    BY <1>3, <2>1
  <2>3. QED
    BY <2>2 DEF k
<1>9. QED
  BY <1>1, <1>2, <1>3, <1>7, <1>8 DEF n, u

\* An atom is akin to another when they are the same, or both words or code:
\* then neither is a number, the first is no full-width mark, and it is the
\* half-width stop for the full-width one only.
Akin(a, b) ==
    \/ a = b
    \/ /\ a \in Words /\ (b \in Words \/ b[1] = "INLINE_CODE")
       /\ a[1] \notin {"num", "full"} /\ b[1] # "num"
       /\ b # Stop /\ (a = Stop => b = Full(0))
Alike(t, s) == Len(t) = Len(s) /\ \A i \in 1..Len(s) : Akin(t[i], s[i])

\* Texts joined of alike texts are alike.
LEMMA AlikeJoined ==
  ASSUME NEW X, NEW s \in Seq(X), NEW t \in Seq(X), NEW u \in Seq(X), NEW v \in Seq(X),
         Alike(s, t), Alike(u, v)
  PROVE  Alike(s \o u, t \o v)
<1>1. /\ Len(s) \in Nat /\ Len(u) \in Nat /\ Len(s) = Len(t) /\ Len(u) = Len(v)
      /\ \A i \in 1..Len(s) : Akin(s[i], t[i])
      /\ \A i \in 1..Len(u) : Akin(u[i], v[i])
  BY DEF Alike
<1> DEFINE m == Len(s)
           n == Len(u)
           p == s \o u
           q == t \o v
<1>2. /\ Len(p) = m + n /\ Len(q) = m + n
      /\ \A i \in 1..(m + n) : /\ p[i] = IF i <= m THEN s[i] ELSE u[i - m]
                               /\ q[i] = IF i <= m THEN t[i] ELSE v[i - m]
  <2>1. /\ Len(p) = Len(s) + Len(u)
        /\ \A i \in 1..(Len(s) + Len(u)) : p[i] = IF i <= Len(s) THEN s[i] ELSE u[i - Len(s)]
    BY ConcatProperties
  <2>2. /\ Len(q) = Len(t) + Len(v)
        /\ \A i \in 1..(Len(t) + Len(v)) : q[i] = IF i <= Len(t) THEN t[i] ELSE v[i - Len(t)]
    BY ConcatProperties
  <2> HIDE DEF p, q
  <2>3. QED
    BY <1>1, <2>1, <2>2
<1> HIDE DEF m, n, p, q
<1>3. ASSUME NEW i \in 1..(m + n) PROVE Akin(p[i], q[i])
  <2>1. m \in Nat /\ n \in Nat
    BY <1>1 DEF m, n
  <2>2. CASE i <= m
    <3>1. p[i] = s[i] /\ q[i] = t[i] /\ i \in 1..m
      BY <1>2, <2>1, <2>2
    <3>2. QED
      BY <1>1, <3>1 DEF m
  <2>3. CASE ~(i <= m)
    <3>1. p[i] = u[i - m] /\ q[i] = v[i - m] /\ i - m \in 1..n
      BY <1>2, <2>1, <2>3
    <3>2. QED
      BY <1>1, <3>1 DEF n
  <2>4. QED
    BY <2>2, <2>3
<1>4. QED
  BY <1>2, <1>3 DEF Alike, p, q

AlikePieces(s, u) == Len(s) = Len(u) /\ \A i \in 1..Len(s) : Alike(s[i], u[i])

\* So are texts flattened of alike pieces.
LEMMA FlattenAlike ==
  ASSUME NEW X, NEW s \in Seq(Seq(X)), NEW u \in Seq(Seq(X)), AlikePieces(s, u)
  PROVE  Alike(FlattenSeq(s), FlattenSeq(u))
<1> DEFINE n == Len(s)
<1>1. /\ n \in Nat /\ Len(u) = n
      /\ \A i \in 1..n : s[i] \in Seq(X) /\ u[i] \in Seq(X) /\ Alike(s[i], u[i])
  BY DEF AlikePieces
<1>2. PICK f \in [0..n -> Seq(X)] :
         /\ f[0] = <<>> /\ \A i \in 1..n : f[i] = f[i - 1] \o s[i]
         /\ FlattenSeq(s) = f[n]
  BY Flattened
<1>3. PICK g \in [0..n -> Seq(X)] :
         /\ g[0] = <<>> /\ \A i \in 1..n : g[i] = g[i - 1] \o u[i]
         /\ FlattenSeq(u) = g[n]
  <2>1. \E g \in [0..Len(u) -> Seq(X)] :
         /\ g[0] = <<>> /\ \A i \in 1..Len(u) : g[i] = g[i - 1] \o u[i]
         /\ FlattenSeq(u) = g[Len(u)]
    BY Flattened
  <2> HIDE DEF n
  <2>2. QED
    BY <1>1, <2>1
<1> HIDE DEF n
<1> DEFINE S == {i \in Nat : i \in 0..n => Alike(f[i], g[i])}
<1>4. 0 \in S
  <2>1. Alike(<<>>, <<>>)
    BY DEF Alike
  <2>2. QED
    BY <1>2, <1>3, <2>1
<1>5. ASSUME NEW i \in S PROVE i + 1 \in S
  <2> DEFINE k == i + 1
  <2> SUFFICES ASSUME k \in 0..n PROVE Alike(f[k], g[k])
    OBVIOUS
  <2>1. k \in 1..n /\ k - 1 = i /\ i \in 0..n
    BY <1>1
  <2> HIDE DEF k
  <2>2. /\ Alike(f[k - 1], g[k - 1]) /\ Alike(s[k], u[k])
        /\ f[k - 1] \in Seq(X) /\ g[k - 1] \in Seq(X) /\ s[k] \in Seq(X) /\ u[k] \in Seq(X)
    BY <1>1, <2>1
  <2>3. Alike(f[k - 1] \o s[k], g[k - 1] \o u[k])
    BY <2>2, AlikeJoined
  <2>4. QED
    BY <1>2, <1>3, <2>1, <2>3
<1>6. S = Nat
  <2> HIDE DEF S
  <2>1. QED
    BY <1>4, <1>5, AllNumbers DEF S
<1>7. Alike(f[n], g[n])
  <2>1. n \in S
    <3> HIDE DEF S
    <3>1. QED
      BY <1>1, <1>6
  <2>2. QED
    BY <2>1
<1>8. QED
  BY <1>2, <1>3, <1>7

-----------------------------------------------------------------------------
(* Code stashed is code restored. *)

\* What Restore puts for an atom.
Piece(a, B) == IF a[1] \in {"CODE_BLOCK", "INLINE_CODE"} THEN B[a[2] + 1] ELSE <<a>>
Restorable(K, A, B) == \A a \in K : Piece(a, B) \in Seq(A)

\* Restore replaces every atom by its piece and joins the pieces.
LEMMA PiecesTyped ==
  ASSUME NEW K, NEW A, NEW B, Restorable(K, A, B), NEW t \in Seq(K)
  PROVE  LET pieces == [i \in DOMAIN t |-> Piece(t[i], B)]
         IN  /\ pieces \in Seq(Seq(A)) /\ Len(pieces) = Len(t)
             /\ \A i \in 1..Len(t) : pieces[i] = Piece(t[i], B)
             /\ Restore(t, B) = FlattenSeq(pieces) /\ Restore(t, B) \in Seq(A)
<1> DEFINE n == Len(t)
           pieces == [i \in DOMAIN t |-> Piece(t[i], B)]
<1>1. n \in Nat /\ DOMAIN t = 1..n /\ \A i \in 1..n : Piece(t[i], B) \in Seq(A)
  BY DEF Restorable
<1>2. pieces \in [1..n -> Seq(A)] /\ \A i \in 1..n : pieces[i] = Piece(t[i], B)
  <2> HIDE DEF n
  <2>1. QED
    BY <1>1
<1>3. pieces \in Seq(Seq(A)) /\ Len(pieces) = n
  <2> HIDE DEF pieces, n
  <2>1. pieces \in Seq(Seq(A))
    BY <1>1, <1>2, SeqDef
  <2>2. QED
    BY <1>1, <1>2, <2>1
<1>4. Restore(t, B) = FlattenSeq(pieces)
  BY DEF Restore, Piece
<1>5. FlattenSeq(pieces) \in Seq(A)
  <2> HIDE DEF pieces
  <2>1. PICK f \in [0..Len(pieces) -> Seq(A)] : FlattenSeq(pieces) = f[Len(pieces)]
    BY <1>3, Flattened
  <2>2. QED
    BY <1>1, <1>3, <2>1
<1>6. QED
  BY <1>2, <1>3, <1>4, <1>5

\* Restore goes through the text atom by atom.
LEMMA RestoreAppended ==
  ASSUME NEW K, NEW A, NEW B, Restorable(K, A, B), NEW t \in Seq(K), NEW a \in K
  PROVE  Restore(Append(t, a), B) = Restore(t, B) \o Piece(a, B)
<1> DEFINE n == Len(t)
           u == Append(t, a)
           p == [i \in DOMAIN t |-> Piece(t[i], B)]
           q == [i \in DOMAIN u |-> Piece(u[i], B)]
<1>1. /\ u \in Seq(K) /\ Len(u) = n + 1 /\ (\A i \in 1..n : u[i] = t[i]) /\ u[n + 1] = a
      /\ n \in Nat /\ Piece(a, B) \in Seq(A)
  BY Appended DEF Restorable
<1>2. /\ p \in Seq(Seq(A)) /\ Len(p) = n /\ (\A i \in 1..n : p[i] = Piece(t[i], B))
      /\ Restore(t, B) = FlattenSeq(p)
  BY PiecesTyped
<1> HIDE DEF u
<1>3. /\ q \in Seq(Seq(A)) /\ Len(q) = n + 1 /\ (\A i \in 1..(n + 1) : q[i] = Piece(u[i], B))
      /\ Restore(u, B) = FlattenSeq(q)
  <2>0. u \in Seq(K)
    BY <1>1
  <2>1. /\ q \in Seq(Seq(A)) /\ Len(q) = Len(u) /\ (\A i \in 1..Len(u) : q[i] = Piece(u[i], B))
        /\ Restore(u, B) = FlattenSeq(q)
    BY <2>0, PiecesTyped
  <2> HIDE DEF q, n
  <2>2. QED
    BY <1>1, <2>1
<1> HIDE DEF p, q, n
<1> DEFINE r == Append(p, Piece(a, B))
<1>4. q = r
  <2>1. /\ r \in Seq(Seq(A)) /\ Len(r) = n + 1 /\ (\A i \in 1..n : r[i] = p[i])
        /\ r[n + 1] = Piece(a, B)
    BY <1>1, <1>2, Appended
  <2> HIDE DEF r
  <2>2. ASSUME NEW i \in 1..(n + 1) PROVE q[i] = r[i]
    <3>1. CASE i = n + 1
      BY <1>1, <1>3, <2>1, <3>1
    <3>2. CASE i # n + 1
      <4>1. i \in 1..n
        BY <1>1, <3>2
      <4>2. QED
        BY <1>1, <1>2, <1>3, <2>1, <4>1
    <3>3. QED
      BY <3>1, <3>2
  <2>3. QED
    BY <1>1, <1>3, <2>1, <2>2, SeqEqual
<1>5. FlattenSeq(r) = FlattenSeq(p) \o Piece(a, B)
  BY <1>1, <1>2, FlattenAppended
<1>6. QED
  BY <1>2, <1>3, <1>4, <1>5 DEF u

SamePieces(t, B, u, C) ==
    DOMAIN t = DOMAIN u /\ \A i \in DOMAIN t : Piece(t[i], B) = Piece(u[i], C)

\* Two texts with the same pieces are restored to the same text.
LEMMA RestoreSame ==
  ASSUME NEW t, NEW B, NEW u, NEW C, SamePieces(t, B, u, C)
  PROVE  Restore(t, B) = Restore(u, C)
<1>1. [i \in DOMAIN t |-> Piece(t[i], B)] = [i \in DOMAIN u |-> Piece(u[i], C)]
  BY DEF SamePieces
<1>2. QED
  BY <1>1 DEF Restore, Piece

\* What u adds to the text t is restored as it is.
Kept(t, u, B) == Restore(t \o u, B) = Restore(t, B) \o u

\* What is not a placeholder is restored as it is.
LEMMA RestorePlain ==
  ASSUME NEW K, NEW A, NEW B, Restorable(K, A, B), NEW t \in Seq(K),
         A \subseteq K, A \subseteq Atoms, NEW u \in Seq(A)
  PROVE  Kept(t, u, B)
<1> DEFINE n == Len(u)
           S == {m \in Nat : m \in 0..n =>
                   Restore(t \o SubSeq(u, 1, m), B) = Restore(t, B) \o SubSeq(u, 1, m)}
<1>1. n \in Nat /\ Restore(t, B) \in Seq(A) /\ u \in Seq(K)
  <2>1. Restore(t, B) \in Seq(A)
    BY PiecesTyped
  <2>2. u \in Seq(K)
    BY SeqMonotonic
  <2>3. QED
    BY <2>1, <2>2
<1>2. 0 \in S
  <2>1. SubSeq(u, 1, 0) = <<>>
    BY SubSeqEmpty
  <2>2. t \o <<>> = t /\ Restore(t, B) \o <<>> = Restore(t, B)
    BY <1>1, ConcatEmptySeq
  <2>3. QED
    BY <2>1, <2>2
<1>3. ASSUME NEW m \in S PROVE m + 1 \in S
  <2> DEFINE k == m + 1
             v == SubSeq(u, 1, m)
  <2> SUFFICES ASSUME k \in 0..n
               PROVE  Restore(t \o SubSeq(u, 1, k), B) = Restore(t, B) \o SubSeq(u, 1, k)
    OBVIOUS
  <2>1. /\ k \in 1..n /\ k - 1 = m /\ m \in Nat /\ m \in 0..n /\ 1 \in 1..Len(u) /\ k \in 1..Len(u)
        /\ Restore(t \o v, B) = Restore(t, B) \o v
    BY <1>1
  <2> HIDE DEF k, S
  <2>2. u[k] \in A /\ SubSeq(u, 1, k) = v \o <<u[k]>> /\ v \in Seq(A)
    <3>1. u[k] \in A
      BY <2>1
    <3>2. SubSeq(u, 1, k) = SubSeq(u, 1, k - 1) \o <<u[k]>>
      BY <2>1, SubSeqRecursiveSecond
    <3>3. \A i \in 1..m : u[i] \in A
      BY <1>1, <2>1
    <3>4. v \in Seq(A)
      <4>1. 1 \in Int /\ m \in Int
        BY <2>1
      <4>2. QED
        BY <3>3, <4>1, SubSeqProperties
    <3>5. QED
      BY <2>1, <3>1, <3>2, <3>4
  <2> HIDE DEF v, n
  <2> DEFINE a == u[k]
             w == t \o v
  <2>3. a \in A /\ a \in K /\ w \in Seq(K) /\ v \in Seq(K)
    BY <2>2, SeqMonotonic
  <2>4. Piece(a, B) = <<a>>
    BY <2>3 DEF Piece, Atoms, MarkKinds, WordKinds
  <2> HIDE DEF w
  <2>5. Restore(Append(w, a), B) = Restore(w, B) \o <<a>>
    BY <2>3, <2>4, RestoreAppended
  <2>6. Append(w, a) = t \o (v \o <<a>>)
    <3>1. <<a>> \in Seq(K)
      BY <2>3
    <3>2. Append(w, a) = w \o <<a>>
      BY <2>3, AppendIsConcat
    <3>3. (t \o v) \o <<a>> = t \o (v \o <<a>>)
      <4> DEFINE one == <<a>>
      <4>1. one \in Seq(K)
        BY <3>1
      <4> HIDE DEF one
      <4>2. Grouped(K)
        BY Regrouped
      <4>3. (t \o v) \o one = t \o (v \o one)
        BY <2>3, <4>1, <4>2 DEF Grouped
      <4>4. QED
        BY <4>3 DEF one
    <3>4. QED
      BY <3>2, <3>3 DEF w
  <2>7. (Restore(t, B) \o v) \o <<a>> = Restore(t, B) \o (v \o <<a>>)
    <3>1. Restore(t, B) \in Seq(A) /\ v \in Seq(A) /\ <<a>> \in Seq(A)
      BY <1>1, <2>2, <2>3
    <3>2. Grouped(A)
      BY Regrouped
    <3>3. QED
      BY <3>1, <3>2 DEF Grouped
  <2>8. QED
    BY <2>1, <2>2, <2>5, <2>6, <2>7 DEF w
<1>4. n \in S
  <2>1. S = Nat
    <3> HIDE DEF S
    <3>1. QED
      BY <1>2, <1>3, AllNumbers DEF S
  <2> HIDE DEF S
  <2>2. QED
    BY <1>1, <2>1
<1>5. SubSeq(u, 1, n) = u
  BY SubSeqFull
<1>6. Restore(t \o SubSeq(u, 1, n), B) = Restore(t, B) \o SubSeq(u, 1, n)
  <2>1. n \in 0..n
    BY <1>1
  <2> HIDE DEF n
  <2>2. QED
    BY <1>4, <2>1
<1>7. QED
  BY <1>5, <1>6 DEF Kept

-----------------------------------------------------------------------------
(* Fenced blocks. *)

Fenced(A, m) == A \cup ({"CODE_BLOCK"} \X (0..(m - 1)))
FenceStates(A) ==
    {s \in [text : Seq(A \cup ({"CODE_BLOCK"} \X Nat)), blocks : Seq(Seq(A)), block : Seq(A)] :
        s.text \in Seq(Fenced(A, Len(s.blocks)))}
\* The text a state of the scan stands for.
Whole(s) == Restore(s.text, s.blocks) \o s.block

\* Every key of a block that was stashed stands for that block.
LEMMA FencedRestorable ==
  ASSUME NEW A, A \subseteq Atoms, NEW B \in Seq(Seq(A))
  PROVE  Restorable(Fenced(A, Len(B)), A, B)
<1> SUFFICES ASSUME NEW a \in Fenced(A, Len(B)) PROVE Piece(a, B) \in Seq(A)
  BY DEF Restorable
<1>1. CASE a \in A
  <2>1. Piece(a, B) = <<a>>
    BY <1>1 DEF Piece, Atoms, MarkKinds, WordKinds
  <2>2. QED
    BY <1>1, <2>1
<1>2. CASE a \notin A
  <2>1. /\ a[1] = "CODE_BLOCK" /\ a[2] \in 0..(Len(B) - 1)
    BY <1>2 DEF Fenced
  <2>2. a[2] + 1 \in 1..Len(B)
    BY <2>1
  <2>3. QED
    BY <2>1, <2>2 DEF Piece
<1>3. QED
  BY <1>1, <1>2

\* An atom more of the source is an atom more of the text a state stands for:
\* the fences lose nothing.
LEMMA FenceStepKeeps ==
  ASSUME NEW A, A \subseteq Atoms, NEW s \in FenceStates(A), NEW a \in A
  PROVE  /\ FenceStep(s, a) \in FenceStates(A)
         /\ Whole(FenceStep(s, a)) = Whole(s) \o <<a>>
<1> DEFINE B == s.blocks
           m == Len(s.blocks)
           R == Restore(s.text, s.blocks)
           z == FenceStep(s, a)
<1>1. /\ s.text \in Seq(Fenced(A, m)) /\ B \in Seq(Seq(A)) /\ s.block \in Seq(A)
      /\ s = [text |-> s.text, blocks |-> s.blocks, block |-> s.block] /\ m \in Nat
  BY DEF FenceStates
<1>2. Restorable(Fenced(A, m), A, B)
  BY <1>1, FencedRestorable
<1>3. R \in Seq(A) /\ <<a>> \in Seq(A) /\ Whole(s) = R \o s.block
  <2>1. R \in Seq(A)
    BY <1>1, <1>2, PiecesTyped
  <2>2. QED
    BY <2>1 DEF Whole
<1>3a. \A n \in Nat : \A u \in Seq(Fenced(A, n)) : u \in Seq(A \cup ({"CODE_BLOCK"} \X Nat))
  <2> SUFFICES ASSUME NEW n \in Nat, NEW u \in Seq(Fenced(A, n))
               PROVE  u \in Seq(A \cup ({"CODE_BLOCK"} \X Nat))
    OBVIOUS
  <2>1. Fenced(A, n) \subseteq A \cup ({"CODE_BLOCK"} \X Nat)
    BY DEF Fenced
  <2>2. QED
    BY <2>1, SeqMonotonic
<1>3b. \A x, y, b : /\ x \in Seq(Seq(A)) /\ b \in Seq(A) /\ y \in Seq(Fenced(A, Len(x)))
                   => [text |-> y, blocks |-> x, block |-> b] \in FenceStates(A)
  <2> SUFFICES ASSUME NEW x \in Seq(Seq(A)), NEW b \in Seq(A), NEW y \in Seq(Fenced(A, Len(x)))
               PROVE  [text |-> y, blocks |-> x, block |-> b] \in FenceStates(A)
    OBVIOUS
  <2>1. y \in Seq(A \cup ({"CODE_BLOCK"} \X Nat))
    BY <1>3a, LenProperties
  <2>2. QED
    BY <2>1 DEF FenceStates
<1>4. CASE a = Fence /\ s.block = <<>>
  <2>1. z = [text |-> s.text, blocks |-> s.blocks, block |-> <<a>>]
    BY <1>1, <1>4 DEF FenceStep
  <2>2. z \in FenceStates(A)
    BY <1>1, <1>3, <1>3b, <2>1
  <2>3. Whole(z) = R \o <<a>>
    BY <2>1 DEF Whole
  <2>4. R \o <<>> = R
    BY <1>3, ConcatEmptySeq
  <2>5. QED
    BY <1>3, <1>4, <2>2, <2>3, <2>4
<1>5. CASE a = Fence /\ s.block # <<>>
  <2> DEFINE k == CodeBlockKey(m)
             b == Append(s.block, a)
             C == Append(B, b)
             y == Append(s.text, k)
  <2>1. z = [text |-> y, blocks |-> C, block |-> <<>>]
    BY <1>1, <1>5 DEF FenceStep
  <2>2. b \in Seq(A) /\ b = s.block \o <<a>>
    BY <1>1, AppendIsConcat
  <2>3. /\ C \in Seq(Seq(A)) /\ Len(C) = m + 1 /\ C[m + 1] = b
        /\ \A i \in 1..m : C[i] = B[i]
    BY <1>1, <2>2, AppendProperties
  <2>4. s.text \in Seq(Fenced(A, m + 1)) /\ k \in Fenced(A, m + 1)
    <3>1. Fenced(A, m) \subseteq Fenced(A, m + 1)
      BY <1>1 DEF Fenced
    <3>2. m \in 0..(m + 1 - 1)
      BY <1>1
    <3>3. k \in Fenced(A, m + 1)
      BY <3>2 DEF Fenced, CodeBlockKey
    <3>4. QED
      BY <1>1, <3>1, <3>3, SeqMonotonic
  <2> HIDE DEF k, b, C, m
  <2>5. y \in Seq(Fenced(A, m + 1))
    BY <2>4
  <2> HIDE DEF y
  <2>6. z \in FenceStates(A)
    <3>1. <<>> \in Seq(A)
      OBVIOUS
    <3>2. QED
      BY <1>3b, <2>1, <2>3, <2>5, <3>1
  <2>7. Restorable(Fenced(A, m + 1), A, C)
    BY <2>3, FencedRestorable
  <2>8. Restore(y, C) = Restore(s.text, C) \o Piece(k, C)
    BY <2>4, <2>7, RestoreAppended DEF y
  <2>9. Piece(k, C) = b
    BY <2>3 DEF Piece, k, CodeBlockKey
  <2>10. Restore(s.text, C) = R
    <3>1. ASSUME NEW e \in Fenced(A, m) PROVE Piece(e, C) = Piece(e, B)
      <4>1. CASE e \in A
        BY <4>1 DEF Piece, Atoms, MarkKinds, WordKinds
      <4>2. CASE e \notin A
        <5>1. e[2] \in 0..(m - 1)
          BY <4>2 DEF Fenced
        <5>2. e[2] + 1 \in 1..m
          BY <1>1, <5>1 DEF m
        <5>3. QED
          BY <2>3, <5>2 DEF Piece
      <4>3. QED
        BY <4>1, <4>2
    <3>2. SamePieces(s.text, C, s.text, B)
      BY <1>1, <3>1 DEF SamePieces
    <3>3. QED
      BY <3>2, RestoreSame
  <2>11. Whole(z) = (R \o b) \o <<>>
    BY <2>1, <2>8, <2>9, <2>10 DEF Whole
  <2>12. R \o b \in Seq(A) /\ (R \o b) \o <<>> = R \o b
    BY <1>3, <2>2, ConcatEmptySeq
  <2>13. (R \o s.block) \o <<a>> = R \o (s.block \o <<a>>)
    <3> DEFINE one == <<a>>
               u == s.block
    <3>1. one \in Seq(A) /\ R \in Seq(A) /\ u \in Seq(A)
      BY <1>1, <1>3
    <3> HIDE DEF one, R, u
    <3>2. Grouped(A)
      BY Regrouped
    <3>3. (R \o u) \o one = R \o (u \o one)
      BY <3>1, <3>2 DEF Grouped
    <3>4. QED
      BY <3>3 DEF one, u
  <2>14. QED
    BY <1>3, <2>2, <2>6, <2>11, <2>12, <2>13
<1>6. CASE a # Fence /\ s.block # <<>>
  <2> DEFINE b == Append(s.block, a)
  <2>1. z = [text |-> s.text, blocks |-> s.blocks, block |-> b]
    BY <1>1, <1>6 DEF FenceStep
  <2>2. b \in Seq(A) /\ b = s.block \o <<a>>
    BY <1>1, AppendIsConcat
  <2> HIDE DEF b
  <2>3. z \in FenceStates(A)
    BY <1>1, <1>3b, <2>1, <2>2
  <2>4. Whole(z) = R \o b
    BY <2>1 DEF Whole
  <2>5. (R \o s.block) \o <<a>> = R \o (s.block \o <<a>>)
    BY <1>1, <1>3, ConcatAssociative
  <2>6. QED
    BY <1>3, <2>2, <2>3, <2>4, <2>5
<1>7. CASE a # Fence /\ s.block = <<>>
  <2> DEFINE y == Append(s.text, a)
  <2>1. z = [text |-> y, blocks |-> s.blocks, block |-> <<>>]
    BY <1>1, <1>7 DEF FenceStep
  <2>2. a \in Fenced(A, m)
    BY DEF Fenced
  <2>3. y \in Seq(Fenced(A, m)) /\ <<>> \in Seq(A)
    BY <1>1, <2>2
  <2>4. Restore(y, B) = R \o Piece(a, B)
    BY <1>1, <1>2, <2>2, RestoreAppended
  <2>5. Piece(a, B) = <<a>>
    BY DEF Piece, Atoms, MarkKinds, WordKinds
  <2> HIDE DEF y
  <2>6. z \in FenceStates(A)
    BY <1>1, <1>3b, <2>1, <2>3
  <2>7. Whole(z) = (R \o <<a>>) \o <<>>
    BY <2>1, <2>4, <2>5 DEF Whole
  <2>8. (R \o <<a>>) \o <<>> = R \o <<a>> /\ R \o <<>> = R
    BY <1>3, ConcatEmptySeq
  <2>9. QED
    BY <1>3, <1>7, <2>6, <2>7, <2>8
<1>8. QED
  BY <1>4, <1>5, <1>6, <1>7

\* Every atom of the text is in the text, the blocks or the open block.
LEMMA FencesStashed ==
  ASSUME NEW A, A \subseteq Atoms, NEW t \in Seq(A)
  PROVE  LET fences == StashFences(t)
         IN  /\ fences.blocks \in Seq(Seq(A))
             /\ fences.text \in Seq(Fenced(A, Len(fences.blocks)))
             /\ Restore(fences.text, fences.blocks) = t
<1> DEFINE X == FenceStates(A)
           n == Len(t)
           F == [p \in Nat \X X |-> IF p[1] \in 1..n THEN FenceStep(p[2], t[p[1]]) ELSE p[2]]
           base == [text |-> <<>>, blocks |-> <<>>, block |-> <<>>]
           Def(f) == f = [i \in 0..n |-> IF i = 0 THEN base ELSE FenceStep(f[i - 1], t[i])]
           c == CHOOSE f : Def(f)
           end == c[n]
<1>1. StashFences(t) = [text |-> end.text \o end.block, blocks |-> end.blocks]
  BY DEF StashFences, Scan
<1> HIDE DEF c, Def
<1>2. base \in X /\ n \in Nat /\ \A i \in 1..n : t[i] \in A
  <2>1. base \in X
    <3>1. /\ base.text = <<>> /\ base.blocks = <<>> /\ base.block = <<>>
          /\ base \in [text : Seq(A \cup ({"CODE_BLOCK"} \X Nat)), blocks : Seq(Seq(A)), block : Seq(A)]
      OBVIOUS
    <3>2. \A K : <<>> \in Seq(K)
      OBVIOUS
    <3> HIDE DEF base
    <3>3. base.text \in Seq(Fenced(A, Len(base.blocks)))
      BY <3>1, <3>2
    <3>4. QED
      BY <3>1, <3>3 DEF FenceStates
  <2>2. QED
    BY <2>1
<1>3. F \in [Nat \X X -> X]
  <2> HIDE DEF X
  <2>1. \A p \in Nat \X X : p[2] \in X /\ (p[1] \in 1..n => FenceStep(p[2], t[p[1]]) \in X)
    BY <1>2, FenceStepKeeps DEF X
  <2> HIDE DEF n
  <2>2. QED
    BY <2>1
<1> HIDE DEF F, X, base, n
<1>4. PICK f \in [0..n -> X] : Recursive(f, base, F, n)
  BY <1>2, <1>3, Recursion
<1>5. Def(f)
  <2>1. ASSUME NEW i \in 1..n PROVE f[i] = FenceStep(f[i - 1], t[i])
    <3>1. i \in Nat /\ i - 1 \in 0..n /\ f[i - 1] \in X
      BY <1>2
    <3>2. F[<<i, f[i - 1]>>] = FenceStep(f[i - 1], t[i])
      BY <3>1 DEF F
    <3>3. QED
      BY <1>4, <3>2 DEF Recursive
  <2>2. \A i \in 0..n : f[i] = IF i = 0 THEN base ELSE FenceStep(f[i - 1], t[i])
    BY <1>2, <1>4, <2>1 DEF Recursive
  <2>3. QED
    BY <2>2 DEF Def
<1>6. Def(c)
  BY <1>5 DEF c
<1>7. c \in [0..n -> X] /\ c[0] = base /\ \A i \in 1..n : c[i] = FenceStep(c[i - 1], t[i])
  <2>1. c = [i \in 0..n |-> c[i]] /\ c[0] = base
        /\ \A i \in 1..n : c[i] = FenceStep(c[i - 1], t[i])
    BY <1>2, <1>6 DEF Def
  <2>2. ASSUME NEW i \in 1..n, c[i - 1] \in X
        PROVE  c[i] = F[<<i, c[i - 1]>>]
    <3>1. <<i, c[i - 1]>> \in Nat \X X
      BY <1>2, <2>2
    <3>2. F[<<i, c[i - 1]>>] = FenceStep(c[i - 1], t[i])
      BY <3>1 DEF F
    <3>3. QED
      BY <2>1, <3>2
  <2>3. ScanIn(X, c, base, F, n)
    BY <2>1, <2>2 DEF ScanIn
  <2>4. QED
    BY <1>2, <1>3, <2>1, <2>3, Scanned
<1> DEFINE S == {i \in Nat : i \in 0..n => Whole(c[i]) = SubSeq(t, 1, i)}
<1>8. 0 \in S
  <2>1. SubSeq(t, 1, 0) = <<>>
    BY SubSeqEmpty
  <2>2. Restore(<<>>, <<>>) = <<>>
    BY DEF Restore, FlattenSeq
  <2>3. Whole(base) = <<>>
    BY <2>2 DEF Whole, base
  <2>4. QED
    BY <1>7, <2>1, <2>3
<1>9. ASSUME NEW i \in S PROVE i + 1 \in S
  <2> DEFINE k == i + 1
  <2> SUFFICES ASSUME k \in 0..n PROVE Whole(c[k]) = SubSeq(t, 1, k)
    OBVIOUS
  <2>1. /\ k \in 1..n /\ k - 1 = i /\ i \in 0..n /\ Whole(c[i]) = SubSeq(t, 1, i)
    BY <1>2
  <2> HIDE DEF k, S
  <2>2. c[k] = FenceStep(c[i], t[k]) /\ c[i] \in X /\ t[k] \in A
    BY <1>2, <1>7, <2>1
  <2>3. Whole(c[k]) = Whole(c[i]) \o <<t[k]>>
    BY <2>2, FenceStepKeeps DEF X
  <2>4. SubSeq(t, 1, k) = SubSeq(t, 1, k - 1) \o <<t[k]>>
    <3>1. k \in 1..Len(t) /\ 1 \in 1..Len(t)
      BY <1>2, <2>1 DEF n
    <3>2. QED
      BY <3>1, SubSeqRecursiveSecond
  <2>5. QED
    BY <2>1, <2>3, <2>4
<1>10. Whole(end) = t
  <2>1. S = Nat
    <3> HIDE DEF S
    <3>1. QED
      BY <1>8, <1>9, AllNumbers DEF S
  <2>2. n \in S /\ n \in 0..n
    <3> HIDE DEF S
    <3>1. QED
      BY <1>2, <2>1
  <2>3. Whole(c[n]) = SubSeq(t, 1, n)
    BY <2>2
  <2>4. SubSeq(t, 1, n) = t
    BY SubSeqFull DEF n
  <2>5. QED
    BY <2>3, <2>4
<1>11. end \in X
  BY <1>2, <1>7
<1> HIDE DEF end
<1> DEFINE B == end.blocks
           K == Fenced(A, Len(B))
<1>12. B \in Seq(Seq(A)) /\ end.text \in Seq(K) /\ end.block \in Seq(A) /\ A \subseteq K
  BY <1>11 DEF X, FenceStates, Fenced
<1>13. Restorable(K, A, B)
  BY <1>12, FencedRestorable
<1> HIDE DEF B, K
<1>14. Restore(end.text \o end.block, B) = Restore(end.text, B) \o end.block
  <2> DEFINE x == end.text
             y == end.block
  <2>1. x \in Seq(K) /\ y \in Seq(A) /\ A \subseteq K /\ A \subseteq Atoms
    BY <1>12
  <2> HIDE DEF x, y
  <2>2. Restore(x \o y, B) = Restore(x, B) \o y
    <3>1. Kept(x, y, B)
      BY <1>13, <2>1, RestorePlain
    <3>2. QED
      BY <3>1 DEF Kept
  <2>3. QED
    BY <2>2 DEF x, y
<1>15. end.text \o end.block \in Seq(K)
  <2>1. end.block \in Seq(K)
    BY <1>12, SeqMonotonic
  <2>2. QED
    BY <1>12, <2>1
<1>16. QED
  BY <1>1, <1>10, <1>12, <1>14, <1>15 DEF Whole, B, K

-----------------------------------------------------------------------------
(* Inline code, and both. *)

Codes(A) == {a \in A : a[1] = "code"}
InlineStates(K, A) == [text : Seq(K \cup ({"INLINE_CODE"} \X Nat)), spans : Seq(Codes(A))]

\* What the scan of a text has at place j when it has been there: a key of
\* the span of code, or what the text has.
KeyedAt(s, u, m, j) ==
    IF u[j][1] = "code"
    THEN \E k \in 1..Len(s.spans) : s.text[j] = InlineCodeKey(m + k - 1) /\ s.spans[k] = u[j]
    ELSE s.text[j] = u[j]
Follows(s, u, m, i) == Len(s.text) = i /\ \A j \in 1..i : KeyedAt(s, u, m, j)

\* A step of the scan for spans of code keeps their order: the key it writes is
\* that of the span it stashes.
LEMMA InlineStepKeeps ==
  ASSUME NEW K, NEW A, NEW m \in Nat, NEW u \in Seq(K), NEW i \in Nat, i + 1 \in 1..Len(u),
         u[i + 1][1] = "code" => u[i + 1] \in A,
         NEW s \in InlineStates(K, A)
  PROVE  /\ InlineStep(m, s, u[i + 1]) \in InlineStates(K, A)
         /\ Follows(s, u, m, i) => Follows(InlineStep(m, s, u[i + 1]), u, m, i + 1)
<1> DEFINE a == u[i + 1]
           L == K \cup ({"INLINE_CODE"} \X Nat)
           x == s.text
           y == s.spans
           z == InlineStep(m, s, a)
<1>1. /\ x \in Seq(L) /\ y \in Seq(Codes(A)) /\ s = [text |-> x, spans |-> y]
      /\ a \in K /\ a \in L
  BY DEF InlineStates
<1>2. CASE a[1] = "code"
  <2> DEFINE key == InlineCodeKey(m + Len(y))
  <2>1. z = [text |-> Append(x, key), spans |-> Append(y, a)]
    BY <1>1, <1>2 DEF InlineStep
  <2>2. key \in L /\ a \in Codes(A) /\ Len(y) \in Nat
    <3>1. Len(y) \in Nat /\ m + Len(y) \in Nat
      BY <1>1
    <3>2. QED
      BY <1>2, <3>1 DEF Codes, InlineCodeKey
  <2> HIDE DEF key, L
  <2>3. /\ Append(x, key) \in Seq(L) /\ Len(Append(x, key)) = Len(x) + 1
        /\ (\A j \in 1..Len(x) : Append(x, key)[j] = x[j]) /\ Append(x, key)[Len(x) + 1] = key
    BY <1>1, <2>2, AppendProperties
  <2>4. /\ Append(y, a) \in Seq(Codes(A)) /\ Len(Append(y, a)) = Len(y) + 1
        /\ (\A j \in 1..Len(y) : Append(y, a)[j] = y[j]) /\ Append(y, a)[Len(y) + 1] = a
    BY <1>1, <2>2, AppendProperties
  <2>5. z \in InlineStates(K, A)
    BY <2>1, <2>3, <2>4 DEF InlineStates, L
  <2> DEFINE X == Append(x, key)
             Y == Append(y, a)
  <2> HIDE DEF X, Y
  <2>6. ASSUME Follows(s, u, m, i) PROVE Follows(z, u, m, i + 1)
    <3>1. Len(x) = i /\ \A j \in 1..i : KeyedAt(s, u, m, j)
      BY <2>6 DEF Follows
    <3>2. z.text = X /\ z.spans = Y /\ Len(X) = i + 1
      BY <2>1, <2>3, <3>1 DEF X, Y
    <3>3. ASSUME NEW j \in 1..(i + 1) PROVE KeyedAt(z, u, m, j)
      <4>1. CASE j = i + 1
        <5>1. X[j] = key /\ Y[Len(y) + 1] = a /\ Len(Y) = Len(y) + 1
          BY <2>3, <2>4, <3>1, <4>1 DEF X, Y
        <5>2. Len(y) + 1 \in 1..Len(Y) /\ m + (Len(y) + 1) - 1 = m + Len(y)
          BY <2>2, <5>1
        <5>3. QED
          BY <1>2, <3>2, <4>1, <5>1, <5>2 DEF KeyedAt, key
      <4>2. CASE j # i + 1
        <5>1. j \in 1..i /\ X[j] = x[j]
          BY <2>3, <3>1, <4>2 DEF X
        <5>2. KeyedAt(s, u, m, j)
          BY <3>1, <5>1
        <5>3. \A k \in 1..Len(y) : k \in 1..Len(Y) /\ Y[k] = y[k]
          BY <2>2, <2>4 DEF Y
        <5>4. QED
          BY <3>2, <5>1, <5>2, <5>3 DEF KeyedAt
      <4>3. QED
        BY <4>1, <4>2
    <3>4. QED
      BY <3>2, <3>3 DEF Follows
  <2>7. QED
    BY <2>5, <2>6
<1>3. CASE a[1] # "code"
  <2> DEFINE X == Append(x, a)
  <2>1. z = [text |-> X, spans |-> y]
    BY <1>1, <1>3 DEF InlineStep
  <2> HIDE DEF L
  <2>2. /\ X \in Seq(L) /\ Len(X) = Len(x) + 1
        /\ (\A j \in 1..Len(x) : X[j] = x[j]) /\ X[Len(x) + 1] = a
    BY <1>1, AppendProperties
  <2> HIDE DEF X
  <2>3. z \in InlineStates(K, A)
    BY <1>1, <2>1, <2>2 DEF InlineStates, L
  <2>4. ASSUME Follows(s, u, m, i) PROVE Follows(z, u, m, i + 1)
    <3>1. Len(x) = i /\ \A j \in 1..i : KeyedAt(s, u, m, j)
      BY <2>4 DEF Follows
    <3>2. z.text = X /\ z.spans = y /\ Len(X) = i + 1
      BY <2>1, <2>2, <3>1
    <3>3. ASSUME NEW j \in 1..(i + 1) PROVE KeyedAt(z, u, m, j)
      <4>1. CASE j = i + 1
        BY <1>3, <2>2, <3>1, <3>2, <4>1 DEF KeyedAt
      <4>2. CASE j # i + 1
        <5>1. j \in 1..i /\ X[j] = x[j]
          BY <2>2, <3>1, <4>2
        <5>2. KeyedAt(s, u, m, j)
          BY <3>1, <5>1
        <5>3. QED
          BY <3>2, <5>1, <5>2 DEF KeyedAt
      <4>3. QED
        BY <4>1, <4>2
    <3>4. QED
      BY <3>2, <3>3 DEF Follows
  <2>5. QED
    BY <2>3, <2>4
<1>4. QED
  BY <1>2, <1>3

\* So the text with its spans stashed has, at every place, what the text had or
\* the key of what it had.
LEMMA InlineStashed ==
  ASSUME NEW K, NEW A, NEW m \in Nat, NEW u \in Seq(K),
         \A a \in K : a[1] = "code" => a \in A
  PROVE  /\ StashInline(u, m) \in InlineStates(K, A)
         /\ Follows(StashInline(u, m), u, m, Len(u))
<1> DEFINE X == InlineStates(K, A)
           n == Len(u)
           F == [p \in Nat \X X |-> IF p[1] \in 1..n THEN InlineStep(m, p[2], u[p[1]]) ELSE p[2]]
           base == [text |-> <<>>, spans |-> <<>>]
           Def(f) == f = [i \in 0..n |-> IF i = 0 THEN base ELSE InlineStep(m, f[i - 1], u[i])]
           c == CHOOSE f : Def(f)
<1>1. StashInline(u, m) = c[n]
  BY DEF StashInline, Scan
<1> HIDE DEF c, Def
<1>2. base \in X /\ n \in Nat
  BY DEF InlineStates
<1>2a. ASSUME NEW i \in 1..n, NEW s \in X
      PROVE  /\ InlineStep(m, s, u[i]) \in X
             /\ Follows(s, u, m, i - 1) => Follows(InlineStep(m, s, u[i]), u, m, i)
  <2> DEFINE h == i - 1
  <2>1. h \in Nat /\ h + 1 = i /\ h + 1 \in 1..Len(u) /\ u[h + 1] \in K
    BY <1>2
  <2> HIDE DEF h
  <2>2. u[h + 1][1] = "code" => u[h + 1] \in A
    BY <2>1
  <2>3. /\ InlineStep(m, s, u[h + 1]) \in X
        /\ Follows(s, u, m, h) => Follows(InlineStep(m, s, u[h + 1]), u, m, h + 1)
    BY <2>1, <2>2, InlineStepKeeps
  <2>4. QED
    BY <2>1, <2>3 DEF h
<1>3. F \in [Nat \X X -> X]
  <2> HIDE DEF X, n
  <2>1. \A p \in Nat \X X : p[2] \in X /\ (p[1] \in 1..n => InlineStep(m, p[2], u[p[1]]) \in X)
    BY <1>2a
  <2>2. QED
    BY <2>1
<1> HIDE DEF F, X, base, n
<1>4. PICK f \in [0..n -> X] : Recursive(f, base, F, n)
  BY <1>2, <1>3, Recursion
<1>5. Def(f)
  <2>1. ASSUME NEW i \in 1..n PROVE f[i] = InlineStep(m, f[i - 1], u[i])
    <3>1. i \in Nat /\ i - 1 \in 0..n /\ f[i - 1] \in X
      BY <1>2
    <3>2. F[<<i, f[i - 1]>>] = InlineStep(m, f[i - 1], u[i])
      BY <3>1 DEF F
    <3>3. QED
      BY <1>4, <3>2 DEF Recursive
  <2>2. \A i \in 0..n : f[i] = IF i = 0 THEN base ELSE InlineStep(m, f[i - 1], u[i])
    BY <1>2, <1>4, <2>1 DEF Recursive
  <2>3. QED
    BY <2>2 DEF Def
<1>6. Def(c)
  BY <1>5 DEF c
<1>7. c \in [0..n -> X] /\ c[0] = base /\ \A i \in 1..n : c[i] = InlineStep(m, c[i - 1], u[i])
  <2>1. c = [i \in 0..n |-> c[i]] /\ c[0] = base
        /\ \A i \in 1..n : c[i] = InlineStep(m, c[i - 1], u[i])
    <3>1. c = [i \in 0..n |-> IF i = 0 THEN base ELSE InlineStep(m, c[i - 1], u[i])]
      BY <1>6 DEF Def
    <3>2. \A i \in 1..n : i \in 0..n /\ i # 0
      BY <1>2
    <3>3. \A i \in 1..n : c[i] = InlineStep(m, c[i - 1], u[i])
      BY <3>1, <3>2
    <3>4. c = [i \in 0..n |-> c[i]] /\ c[0] = base
      BY <1>2, <3>1
    <3>5. QED
      BY <3>3, <3>4
  <2>2. ASSUME NEW i \in 1..n, c[i - 1] \in X
        PROVE  c[i] = F[<<i, c[i - 1]>>]
    <3>1. <<i, c[i - 1]>> \in Nat \X X
      BY <1>2, <2>2
    <3>2. F[<<i, c[i - 1]>>] = InlineStep(m, c[i - 1], u[i])
      BY <3>1 DEF F
    <3>3. QED
      BY <2>1, <3>2
  <2>3. ScanIn(X, c, base, F, n)
    BY <2>1, <2>2 DEF ScanIn
  <2>4. QED
    BY <1>2, <1>3, <2>1, <2>3, Scanned
<1> DEFINE S == {i \in Nat : i \in 0..n => Follows(c[i], u, m, i)}
<1>8. 0 \in S
  BY <1>7 DEF Follows, base
<1>9. ASSUME NEW i \in S PROVE i + 1 \in S
  <2> DEFINE k == i + 1
  <2> SUFFICES ASSUME k \in 0..n PROVE Follows(c[k], u, m, k)
    OBVIOUS
  <2>1. /\ k \in 1..n /\ k - 1 = i /\ i \in 0..n /\ Follows(c[i], u, m, i)
    BY <1>2
  <2> HIDE DEF k, S
  <2>2. c[k] = InlineStep(m, c[i], u[k]) /\ c[i] \in X
    BY <1>2, <1>7, <2>1
  <2>3. QED
    BY <1>2a, <2>1, <2>2
<1>10. S = Nat
  <2> HIDE DEF S
  <2>1. QED
    BY <1>8, <1>9, AllNumbers DEF S
<1>11. n \in S
  <2> HIDE DEF S
  <2>1. QED
    BY <1>2, <1>10
<1>12. Follows(c[n], u, m, n) /\ c[n] \in X
  BY <1>2, <1>7, <1>11
<1>13. QED
  BY <1>1, <1>12 DEF X, n

\* The atoms of a text whose code is stashed.
Stashed(A) == A \cup ({"CODE_BLOCK", "INLINE_CODE"} \X Nat)
\* What the keys of a text stand for: inline ones for one span of code.
KeysKept(t, B) ==
    \A i \in 1..Len(t) :
        /\ Piece(t[i], B) \in Seq(Atoms)
        /\ t[i][1] = "INLINE_CODE" => \E a \in Words : a[1] = "code" /\ Piece(t[i], B) = <<a>>

\* Stashed code is restored to the text it was taken from.
LEMMA CodeStashed ==
  ASSUME NEW A, A \subseteq Atoms, NEW t \in Seq(A)
  PROVE  /\ Stash(t).text \in Seq(Stashed(A))
         /\ KeysKept(Stash(t).text, Stash(t).originals)
         /\ Restore(Stash(t).text, Stash(t).originals) = t
<1> DEFINE fences == StashFences(t)
           u == fences.text
           B == fences.blocks
           m == Len(B)
           K == Fenced(A, m)
           inline == StashInline(u, m)
           T == inline.text
           spans == inline.spans
           C == [i \in DOMAIN spans |-> <<spans[i]>>]
           O == B \o C
<1>1. B \in Seq(Seq(A)) /\ u \in Seq(K) /\ Restore(u, B) = t
  BY FencesStashed
<1>2. Stash(t).text = T /\ Stash(t).originals = O
  BY DEF Stash
<1> HIDE DEF fences, u, B
<1>3. m \in Nat /\ \A a \in K : a[1] = "code" => a \in A
  BY <1>1 DEF Fenced
<1>4. inline \in InlineStates(K, A) /\ Follows(inline, u, m, Len(u))
  <2> HIDE DEF m, K
  <2>1. QED
    BY <1>1, <1>3, InlineStashed
<1> HIDE DEF inline
<1>5. T \in Seq(K \cup ({"INLINE_CODE"} \X Nat)) /\ spans \in Seq(Codes(A))
  BY <1>4 DEF InlineStates
<1>6. Len(T) = Len(u) /\ \A j \in 1..Len(u) : KeyedAt(inline, u, m, j)
  BY <1>4 DEF Follows
<1> HIDE DEF K, T, spans, m
<1>7. /\ O \in Seq(Seq(A)) /\ (\A k \in 1..m : O[k] = B[k])
      /\ \A k \in 1..Len(spans) : O[m + k] = <<spans[k]>>
  <2> DEFINE l == Len(spans)
  <2>1. l \in Nat /\ DOMAIN spans = 1..l /\ \A k \in 1..l : spans[k] \in A
    BY <1>5 DEF Codes
  <2>2. C \in [1..l -> Seq(A)] /\ \A k \in 1..l : C[k] = <<spans[k]>>
    <3>1. \A k \in 1..l : <<spans[k]>> \in Seq(A)
      BY <2>1
    <3> HIDE DEF l
    <3>2. QED
      BY <2>1, <3>1
  <2> HIDE DEF C, l
  <2>3. C \in Seq(Seq(A)) /\ Len(C) = l
    <3>1. C \in Seq(Seq(A))
      BY <2>1, <2>2, SeqDef
    <3>2. QED
      BY <2>1, <2>2, <3>1
  <2>4. /\ O \in Seq(Seq(A))
        /\ \A k \in 1..(Len(B) + Len(C)) : O[k] = IF k <= Len(B) THEN B[k] ELSE C[k - Len(B)]
    BY <1>1, <2>3, ConcatProperties
  <2> HIDE DEF O
  <2>5. \A k \in 1..m : O[k] = B[k]
    BY <1>3, <2>1, <2>3, <2>4 DEF m
  <2>6. ASSUME NEW k \in 1..l PROVE O[m + k] = C[k]
    <3> DEFINE j == m + k
    <3>1. j \in 1..(Len(B) + Len(C)) /\ ~(j <= Len(B)) /\ j - Len(B) = k
      BY <1>3, <2>1, <2>3 DEF m
    <3> HIDE DEF j
    <3>2. O[j] = C[k]
      BY <2>4, <3>1
    <3>3. QED
      BY <3>2 DEF j
  <2>7. QED
    BY <2>2, <2>4, <2>5, <2>6 DEF l
<1> HIDE DEF O, C
<1>8. ASSUME NEW j \in 1..Len(u)
      PROVE  /\ Piece(T[j], O) = Piece(u[j], B) /\ Piece(T[j], O) \in Seq(A)
             /\ T[j] \in Stashed(A)
             /\ T[j][1] = "INLINE_CODE" => \E a \in Words : a[1] = "code" /\ Piece(T[j], O) = <<a>>
  <2>1. u[j] \in K /\ KeyedAt(inline, u, m, j)
    BY <1>1, <1>6
  <2>2. CASE u[j][1] = "code"
    <3>1. PICK k \in 1..Len(spans) : T[j] = InlineCodeKey(m + k - 1) /\ spans[k] = u[j]
      BY <2>1, <2>2 DEF KeyedAt, T, spans
    <3>2. u[j] \in A /\ u[j] \in Words
      <4>1. u[j] \in A
        BY <1>3, <2>1, <2>2
      <4>2. QED
        BY <2>2, <4>1 DEF Atoms, Words, WordKinds
    <3>3. m + k - 1 \in Nat /\ m + k - 1 + 1 = m + k
      BY <1>3, <1>5
    <3>4. Piece(T[j], O) = <<u[j]>>
      <4>1. T[j][1] = "INLINE_CODE" /\ T[j][2] = m + k - 1
        BY <3>1 DEF InlineCodeKey
      <4>2. Piece(T[j], O) = O[m + k]
        BY <3>3, <4>1 DEF Piece
      <4>3. QED
        BY <1>7, <3>1, <4>2
    <3>5. Piece(u[j], B) = <<u[j]>>
      BY <2>2 DEF Piece
    <3>6. T[j] \in Stashed(A)
      BY <3>1, <3>3 DEF Stashed, InlineCodeKey
    <3>7. QED
      BY <2>2, <3>2, <3>4, <3>5, <3>6
  <2>3. CASE u[j][1] # "code"
    <3>1. T[j] = u[j]
      BY <2>1, <2>3 DEF KeyedAt, T
    <3>2. CASE u[j] \in A
      <4>1. u[j][1] # "INLINE_CODE" /\ Piece(u[j], O) = <<u[j]>> /\ Piece(u[j], B) = <<u[j]>>
        BY <3>2 DEF Piece, Atoms, MarkKinds, WordKinds
      <4>2. QED
        BY <3>1, <3>2, <4>1 DEF Stashed
    <3>3. CASE u[j] \notin A
      <4>1. u[j] \in {"CODE_BLOCK"} \X (0..(m - 1))
        BY <2>1, <3>3 DEF K, Fenced
      <4>2. u[j][1] = "CODE_BLOCK" /\ u[j][2] \in 0..(m - 1) /\ u[j] \in {"CODE_BLOCK"} \X Nat
        BY <4>1
      <4>3. u[j][2] + 1 \in 1..m
        BY <1>3, <4>2
      <4>4. Piece(u[j], O) = B[u[j][2] + 1] /\ Piece(u[j], B) = B[u[j][2] + 1]
        BY <1>7, <4>2, <4>3 DEF Piece
      <4>5. B[u[j][2] + 1] \in Seq(A)
        BY <1>1, <4>3 DEF m
      <4>6. QED
        BY <3>1, <4>2, <4>4, <4>5 DEF Stashed
    <3>4. QED
      BY <3>2, <3>3
  <2>4. QED
    BY <2>2, <2>3
<1>9. Len(u) \in Nat /\ DOMAIN u = 1..Len(u) /\ DOMAIN T = 1..Len(u)
      /\ T \in [1..Len(u) -> K \cup ({"INLINE_CODE"} \X Nat)]
  BY <1>1, <1>5, <1>6
<1>10. T \in Seq(Stashed(A))
  <2>1. T \in [1..Len(u) -> Stashed(A)]
    BY <1>8, <1>9
  <2>2. QED
    BY <1>9, <2>1, SeqDef
<1>11. KeysKept(T, O)
  <2>1. \A s \in Seq(A) : s \in Seq(Atoms)
    BY SeqMonotonic
  <2>2. QED
    BY <1>6, <1>8, <2>1 DEF KeysKept
<1>12. Restore(T, O) = t
  <2>1. SamePieces(T, O, u, B)
    BY <1>8, <1>9 DEF SamePieces
  <2>2. QED
    BY <1>1, <2>1, RestoreSame
<1>13. QED
  BY <1>2, <1>10, <1>11, <1>12

\* Restoring a text that differs in its words only.
LEMMA RestoreAlike ==
  ASSUME NEW T \in Seq(Stashed(Atoms)), NEW s \in Seq(Stashed(Atoms)), NEW O,
         Alike(T, s), KeysKept(s, O)
  PROVE  /\ Restore(T, O) \in Seq(Atoms) /\ Restore(s, O) \in Seq(Atoms)
         /\ Alike(Restore(T, O), Restore(s, O))
<1> DEFINE n == Len(s)
           p == [i \in DOMAIN T |-> Piece(T[i], O)]
           q == [i \in DOMAIN s |-> Piece(s[i], O)]
           K == {T[i] : i \in 1..n} \cup {s[i] : i \in 1..n}
<1>1. n \in Nat /\ Len(T) = n /\ \A i \in 1..n : Akin(T[i], s[i])
  BY DEF Alike
<1>2. ASSUME NEW i \in 1..n
      PROVE  /\ Piece(T[i], O) \in Seq(Atoms) /\ Piece(s[i], O) \in Seq(Atoms)
             /\ Alike(Piece(T[i], O), Piece(s[i], O))
  <2>1. /\ Piece(s[i], O) \in Seq(Atoms)
        /\ s[i][1] = "INLINE_CODE" => \E a \in Words : a[1] = "code" /\ Piece(s[i], O) = <<a>>
    BY DEF KeysKept
  <2>2. CASE T[i] = s[i]
    <3>1. \A x \in Seq(Atoms) : Alike(x, x)
      BY DEF Alike, Akin
    <3>2. QED
      BY <2>1, <2>2, <3>1
  <2>3. CASE T[i] # s[i]
    <3>1. /\ T[i] \in Words /\ (s[i] \in Words \/ s[i][1] = "INLINE_CODE")
          /\ T[i][1] \notin {"num", "full"} /\ s[i][1] # "num"
          /\ s[i] # Stop /\ (T[i] = Stop => s[i] = Full(0))
      BY <1>1, <2>3 DEF Akin
    <3>2. \A a \in Words : Piece(a, O) = <<a>> /\ <<a>> \in Seq(Atoms)
      BY DEF Piece, Words, WordKinds, Atoms
    <3>3. PICK a \in Words : Piece(s[i], O) = <<a>> /\ Akin(T[i], a)
      <4>1. CASE s[i] \in Words
        BY <1>1, <3>2, <4>1
      <4>2. CASE s[i][1] = "INLINE_CODE"
        <5>1. PICK a \in Words : a[1] = "code" /\ Piece(s[i], O) = <<a>>
          BY <2>1, <4>2
        <5>2. a # Stop /\ a[1] # "num" /\ T[i] # Stop
          BY <3>1, <4>2, <5>1 DEF Stop, Half, Full
        <5>3. QED
          BY <3>1, <5>1, <5>2 DEF Akin
      <4>3. QED
        BY <3>1, <4>1, <4>2
    <3>4. \A x, y : Akin(x, y) => Alike(<<x>>, <<y>>)
      BY DEF Alike
    <3>5. QED
      BY <2>1, <3>1, <3>2, <3>3, <3>4
  <2>4. QED
    BY <2>2, <2>3
<1>3. Restorable(K, Atoms, O)
  BY <1>2 DEF Restorable
<1>4. T \in Seq(K) /\ s \in Seq(K)
  <2>1. T \in [1..n -> K] /\ s \in [1..n -> K]
    <3>1. DOMAIN T = 1..n /\ DOMAIN s = 1..n /\ T = [i \in 1..n |-> T[i]] /\ s = [i \in 1..n |-> s[i]]
      BY <1>1
    <3>2. QED
      BY <3>1
  <2> HIDE DEF K
  <2>2. QED
    BY <1>1, <2>1, SeqDef
<1> HIDE DEF K
<1>5. /\ p \in Seq(Seq(Atoms)) /\ Len(p) = Len(T) /\ (\A i \in 1..Len(T) : p[i] = Piece(T[i], O))
      /\ Restore(T, O) = FlattenSeq(p) /\ Restore(T, O) \in Seq(Atoms)
  BY <1>3, <1>4, PiecesTyped
<1>6. /\ q \in Seq(Seq(Atoms)) /\ Len(q) = n /\ (\A i \in 1..n : q[i] = Piece(s[i], O))
      /\ Restore(s, O) = FlattenSeq(q) /\ Restore(s, O) \in Seq(Atoms)
  BY <1>3, <1>4, PiecesTyped
<1> HIDE DEF p, q, n
<1>7. AlikePieces(p, q)
  BY <1>1, <1>2, <1>5, <1>6 DEF AlikePieces
<1>8. QED
  BY <1>5, <1>6, <1>7, FlattenAlike

-----------------------------------------------------------------------------
(* The counts of verify_output see marks only. *)

\* Alike texts have every mark at the same places.
LEMMA SameMarks ==
  ASSUME NEW S, NEW t \in Seq(S), NEW s \in Seq(S), Alike(t, s)
  PROVE  /\ Len(t) = Len(s) /\ DOMAIN t = 1..Len(s) /\ DOMAIN s = 1..Len(s) /\ Len(s) \in Nat
         /\ \A k \in MarkKinds : \A i \in 1..Len(s) : t[i] = Mark(k) <=> s[i] = Mark(k)
<1>1. /\ Len(t) = Len(s) /\ DOMAIN t = 1..Len(s) /\ DOMAIN s = 1..Len(s) /\ Len(s) \in Nat
      /\ \A i \in 1..Len(s) : Akin(t[i], s[i])
  BY DEF Alike
<1>2. ASSUME NEW k \in MarkKinds, NEW i \in 1..Len(s) PROVE t[i] = Mark(k) <=> s[i] = Mark(k)
  <2>1. Mark(k) \notin Words /\ Mark(k)[1] # "INLINE_CODE"
    BY DEF Mark, Words, WordKinds, MarkKinds
  <2>2. Akin(t[i], s[i])
    BY <1>1
  <2>3. QED
    BY <2>1, <2>2 DEF Akin
<1>3. QED
  BY <1>1, <1>2

\* A number is at the same places of both, and a half-width stop of the first
\* is one of the second or stands for a full-width one.
LEMMA SameNumbers ==
  ASSUME NEW S, NEW t \in Seq(S), NEW s \in Seq(S), Alike(t, s)
  PROVE  \A i \in 1..Len(s) : /\ t[i][1] = "num" \/ s[i][1] = "num" => t[i] = s[i]
                              /\ s[i] = Stop => t[i] = Stop
                              /\ t[i] = Stop => s[i] = Stop \/ s[i] = Full(0)
<1> SUFFICES ASSUME NEW i \in 1..Len(s)
             PROVE  /\ t[i][1] = "num" \/ s[i][1] = "num" => t[i] = s[i]
                    /\ s[i] = Stop => t[i] = Stop
                    /\ t[i] = Stop => s[i] = Stop \/ s[i] = Full(0)
  OBVIOUS
<1>1. Akin(t[i], s[i])
  BY DEF Alike
<1>2. QED
  BY <1>1 DEF Akin

\* So every pattern of verify_output matches at the same places of both, but
\* for the list items a full-width stop makes.
LEMMA SameCounts ==
  ASSUME NEW S, NEW t \in Seq(S), NEW s \in Seq(S), Alike(t, s)
  PROVE  CountsSurvive(s, t)
<1> DEFINE n == Len(s)
<1>1. Len(t) = n /\ DOMAIN t = 1..n /\ DOMAIN s = 1..n /\ n \in Nat
  BY SameMarks
<1>2. \A k \in MarkKinds : \A i \in 1..n : t[i] = Mark(k) <=> s[i] = Mark(k)
  BY SameMarks
<1> HIDE DEF n
<1>3. /\ \A i \in 1..n : t[i] = Nl <=> s[i] = Nl
      /\ \A i \in 1..n : t[i] = Hash <=> s[i] = Hash
      /\ \A i \in 1..n : t[i] = Fence <=> s[i] = Fence
      /\ \A i \in 1..n : t[i] = Indent <=> s[i] = Indent
      /\ \A i \in 1..n : t[i] = Mark("|") <=> s[i] = Mark("|")
  BY <1>2 DEF MarkKinds, Nl, Hash, Fence, Indent
<1>4. LineStarts(t) = LineStarts(s) /\ LineStarts(s) \subseteq 1..n
  <2>1. \A i \in 1..n : i # 1 => i - 1 \in 1..n
    BY <1>1
  <2>2. \A i \in 1..n : (i = 1 \/ t[i - 1] = Nl) <=> (i = 1 \/ s[i - 1] = Nl)
    BY <1>3, <2>1
  <2>3. QED
    BY <1>1, <2>2 DEF LineStarts
<1>5. \A i \in 1..n : EndsLine(t, i) <=> EndsLine(s, i)
  <2> SUFFICES ASSUME NEW i \in 1..n PROVE EndsLine(t, i) <=> EndsLine(s, i)
    OBVIOUS
  <2>1. CASE i = n
    BY <1>1, <2>1 DEF EndsLine, n
  <2>2. CASE i # n
    <3>1. i + 1 \in 1..n
      BY <1>1, <2>2
    <3>2. t[i + 1] = Nl <=> s[i + 1] = Nl
      BY <1>3, <3>1
    <3>3. QED
      BY <1>1, <2>2, <3>2 DEF EndsLine, n
  <2>3. QED
    BY <2>1, <2>2
<1>6. ASSUME NEW k \in MarkKinds PROVE Leading(t, Mark(k)) = Leading(s, Mark(k)) /\ Leading(s, Mark(k)) \subseteq 1..n
  <2>1. ASSUME NEW i \in 1..n, NEW f \in LineStarts(s)
        PROVE  (\A j \in f..(i - 1) : t[j] = Indent) <=> (\A j \in f..(i - 1) : s[j] = Indent)
    <3>1. \A j \in f..(i - 1) : j \in 1..n
      BY <1>1, <1>4
    <3>2. QED
      BY <1>3, <3>1
  <2>2. \A i \in 1..n : t[i] = Mark(k) <=> s[i] = Mark(k)
    BY <1>2
  <2>3. QED
    BY <1>1, <1>4, <2>1, <2>2 DEF Leading
<1>7. /\ Leading(t, Mark("-")) = Leading(s, Mark("-"))
      /\ Leading(t, Mark(">")) = Leading(s, Mark(">"))
      /\ Leading(t, Mark("---")) = Leading(s, Mark("---"))
      /\ Leading(s, Mark("---")) \subseteq 1..n
      /\ Leading(t, Fence) = Leading(s, Fence)
  BY <1>6 DEF MarkKinds, Fence
<1> DEFINE HeadingsAt(x) == {i \in LineStarts(x) : x[i] = Hash /\ ~EndsLine(x, i)}
           Rows(x) == {i \in LineStarts(x) :
                    /\ x[i] = Mark("|")
                    /\ \E e \in (i + 1)..Len(x) :
                         /\ x[e] = Mark("|") /\ EndsLine(x, e)
                         /\ \A j \in i..e : x[j] # Nl}
           Rules(x) == {i \in Leading(x, Mark("---")) :
                    \E e \in i..Len(x) : EndsLine(x, e) /\ \A j \in (i + 1)..e : x[j] = Indent}
<1>8. HeadingsAt(t) = HeadingsAt(s)
  BY <1>3, <1>4, <1>5
<1>9. Rows(t) = Rows(s)
  <2>1. ASSUME NEW i \in LineStarts(s), NEW e \in (i + 1)..n
        PROVE  /\ t[e] = Mark("|") <=> s[e] = Mark("|")
               /\ EndsLine(t, e) <=> EndsLine(s, e)
               /\ (\A j \in i..e : t[j] # Nl) <=> (\A j \in i..e : s[j] # Nl)
    <3>1. e \in 1..n /\ \A j \in i..e : j \in 1..n
      BY <1>1, <1>4
    <3>2. QED
      BY <1>3, <1>5, <3>1
  <2>2. \A i \in LineStarts(s) : t[i] = Mark("|") <=> s[i] = Mark("|")
    BY <1>3, <1>4
  <2>3. Len(t) = n /\ Len(s) = n
    BY <1>1 DEF n
  <2>4. QED
    BY <1>4, <2>1, <2>2, <2>3
<1>10. Rules(t) = Rules(s)
  <2>1. ASSUME NEW i \in Leading(s, Mark("---")), NEW e \in i..n
        PROVE  /\ EndsLine(t, e) <=> EndsLine(s, e)
               /\ (\A j \in (i + 1)..e : t[j] = Indent) <=> (\A j \in (i + 1)..e : s[j] = Indent)
    <3>1. e \in 1..n /\ \A j \in (i + 1)..e : j \in 1..n
      BY <1>1, <1>7
    <3>2. QED
      BY <1>3, <1>5, <3>1
  <2>2. Len(t) = n /\ Len(s) = n
    BY <1>1 DEF n
  <2>3. QED
    BY <1>7, <2>1, <2>2
<1> DEFINE Items(x) == Leading(x, Mark("-")) \cup NumbersWith(Stop, x)
<1> HIDE DEF HeadingsAt, Rows, Rules
<1>11. \A x : StructureCounts(x) =
                [headings |-> Cardinality(HeadingsAt(x)), rows |-> Cardinality(Rows(x)),
                 items |-> Cardinality(Items(x)),
                 quotes |-> Cardinality(Leading(x, Mark(">"))),
                 rules |-> Cardinality(Rules(x)),
                 fences |-> Cardinality(Leading(x, Fence))]
  BY DEF StructureCounts, HeadingsAt, Rows, Rules, Items
<1>12. ASSUME NEW i \in 1..n, t[i] = s[i] PROVE i \in Leading(t, t[i]) <=> i \in Leading(s, s[i])
  <2>1. ASSUME NEW f \in LineStarts(s)
        PROVE  (\A j \in f..(i - 1) : t[j] = Indent) <=> (\A j \in f..(i - 1) : s[j] = Indent)
    <3>1. \A j \in f..(i - 1) : j \in 1..n
      BY <1>1, <1>4
    <3>2. QED
      BY <1>3, <3>1
  <2>2. QED
    BY <1>1, <1>4, <1>12, <2>1 DEF Leading
<1> DEFINE made == NumbersWith(Full(0), s)
<1>13. Items(s) \subseteq Items(t) /\ Items(t) \subseteq Items(s) \cup made
  <2>1. \A i \in 1..n : /\ t[i][1] = "num" \/ s[i][1] = "num" => t[i] = s[i]
                        /\ s[i] = Stop => t[i] = Stop
                        /\ t[i] = Stop => s[i] = Stop \/ s[i] = Full(0)
    BY SameNumbers DEF n
  <2>2. Len(t) = n /\ Len(s) = n
    BY <1>1 DEF n
  <2>3. \A i \in 1..n : i < n => i + 1 \in 1..n
    BY <1>1
  <2>4. NumbersWith(Stop, s) \subseteq NumbersWith(Stop, t)
    <3> SUFFICES ASSUME NEW i \in NumbersWith(Stop, s) PROVE i \in NumbersWith(Stop, t)
      OBVIOUS
    <3>1. i \in 1..n /\ s[i][1] = "num" /\ i \in Leading(s, s[i]) /\ i < n /\ s[i + 1] = Stop
      BY <1>1, <2>2 DEF NumbersWith
    <3>2. t[i] = s[i] /\ t[i + 1] = Stop
      BY <2>1, <2>3, <3>1
    <3>3. i \in Leading(t, t[i])
      BY <1>12, <3>1, <3>2
    <3>4. QED
      BY <1>1, <2>2, <3>1, <3>2, <3>3 DEF NumbersWith
  <2>5. NumbersWith(Stop, t) \subseteq NumbersWith(Stop, s) \cup made
    <3> SUFFICES ASSUME NEW i \in NumbersWith(Stop, t)
                 PROVE  i \in NumbersWith(Stop, s) \/ i \in NumbersWith(Full(0), s)
      OBVIOUS
    <3>1. i \in 1..n /\ t[i][1] = "num" /\ i \in Leading(t, t[i]) /\ i < n /\ t[i + 1] = Stop
      BY <1>1, <2>2 DEF NumbersWith
    <3>2. t[i] = s[i] /\ (s[i + 1] = Stop \/ s[i + 1] = Full(0))
      BY <2>1, <2>3, <3>1
    <3>3. i \in Leading(s, s[i])
      BY <1>12, <3>1, <3>2
    <3>4. QED
      BY <1>1, <2>2, <3>1, <3>2, <3>3 DEF NumbersWith
  <2>6. QED
    BY <1>7, <2>4, <2>5 DEF Items
<1>14. Items(s) \subseteq 1..n /\ Items(t) \subseteq 1..n /\ made \subseteq 1..n
  BY <1>1 DEF Items, NumbersWith, Leading
<1> HIDE DEF Items, made
<1>15. /\ Cardinality(Items(s)) <= Cardinality(Items(t))
       /\ Cardinality(Items(t)) <= Cardinality(Items(s)) + Cardinality(made)
  <2>1. IsFiniteSet(1..n)
    BY <1>1, FS_Interval
  <2>2. IsFiniteSet(Items(s)) /\ IsFiniteSet(Items(t)) /\ IsFiniteSet(made)
    BY <1>14, <2>1, FS_Subset
  <2>3. /\ IsFiniteSet(Items(s) \cup made)
        /\ Cardinality(Items(s) \cup made) <= Cardinality(Items(s)) + Cardinality(made)
    <3>1. /\ IsFiniteSet(Items(s) \cup made) /\ IsFiniteSet(Items(s) \cap made)
          /\ Cardinality(Items(s) \cup made)
               = Cardinality(Items(s)) + Cardinality(made) - Cardinality(Items(s) \cap made)
      BY <2>2, FS_Union, FS_Intersection
    <3>2. /\ Cardinality(Items(s) \cap made) \in Nat /\ Cardinality(Items(s)) \in Nat
          /\ Cardinality(made) \in Nat
      BY <2>2, <3>1, FS_CardinalityType
    <3>3. QED
      BY <3>1, <3>2
  <2>4. Cardinality(Items(s)) <= Cardinality(Items(t))
    BY <1>13, <2>2, FS_Subset
  <2>5. Cardinality(Items(t)) <= Cardinality(Items(s) \cup made)
    BY <1>13, <2>3, FS_Subset
  <2>6. /\ Cardinality(Items(s)) \in Nat /\ Cardinality(Items(t)) \in Nat
        /\ Cardinality(made) \in Nat /\ Cardinality(Items(s) \cup made) \in Nat
    BY <2>2, <2>3, FS_CardinalityType
  <2>7. QED
    BY <2>3, <2>4, <2>5, <2>6
<1> DEFINE was == StructureCounts(s)
           is == StructureCounts(t)
<1>16. /\ DOMAIN was = {"headings", "rows", "items", "quotes", "rules", "fences"}
       /\ is.headings = was.headings /\ is.rows = was.rows /\ is.quotes = was.quotes
       /\ is.rules = was.rules /\ is.fences = was.fences
       /\ was.items = Cardinality(Items(s)) /\ is.items = Cardinality(Items(t))
  BY <1>7, <1>8, <1>9, <1>10, <1>11
<1> HIDE DEF was, is
<1>17. \A count \in DOMAIN was \ {"items"} : is[count] = was[count]
  BY <1>16
<1>18. was.items <= is.items /\ is.items <= was.items + Cardinality(made)
  BY <1>15, <1>16
<1>19. QED
  BY <1>17, <1>18 DEF CountsSurvive, was, is, made

-----------------------------------------------------------------------------
(* Translating changes words only. *)

\* Akin atoms stay akin along a chain.
LEMMA AkinAlong ==
  ASSUME NEW a, NEW b, NEW c, Akin(a, b), Akin(b, c)
  PROVE  Akin(a, c)
<1>1. Full(0)[1] = "full"
  BY DEF Full
<1>2. QED
  BY <1>1 DEF Akin

\* Replacing a part by an alike one, wherever it is first found, gives an alike
\* text.
LEMMA ReplacedAlike ==
  ASSUME NEW S, NEW t \in Seq(S), NEW s \in Seq(S), NEW old \in Seq(S), NEW new \in Seq(S),
         Alike(t, s), Alike(new, old)
  PROVE  ReplaceFirst(old, new, t) \in Seq(S) /\ Alike(ReplaceFirst(old, new, t), s)
<1> DEFINE P == Positions(old, t)
           i == CHOOSE p \in P : \A q \in P : p <= q
           n == Len(t)
           l == Len(old)
           head == SubSeq(t, 1, i - 1)
           tail == SubSeq(t, i + l, n)
           r == head \o new \o tail
<1>1. /\ n \in Nat /\ l \in Nat /\ Len(new) = l /\ Len(s) = n
      /\ DOMAIN t = 1..n /\ DOMAIN old = 1..l
      /\ (\A k \in 1..l : Akin(new[k], old[k])) /\ \A k \in 1..n : Akin(t[k], s[k])
  BY DEF Alike
<1>2. CASE P = {}
  BY <1>2 DEF ReplaceFirst
<1>3. CASE P # {}
  <2>1. ReplaceFirst(old, new, t) = r
    BY <1>3 DEF ReplaceFirst, ReplaceSubSeqAt
  <2>2. i \in 1..(n - l + 1) /\ \A k \in 1..l : t[i + k - 1] = old[k]
    <3>1. P \subseteq Nat
      BY <1>1 DEF Positions
    <3> DEFINE least == CHOOSE p \in P : \A q \in P : p <= q
    <3>2. least \in P
      <4> HIDE DEF P
      <4>1. QED
        BY <1>3, <3>1, FirstOf
    <3>3. i = least
      OBVIOUS
    <3> HIDE DEF least, i
    <3>4. QED
      BY <1>1, <3>2, <3>3 DEF Positions
  <2> HIDE DEF i, P
  <2>3. /\ head \in Seq(S) /\ Len(head) = i - 1
        /\ \A k \in 1..(i - 1) : head[k] = t[k]
    <3>1. 1 \in Int /\ i - 1 \in Int /\ \A k \in 1..(i - 1) : t[k] \in S
      BY <1>1, <2>2
    <3>2. /\ head \in Seq(S) /\ Len(head) = IF 1 <= i - 1 THEN i - 1 - 1 + 1 ELSE 0
          /\ \A k \in 1..(i - 1 - 1 + 1) : head[k] = t[1 + k - 1]
      BY <3>1, SubSeqProperties
    <3> HIDE DEF head
    <3>3. \A k \in 1..(i - 1) : k \in 1..(i - 1 - 1 + 1) /\ 1 + k - 1 = k
      BY <1>1, <2>2
    <3>4. (IF 1 <= i - 1 THEN i - 1 - 1 + 1 ELSE 0) = i - 1
      BY <1>1, <2>2
    <3>5. \A k \in 1..(i - 1) : head[k] = t[k]
      <4> SUFFICES ASSUME NEW k \in 1..(i - 1) PROVE head[k] = t[k]
        OBVIOUS
      <4>1. head[k] = t[1 + k - 1]
        BY <3>2, <3>3
      <4>2. 1 + k - 1 = k
        BY <3>3
      <4>3. QED
        BY <4>1, <4>2
    <3>6. QED
      BY <3>2, <3>4, <3>5
  <2>4. /\ tail \in Seq(S) /\ Len(tail) = n - (i + l) + 1
        /\ \A k \in 1..(n - (i + l) + 1) : tail[k] = t[i + l + k - 1]
    <3>1. i + l \in Int /\ n \in Int /\ \A k \in (i + l)..n : t[k] \in S
      BY <1>1, <2>2
    <3>2. /\ tail \in Seq(S) /\ Len(tail) = IF i + l <= n THEN n - (i + l) + 1 ELSE 0
          /\ \A k \in 1..(n - (i + l) + 1) : tail[k] = t[i + l + k - 1]
      BY <3>1, SubSeqProperties
    <3>3. (IF i + l <= n THEN n - (i + l) + 1 ELSE 0) = n - (i + l) + 1
      BY <1>1, <2>2
    <3> HIDE DEF tail
    <3>4. QED
      BY <3>2, <3>3
  <2> DEFINE front == head \o new
  <2>5. /\ front \in Seq(S) /\ Len(front) = i - 1 + l
        /\ \A k \in 1..(i - 1 + l) : front[k] = IF k <= i - 1 THEN head[k] ELSE new[k - (i - 1)]
    BY <1>1, <2>3, ConcatProperties
  <2> HIDE DEF head, tail
  <2>6. /\ r \in Seq(S) /\ Len(r) = n
        /\ \A k \in 1..n : r[k] = IF k <= i - 1 + l THEN front[k] ELSE tail[k - (i - 1 + l)]
    <3>1. i - 1 + l + (n - (i + l) + 1) = n
      BY <1>1, <2>2
    <3> HIDE DEF front
    <3>2. /\ front \o tail \in Seq(S) /\ Len(front \o tail) = Len(front) + Len(tail)
          /\ \A k \in 1..(Len(front) + Len(tail)) :
                (front \o tail)[k] = IF k <= Len(front) THEN front[k] ELSE tail[k - Len(front)]
      BY <2>4, <2>5, ConcatProperties
    <3>3. Len(front) + Len(tail) = n
      BY <2>4, <2>5, <3>1
    <3>4. QED
      BY <2>5, <3>2, <3>3 DEF front
  <2> HIDE DEF front, r
  <2>7. ASSUME NEW k \in 1..n PROVE Akin(r[k], s[k])
    <3>0. Akin(t[k], s[k])
      BY <1>1
    <3>1. CASE k <= i - 1
      <4>1. k \in 1..(i - 1) /\ k \in 1..(i - 1 + l) /\ k <= i - 1 + l
        BY <1>1, <2>2, <3>1
      <4>2. r[k] = t[k]
        BY <2>3, <2>5, <2>6, <3>1, <4>1
      <4>3. QED
        BY <3>0, <4>2
    <3>2. CASE ~(k <= i - 1) /\ k <= i - 1 + l
      <4> DEFINE j == k - (i - 1)
      <4>1. k \in 1..(i - 1 + l) /\ j \in 1..l /\ i + j - 1 = k
        BY <1>1, <2>2, <3>2
      <4> HIDE DEF j
      <4>2. r[k] = new[j]
        BY <2>5, <2>6, <3>2, <4>1 DEF j
      <4>3. t[k] = old[j]
        BY <2>2, <4>1
      <4>4. Akin(new[j], old[j])
        BY <1>1, <4>1
      <4>5. QED
        BY <3>0, <4>2, <4>3, <4>4, AkinAlong
    <3>3. CASE ~(k <= i - 1 + l)
      <4> DEFINE j == k - (i - 1 + l)
      <4>1. j \in 1..(n - (i + l) + 1) /\ i + l + j - 1 = k
        BY <1>1, <2>2, <3>3
      <4>2. r[k] = tail[j]
        BY <2>6, <3>3
      <4> HIDE DEF j
      <4>3. tail[j] = t[k]
        BY <2>4, <4>1
      <4>4. QED
        BY <3>0, <4>2, <4>3
    <3>4. QED
      BY <1>1, <2>2, <3>1, <3>2, <3>3
  <2>8. Alike(r, s)
    BY <1>1, <2>6, <2>7 DEF Alike
  <2>9. QED
    BY <2>1, <2>6, <2>8
<1>4. QED
  BY <1>2, <1>3

\* The atoms of a document: the rules have a word for every word.
Letters == {a \in Atoms : a[1] = "cjk" => Rule(a) \in Terms}

\* What the translation writes anew: the words of the source and its
\* full-width marks.
Foreign(a) == a[1] \in {"cjk", "full"}

\* Everything else is kept, and what is written anew is a word, no number, no
\* full-width mark, and the half-width stop for the full-width one only.
LEMMA RenderedAs ==
  ASSUME NEW a
  PROVE  /\ ~Foreign(a) => Rendered(a) = a
         /\ a \in Letters /\ Foreign(a) =>
              /\ a \in Words /\ Rendered(a) \in Words /\ Rendered(a) \in Atoms
              /\ Rendered(a)[1] \notin {"num", "full"} /\ a[1] # "num"
              /\ a # Stop /\ (Rendered(a) = Stop => a = Full(0))
<1>1. ASSUME ~Foreign(a) PROVE Rendered(a) = a
  BY <1>1 DEF Foreign, Rendered
<1>2. ASSUME a \in Letters, Foreign(a)
      PROVE  /\ a \in Words /\ Rendered(a) \in Words /\ Rendered(a) \in Atoms
             /\ Rendered(a)[1] \notin {"num", "full"} /\ a[1] # "num"
             /\ a # Stop /\ (Rendered(a) = Stop => a = Full(0))
  <2>1. /\ a \in Words /\ a[1] # "num" /\ a # Stop /\ a = <<a[1], a[2]>> /\ a[2] \in Nat
    BY <1>2 DEF Letters, Foreign, Atoms, Words, WordKinds, Stop, Half
  <2>2. CASE a[1] = "cjk"
    <3>1. Rendered(a) = Rule(a) /\ Rule(a) \in Terms
      BY <1>2, <2>2 DEF Letters, Rendered
    <3>2. \A b \in Terms : b \in Words /\ b \in Atoms /\ b[1] \notin {"num", "full", "half"}
      BY DEF Terms, Words, Atoms, WordKinds
    <3>3. Stop[1] = "half"
      BY DEF Stop, Half
    <3>4. QED
      BY <2>1, <3>1, <3>2, <3>3
  <2>3. CASE a[1] = "full"
    <3>1. Rendered(a) = <<"half", a[2]>>
      BY <2>3 DEF Rendered, Half
    <3>2. Rendered(a) \in Words /\ Rendered(a) \in Atoms
      BY <2>1, <3>1 DEF Words, Atoms, WordKinds
    <3>3. Rendered(a) = Stop => a = Full(0)
      BY <2>1, <2>3, <3>1 DEF Stop, Half, Full
    <3>4. QED
      BY <2>1, <3>1, <3>2, <3>3
  <2>4. QED
    BY <1>2, <2>2, <2>3 DEF Foreign
<1>3. QED
  BY <1>1, <1>2

\* Translating a text changes its words to words.
LEMMA TranslatedAlike ==
  ASSUME NEW t \in Seq(Stashed(Letters))
  PROVE  /\ Translated(t) \in Seq(Stashed(Atoms)) /\ Alike(Translated(t), t)
<1> DEFINE n == Len(t)
           z == Translated(t)
<1>1. n \in Nat /\ DOMAIN t = 1..n /\ \A i \in 1..n : t[i] \in Stashed(Letters)
  OBVIOUS
<1>2. z = [i \in 1..n |-> Rendered(t[i])]
  BY <1>1 DEF Translated
<1> HIDE DEF n, z
<1>3. ASSUME NEW i \in 1..n PROVE z[i] \in Stashed(Atoms) /\ Akin(z[i], t[i])
  <2>1. CASE Foreign(t[i])
    <3>1. t[i] \in Letters
      BY <1>1, <2>1 DEF Stashed, Foreign
    <3>2. /\ t[i] \in Words /\ Rendered(t[i]) \in Words /\ Rendered(t[i]) \in Atoms
          /\ Rendered(t[i])[1] \notin {"num", "full"} /\ t[i][1] # "num"
          /\ t[i] # Stop /\ (Rendered(t[i]) = Stop => t[i] = Full(0))
      BY <2>1, <3>1, RenderedAs
    <3>3. z[i] = Rendered(t[i])
      BY <1>2
    <3>4. QED
      BY <3>2, <3>3 DEF Akin, Stashed
  <2>2. CASE ~Foreign(t[i])
    <3>1. z[i] = t[i] /\ t[i] \in Stashed(Letters)
      BY <1>1, <1>2, <2>2, RenderedAs
    <3>2. QED
      BY <3>1 DEF Stashed, Letters, Akin
  <2>3. QED
    BY <2>1, <2>2
<1>4. z \in [1..n -> Stashed(Atoms)]
  BY <1>2, <1>3
<1>5. z \in Seq(Stashed(Atoms)) /\ Len(z) = n
  <2>1. z \in Seq(Stashed(Atoms))
    BY <1>1, <1>4, SeqDef
  <2>2. QED
    BY <1>1, <1>4, <2>1
<1>6. QED
  BY <1>3, <1>5 DEF Alike, n, z

\* The key a leaf is looked for by, and its translation, differ in words only.
LEMMA KeyedAlike ==
  ASSUME NEW t \in Seq(Letters)
  PROVE  LeafKeyed(t) \in Seq(Stashed(Atoms)) /\ Alike(Translated(t), LeafKeyed(t))
<1> DEFINE n == Len(t)
           z == Translated(t)
           y == LeafKeyed(t)
<1>1. n \in Nat /\ DOMAIN t = 1..n /\ \A i \in 1..n : t[i] \in Letters
  OBVIOUS
<1>2. y = [i \in 1..n |-> IF t[i][1] = "code" THEN InlineCodeKey(0) ELSE t[i]]
  BY <1>1 DEF LeafKeyed
<1>3. z = [i \in 1..n |-> Rendered(t[i])]
  BY <1>1 DEF Translated
<1>4. Len(z) = n /\ \A i \in 1..n : Akin(z[i], t[i])
  <2>1. t \in Seq(Stashed(Letters))
    <3>1. Letters \subseteq Stashed(Letters)
      BY DEF Stashed
    <3>2. QED
      BY <3>1, SeqMonotonic
  <2>2. QED
    BY <2>1, TranslatedAlike DEF Alike
<1> HIDE DEF n, y, z
<1>5. ASSUME NEW i \in 1..n PROVE y[i] \in Stashed(Atoms) /\ Akin(z[i], y[i])
  <2>1. CASE t[i][1] = "code"
    <3>1. y[i] = InlineCodeKey(0) /\ z[i] = t[i]
      BY <1>2, <1>3, <2>1 DEF Rendered
    <3>2. t[i] \in Words
      BY <1>1, <2>1 DEF Letters, Atoms, Words, WordKinds
    <3>3. InlineCodeKey(0) \in Stashed(Atoms) /\ InlineCodeKey(0)[1] = "INLINE_CODE"
      BY DEF InlineCodeKey, Stashed
    <3>4. InlineCodeKey(0) # Stop /\ t[i] # Stop
      BY <2>1 DEF InlineCodeKey, Stop, Half
    <3>5. QED
      BY <2>1, <3>1, <3>2, <3>3, <3>4 DEF Akin
  <2>2. CASE t[i][1] # "code"
    <3>1. y[i] = t[i] /\ t[i] \in Atoms
      BY <1>1, <1>2, <2>2 DEF Letters
    <3>2. QED
      BY <1>4, <3>1 DEF Stashed
  <2>3. QED
    BY <2>1, <2>2
<1>6. y \in [1..n -> Stashed(Atoms)]
  BY <1>2, <1>5
<1>7. y \in Seq(Stashed(Atoms)) /\ Len(y) = n
  <2>1. y \in Seq(Stashed(Atoms))
    BY <1>1, <1>6, SeqDef
  <2>2. QED
    BY <1>1, <1>6, <2>1
<1>8. QED
  BY <1>4, <1>5, <1>7 DEF Alike, n, y, z

\* So a text stays alike when a translation is placed in it, found or not.
LEMMA PlacedAlike ==
  ASSUME NEW leaf, leaf.text \in Seq(Letters), text \in Seq(Stashed(Atoms)),
         NEW s \in Seq(Stashed(Atoms)), Alike(text, s)
  PROVE  Placed(leaf) \in Seq(Stashed(Atoms)) /\ Alike(Placed(leaf), s)
<1> DEFINE t == leaf.text
           keyed == LeafKeyed(t)
           new == Translated(t)
<1>1. t \in Seq(Stashed(Letters)) /\ t \in Seq(Stashed(Atoms))
  <2>1. Letters \subseteq Stashed(Letters) /\ Letters \subseteq Stashed(Atoms)
    BY DEF Stashed, Letters
  <2>2. QED
    BY <2>1, SeqMonotonic
<1>2. new \in Seq(Stashed(Atoms)) /\ Alike(new, t)
  BY <1>1, TranslatedAlike
<1>3. keyed \in Seq(Stashed(Atoms)) /\ Alike(new, keyed)
  BY KeyedAlike
<1>4. Placed(leaf) = IF Occurs(keyed, text) THEN ReplaceFirst(keyed, new, text)
                     ELSE ReplaceFirst(t, new, text)
  BY DEF Placed
<1> HIDE DEF t, keyed, new
<1>5. /\ ReplaceFirst(keyed, new, text) \in Seq(Stashed(Atoms))
      /\ Alike(ReplaceFirst(keyed, new, text), s)
  BY <1>2, <1>3, ReplacedAlike
<1>6. /\ ReplaceFirst(t, new, text) \in Seq(Stashed(Atoms))
      /\ Alike(ReplaceFirst(t, new, text), s)
  BY <1>1, <1>2, ReplacedAlike
<1>7. QED
  BY <1>4, <1>5, <1>6

-----------------------------------------------------------------------------
(* What a document is made of. *)

BlockKinds == {"heading", "paragraph", "fence", "indented", "hr", "row"}
SourceTexts == {b.text : b \in Blocks}
SourceBlocks ==
    [kind : BlockKinds, text : SourceTexts, atx : BOOLEAN,
     first : Seq(Letters), rest : Seq(Letters), within : Seq(LevelKinds)]

\* What DocumentAssumption says of the texts and of the marks.
LEMMA Assumed ==
  /\ SourceTexts \subseteq Seq(Letters) /\ Texts \subseteq Seq(Letters)
  /\ \A k \in MarkKinds : Mark(k) \in Letters /\ <<Mark(k)>> \in Seq(Letters)
<1>1. \A k \in MarkKinds : Mark(k) \in Letters /\ <<Mark(k)>> \in Seq(Letters)
  <2>1. \A k \in MarkKinds : Mark(k) \in Letters
    BY DEF Mark, Letters, Atoms, MarkKinds
  <2>2. QED
    BY <2>1
<1>2. SourceTexts \subseteq Seq(Letters)
  <2> SUFFICES ASSUME NEW b \in Blocks PROVE b.text \in Seq(Letters)
    BY DEF SourceTexts
  <2>1. /\ b.text \in Seq(Atoms)
        /\ \A i \in DOMAIN b.text : b.text[i][1] = "cjk" => Rule(b.text[i]) \in Terms
    BY DocumentAssumption
  <2> DEFINE t == b.text
             n == Len(t)
  <2>2. n \in Nat /\ t \in [1..n -> Atoms] /\ DOMAIN t = 1..n
    BY <2>1
  <2>3. \A i \in 1..n : t[i] \in Letters
    BY <2>1, <2>2 DEF Letters
  <2> HIDE DEF t, n
  <2>4. t \in [1..n -> Letters]
    BY <2>2, <2>3
  <2>5. t \in Seq(Letters)
    BY <2>2, <2>4, SeqDef
  <2>6. QED
    BY <2>5 DEF t
<1>3. NoText \in Seq(Letters)
  <2>1. "none" \in MarkKinds
    BY DEF MarkKinds
  <2>2. QED
    BY <1>1, <2>1 DEF NoText
<1>4. Texts \subseteq Seq(Letters)
  BY <1>2, <1>3 DEF Texts, SourceTexts
<1>5. QED
  BY <1>1, <1>2, <1>4

\* FlattenSeq of texts over X is a text over X.
LEMMA FlattenTyped ==
  ASSUME NEW X, NEW n \in Nat, NEW f \in [1..n -> Seq(X)]
  PROVE  FlattenSeq(f) \in Seq(X)
<1>1. f \in Seq(Seq(X))
  BY SeqDef
<1>2. PICK g \in [0..Len(f) -> Seq(X)] : FlattenSeq(f) = g[Len(f)]
  BY <1>1, Flattened
<1>3. Len(f) \in 0..Len(f)
  BY <1>1, LenProperties
<1>4. QED
  BY <1>2, <1>3

\* The marks before a line are atoms of a document.
LEMMA MarksTyped ==
  ASSUME nest \in Seq(Levels), NEW first \in BOOLEAN
  PROVE  Marks(first) \in Seq(Letters)
<1> DEFINE n == Len(nest)
           Of(level) == CASE level.kind = "quote" -> <<Mark(">")>>
                          [] level.kind = "item" ->
                               <<IF first /\ level.children = 0 THEN Mark("-") ELSE Indent>>
                          [] level.kind \notin {"quote", "item"} -> <<>>
           f == [i \in DOMAIN nest |-> Of(nest[i])]
<1>1. n \in Nat /\ DOMAIN nest = 1..n
  BY LenProperties
<1> HIDE DEF f, n
<1>1a. /\ <<Mark(">")>> \in Seq(Letters) /\ <<Mark("-")>> \in Seq(Letters)
      /\ <<Indent>> \in Seq(Letters)
  <2>1. ">" \in MarkKinds /\ "-" \in MarkKinds /\ " " \in MarkKinds
    BY DEF MarkKinds
  <2>2. QED
    BY <2>1, Assumed DEF Indent
<1>2. ASSUME NEW level PROVE Of(level) \in Seq(Letters)
  <2>1. /\ <<Mark(">")>> \in Seq(Letters) /\ <<Mark("-")>> \in Seq(Letters)
        /\ <<Indent>> \in Seq(Letters) /\ <<>> \in Seq(Letters)
    BY <1>1a
  <2>2. CASE level.kind = "quote"
    BY <2>1, <2>2
  <2>3. CASE level.kind = "item"
    BY <2>1, <2>3
  <2>4. CASE level.kind \notin {"quote", "item"}
    BY <2>1, <2>4
  <2>5. QED
    BY <2>2, <2>3, <2>4
<1> HIDE DEF Of
<1>3. f \in [1..n -> Seq(Letters)]
  BY <1>1, <1>2 DEF f
<1>4. FlattenSeq(f) \in Seq(Letters)
  <2> HIDE DEF f
  <2>1. QED
    BY <1>1, <1>3, FlattenTyped
<1>5. Marks(first) = FlattenSeq(f)
  BY DEF Marks, Of, f
<1>6. QED
  BY <1>4, <1>5

\* The lines of a block are texts of such atoms.
LEMMA LinesOfTyped ==
  ASSUME NEW b \in SourceBlocks
  PROVE  LinesOf(b, b.text) \in Seq(Seq(Letters))
<1> DEFINE t == b.text
           L == Seq(Letters)
<1>1. t \in L /\ b.kind \in BlockKinds /\ b.atx \in BOOLEAN
  BY Assumed DEF SourceBlocks
<1>2. /\ <<Hash>> \in L /\ <<Under>> \in L /\ <<Fence>> \in L /\ <<Indent>> \in L
      /\ <<Mark("---")>> \in L /\ <<Mark("|")>> \in L
  BY Assumed DEF MarkKinds, Hash, Under, Fence, Indent
<1>3. Lines(t) \in Seq(L)
  BY <1>1, LinesTyped
<1> HIDE DEF t
<1>4. /\ <<Hash>> \o t \in L /\ <<Indent>> \o t \in L /\ <<Mark("|")>> \o t \o <<Mark("|")>> \in L
  BY <1>1, <1>2
<1> HIDE DEF L
<1>5. /\ << <<Hash>> \o t >> \in Seq(L) /\ << <<Indent>> \o t >> \in Seq(L)
      /\ << <<Mark("|")>> \o t \o <<Mark("|")>> >> \in Seq(L)
      /\ << <<Under>> >> \in Seq(L) /\ << <<Fence>> >> \in Seq(L) /\ << <<Mark("---")>> >> \in Seq(L)
  BY <1>2, <1>4
<1>6. /\ Lines(t) \o << <<Under>> >> \in Seq(L)
      /\ << <<Fence>> >> \o Lines(t) \o << <<Fence>> >> \in Seq(L)
  BY <1>3, <1>5
<1>7. CASE b.kind = "heading" /\ b.atx
  BY <1>5, <1>7 DEF LinesOf, L, t
<1>8. CASE b.kind = "heading" /\ ~b.atx
  BY <1>6, <1>8 DEF LinesOf, L, t
<1>9. CASE b.kind = "fence"
  BY <1>6, <1>9 DEF LinesOf, L, t
<1>10. CASE b.kind = "indented"
  BY <1>5, <1>10 DEF LinesOf, L, t
<1>11. CASE b.kind = "hr"
  BY <1>5, <1>11 DEF LinesOf, L, t
<1>12. CASE b.kind = "row"
  BY <1>5, <1>12 DEF LinesOf, L, t
<1>13. CASE b.kind = "paragraph"
  BY <1>3, <1>13 DEF LinesOf, L, t
<1>14. QED
  BY <1>1, <1>7, <1>8, <1>9, <1>10, <1>11, <1>12, <1>13 DEF BlockKinds

\* So is the source.
LEMMA SourceTyped ==
  ASSUME input \in Seq(SourceBlocks)
  PROVE  Source \in Seq(Letters)
<1> DEFINE n == Len(input)
           Line(b, ls, i) == (IF i = 1 THEN b.first ELSE b.rest) \o ls[i] \o <<Nl>>
           Written(b) == LET ls == LinesOf(b, b.text)
                         IN  FlattenSeq([i \in DOMAIN ls |-> Line(b, ls, i)])
           f == [i \in DOMAIN input |-> Written(input[i]) \o <<Nl>>]
<1>1. n \in Nat /\ DOMAIN input = 1..n /\ \A i \in 1..n : input[i] \in SourceBlocks
  OBVIOUS
<1>2. <<Nl>> \in Seq(Letters)
  BY Assumed DEF MarkKinds, Nl
<1>3. ASSUME NEW b \in SourceBlocks PROVE Written(b) \in Seq(Letters)
  <2> DEFINE ls == LinesOf(b, b.text)
             m == Len(ls)
             g == [i \in DOMAIN ls |-> Line(b, ls, i)]
  <2>1. ls \in Seq(Seq(Letters)) /\ b.first \in Seq(Letters) /\ b.rest \in Seq(Letters)
    BY LinesOfTyped DEF SourceBlocks
  <2> HIDE DEF ls
  <2>2. m \in Nat /\ DOMAIN ls = 1..m /\ \A i \in 1..m : ls[i] \in Seq(Letters)
    BY <2>1
  <2>3. \A i \in 1..m : Line(b, ls, i) \in Seq(Letters)
    BY <1>2, <2>1, <2>2
  <2> HIDE DEF Line, m
  <2>4. g \in [1..m -> Seq(Letters)]
    BY <2>2, <2>3
  <2>5. FlattenSeq(g) \in Seq(Letters)
    <3> HIDE DEF g
    <3>1. QED
      BY <2>2, <2>4, FlattenTyped
  <2>6. QED
    BY <2>5 DEF ls
<1>4. Source = FlattenSeq(f)
  BY DEF Source, Emitted
<1> HIDE DEF Written, n
<1>5. \A i \in 1..n : Written(input[i]) \o <<Nl>> \in Seq(Letters)
  BY <1>1, <1>2, <1>3
<1>6. f \in [1..n -> Seq(Letters)]
  BY <1>1, <1>5
<1>7. FlattenSeq(f) \in Seq(Letters)
  <2> HIDE DEF f
  <2>1. QED
    BY <1>1, <1>6, FlattenTyped
<1>8. QED
  BY <1>4, <1>7

-----------------------------------------------------------------------------
(* The structure of the document survives. *)

\* From the stashing of the code to its restoring the text at work differs
\* from the stashed source in its words and full-width marks only, and the
\* placeholders stand for what they stood for, unless the document has no
\* leaves: then it is translated as a whole and loses the ends of its text.
TextInv ==
    /\ input \in Seq(SourceBlocks)
    /\ phase \in {"translate", "restore"} /\ Leaves # {} =>
         /\ text \in Seq(Stashed(Atoms)) /\ Alike(text, Stash(Source).text)
         /\ originals = Stash(Source).originals
    /\ StructureSurvives

\* The stashed source has placeholders for code and atoms for the rest, and its
\* restoring is the source.
LEMMA SourceStashed ==
  ASSUME input \in Seq(SourceBlocks)
  PROVE  LET s == Stash(Source)
         IN  /\ s.text \in Seq(Stashed(Letters)) /\ s.text \in Seq(Stashed(Atoms))
             /\ Alike(s.text, s.text)
             /\ KeysKept(s.text, s.originals) /\ Restore(s.text, s.originals) = Source
<1>1. Source \in Seq(Letters) /\ Letters \subseteq Atoms
  BY SourceTyped DEF Letters
<1> DEFINE s == Stash(Source)
<1>2. /\ s.text \in Seq(Stashed(Letters))
      /\ KeysKept(s.text, s.originals) /\ Restore(s.text, s.originals) = Source
  BY <1>1, CodeStashed
<1> HIDE DEF s
<1>3. s.text \in Seq(Stashed(Atoms))
  <2>1. Stashed(Letters) \subseteq Stashed(Atoms)
    BY <1>1 DEF Stashed
  <2>2. QED
    BY <1>2, <2>1, SeqMonotonic
<1>4. Alike(s.text, s.text)
  BY DEF Alike, Akin
<1>5. QED
  BY <1>2, <1>3, <1>4 DEF s

\* The document, the map and the stashed source stay when the input and the
\* nodes do.
LEMMA SourceStays ==
  ASSUME UNCHANGED <<input, nodes>>
  PROVE  Source' = Source /\ Stash(Source)' = Stash(Source) /\ Leaves' = Leaves
<1>1. Source' = Source
  BY DEF Source, Emitted, LinesOf
<1>2. Leaves' = Leaves
  BY DEF Leaves, IsLeaf, IsDupParagraph
<1>3. QED
  BY <1>1, <1>2

\* A block more of the document keeps TextInv: the block is typed.
LEMMA ParsedKeeps ==
  ASSUME TypeInv, TextInv, NEW b \in Blocks, ParseBlock(b)
  PROVE  TextInv'
<1>1. nest \in Seq(Levels) /\ input \in Seq(SourceBlocks)
  BY DEF TypeInv, TextInv
<1> DEFINE n == Len(nest)
           within == [i \in DOMAIN nest |-> nest[i].kind]
           new == [kind |-> b.kind, text |-> b.text, atx |-> b.atx,
                   first |-> Marks(TRUE), rest |-> Marks(FALSE), within |-> within]
<1>2. within \in Seq(LevelKinds)
  <2>1. n \in Nat /\ DOMAIN nest = 1..n /\ \A i \in 1..n : nest[i].kind \in LevelKinds
    <3>1. n \in Nat /\ DOMAIN nest = 1..n /\ \A i \in 1..n : nest[i] \in Levels
      BY <1>1
    <3>2. \A l \in Levels : l.kind \in LevelKinds
      BY DEF Levels
    <3>3. QED
      BY <3>1, <3>2
  <2> HIDE DEF n
  <2>2. within \in [1..n -> LevelKinds]
    BY <2>1
  <2> HIDE DEF within
  <2>3. QED
    BY <2>1, <2>2, SeqDef
<1>3. Marks(TRUE) \in Seq(Letters) /\ Marks(FALSE) \in Seq(Letters)
  BY <1>1, MarksTyped
<1>4. b.kind \in BlockKinds /\ b.text \in SourceTexts /\ b.atx \in BOOLEAN
  BY DocumentAssumption DEF BlockKinds, SourceTexts
<1> HIDE DEF within
<1>5. new \in SourceBlocks
  BY <1>2, <1>3, <1>4 DEF SourceBlocks
<1>6. input' = Append(input, new) /\ phase' = "parse"
  BY DEF ParseBlock, within
<1> HIDE DEF new
<1>7. input' \in Seq(SourceBlocks)
  BY <1>1, <1>5, <1>6
<1>8. QED
  BY <1>6, <1>7 DEF TextInv, StructureSurvives

\* A leaf translated, wherever its translation lands, keeps TextInv.
LEMMA TranslationKeeps ==
  ASSUME TypeInv, TextInv, TranslateLeaf
  PROVE  TextInv'
<1>1. PICK i \in Leaves : text' = Placed(nodes[i])
  BY DEF TranslateLeaf
<1>0. Leaves # {}
  BY <1>1
<1>2. UNCHANGED <<input, nodes>> /\ phase = "translate" /\ phase' = phase /\ originals' = originals
  BY DEF TranslateLeaf, document, smap
<1>3. nodes[i].text \in Seq(Letters)
  <2>1. nodes \in Seq(NodeRecords) /\ i \in 1..Len(nodes)
    BY DEF TypeInv, Leaves
  <2>2. nodes[i] \in NodeRecords
    BY <2>1
  <2>3. QED
    BY <2>2, Assumed DEF NodeRecords
<1>4. /\ input \in Seq(SourceBlocks) /\ text \in Seq(Stashed(Atoms))
      /\ Alike(text, Stash(Source).text) /\ originals = Stash(Source).originals
  BY <1>0, <1>2 DEF TextInv
<1>5. Stash(Source).text \in Seq(Stashed(Atoms))
  BY <1>4, SourceStashed
<1>6. text' \in Seq(Stashed(Atoms)) /\ Alike(text', Stash(Source).text)
  BY <1>1, <1>3, <1>4, <1>5, PlacedAlike
<1>7. Source' = Source /\ Leaves' = Leaves
  BY <1>2, SourceStays
<1>8. QED
  BY <1>0, <1>1, <1>2, <1>4, <1>6, <1>7 DEF TextInv, StructureSurvives

\* The text at work begins as the stashed source.
LEMMA StashingKeeps ==
  ASSUME TextInv, EndOfDocument
  PROVE  TextInv'
<1>1. /\ UNCHANGED <<input, nodes>> /\ phase' = "translate"
      /\ text' = Stash(Source).text /\ originals' = Stash(Source).originals
  BY DEF EndOfDocument, document, smap
<1>2. input \in Seq(SourceBlocks)
  BY DEF TextInv
<1>3. Stash(Source).text \in Seq(Stashed(Atoms)) /\ Alike(Stash(Source).text, Stash(Source).text)
  BY <1>2, SourceStashed
<1>4. Source' = Source
  BY <1>1, SourceStays
<1>5. QED
  BY <1>1, <1>2, <1>3, <1>4 DEF TextInv, StructureSurvives

\* A document without leaves has none when it was translated as one text.
LEMMA WholeKeeps ==
  ASSUME TextInv, TranslateWhole
  PROVE  TextInv'
<1>1. UNCHANGED <<input, nodes>> /\ phase' = "restore" /\ Leaves = {}
  BY DEF TranslateWhole, document, smap
<1>2. Leaves' = {}
  BY <1>1, SourceStays
<1>3. QED
  BY <1>1, <1>2 DEF TextInv, StructureSurvives

\* Restoring the code ends with the counts of the source.
LEMMA RestoringKeeps ==
  ASSUME TextInv, RestoreCode
  PROVE  TextInv'
<1>1. /\ UNCHANGED <<input, nodes>> /\ phase = "restore" /\ phase' = "rewrite"
      /\ text' = Restore(text, originals)
  BY DEF RestoreCode, document, smap
<1>0. Leaves' = Leaves
  BY <1>1, SourceStays
<1>5. CASE Leaves = {}
  BY <1>0, <1>1, <1>5 DEF TextInv, StructureSurvives
<1> SUFFICES ASSUME Leaves # {} PROVE TextInv'
  BY <1>5
<1> DEFINE s == Stash(Source)
<1>2. /\ input \in Seq(SourceBlocks) /\ text \in Seq(Stashed(Atoms))
      /\ Alike(text, s.text) /\ originals = s.originals
  BY <1>1 DEF TextInv
<1>3. /\ s.text \in Seq(Stashed(Atoms)) /\ KeysKept(s.text, s.originals)
      /\ Restore(s.text, s.originals) = Source
  BY <1>2, SourceStashed
<1> HIDE DEF s
<1>4. Alike(text', Source) /\ text' \in Seq(Atoms) /\ Source \in Seq(Atoms)
  BY <1>1, <1>2, <1>3, RestoreAlike
<1>6. CountsSurvive(Source, text')
  BY <1>4, SameCounts
<1>7. Source' = Source
  BY <1>1, SourceStays
<1>8. QED
  BY <1>1, <1>2, <1>6, <1>7 DEF TextInv, StructureSurvives

\* TextInv holds before every step.
THEOREM TextInvariant == Spec => []TextInv
<1>1. Init => TextInv
  BY DEF Init, TextInv, StructureSurvives
<1>2. DocumentInv /\ TextInv /\ [Next]_vars => TextInv'
  <2> SUFFICES ASSUME DocumentInv, TextInv, [Next]_vars PROVE TextInv'
    OBVIOUS
  <2>1. TypeInv
    BY DEF DocumentInv
  <2>2. ASSUME NEW b \in Blocks, ParseBlock(b) PROVE TextInv'
    BY <2>1, <2>2, ParsedKeeps
  <2>3. CASE (\E c \in Containers : Open(c)) \/ Close
    <3>1. input' = input /\ phase' = "parse"
      BY <2>3 DEF Open, Close
    <3>2. QED
      BY <3>1 DEF TextInv, StructureSurvives
  <2>4. CASE EndOfDocument
    BY <2>4, StashingKeeps
  <2>5. CASE TranslateLeaf
    BY <2>1, <2>5, TranslationKeeps
  <2>6. CASE TranslateWhole
    BY <2>6, WholeKeeps
  <2>7. CASE LeavesDone
    <3>1. /\ UNCHANGED <<input, nodes, text, originals>>
          /\ phase = "translate" /\ phase' = "restore"
      BY <2>7 DEF LeavesDone, document, smap
    <3>2. Source' = Source /\ Leaves' = Leaves
      BY <3>1, SourceStays
    <3>3. QED
      BY <3>1, <3>2 DEF TextInv, StructureSurvives
  <2>8. CASE RestoreCode
    BY <2>8, RestoringKeeps
  <2>9. CASE NormalizeAnchors \/ BindHeading \/ RewriteAnchors
    <3>1. input' = input /\ phase' \in {"bind", "done"}
      BY <2>9 DEF NormalizeAnchors, BindHeading, RewriteAnchors, document
    <3>2. QED
      BY <3>1 DEF TextInv, StructureSurvives
  <2>10. CASE UNCHANGED vars
    <3>1. UNCHANGED <<input, nodes, phase, text, originals>>
      BY <2>10 DEF vars, document, smap
    <3>2. Source' = Source /\ Leaves' = Leaves
      BY <3>1, SourceStays
    <3>3. QED
      BY <3>1, <3>2 DEF TextInv, StructureSurvives
  <2>11. QED
    BY <2>2, <2>3, <2>4, <2>5, <2>6, <2>7, <2>8, <2>9, <2>10 DEF Next
<1>3. QED
  BY <1>1, <1>2, DocumentInvariant, PTL DEF Spec

\* The counts of verify_output are those of the source when the translations
\* are in and the code is back, whatever the leaves are and wherever their
\* translations land; but for the list items full-width stops make.
THEOREM StructureKept == Spec => []StructureSurvives
<1>1. TextInv => StructureSurvives
  BY DEF TextInv
<1>2. QED
  BY <1>1, TextInvariant, PTL

-----------------------------------------------------------------------------
(* Texts: induction, and a part replaced. *)

\* A set of texts with the empty one, and every text of it with an atom more,
\* has all texts.
LEMMA AllTexts ==
  ASSUME NEW A, NEW S \in SUBSET Seq(A), <<>> \in S,
         \A t \in S : \A a \in A : Append(t, a) \in S
  PROVE  S = Seq(A)
<1> DEFINE N == {n \in Nat : \A t \in Seq(A) : Len(t) = n => t \in S}
<1>1. 0 \in N
  <2> SUFFICES ASSUME NEW t \in Seq(A), Len(t) = 0 PROVE t \in S
    OBVIOUS
  <2>1. t = <<>>
    BY EmptySeq
  <2>2. QED
    BY <2>1
<1>2. ASSUME NEW n \in N PROVE n + 1 \in N
  <2> SUFFICES ASSUME NEW t \in Seq(A), Len(t) = n + 1 PROVE t \in S
    OBVIOUS
  <2>1. t # <<>>
    OBVIOUS
  <2>2. PICK u \in Seq(A), a \in A : t = Append(u, a)
    BY <2>1, SequenceEmptyOrAppend
  <2>3. Len(t) = Len(u) + 1 /\ Len(u) \in Nat /\ n \in Nat
    BY <2>2, AppendProperties, LenProperties
  <2>4. Len(u) = n
    BY <2>3
  <2>5. u \in S
    BY <2>4
  <2>6. QED
    BY <2>2, <2>5
<1>3. N = Nat
  <2> HIDE DEF N
  <2>1. QED
    BY <1>1, <1>2, AllNumbers DEF N
<1>4. ASSUME NEW t \in Seq(A) PROVE t \in S
  <2>1. Len(t) \in N
    BY <1>3
  <2>2. QED
    BY <2>1
<1>5. QED
  BY <1>4

\* Where old is found first, and t with new from place i.
FirstAt(i, old, t) == i \in Positions(old, t) /\ \A j \in Positions(old, t) : i <= j
Rewritten(r, i, new, t) ==
    /\ Len(r) = Len(t)
    /\ \A k \in 1..Len(t) : r[k] = IF i <= k /\ k < i + Len(new) THEN new[k - i + 1] ELSE t[k]

\* ReplaceFirst rewrites the first place and nothing else.
LEMMA ReplacedAt ==
  ASSUME NEW S, NEW t \in Seq(S), NEW old \in Seq(S), NEW new \in Seq(S),
         Len(new) = Len(old), Occurs(old, t)
  PROVE  /\ ReplaceFirst(old, new, t) \in Seq(S)
         /\ \E i \in 1..(Len(t) + 1) :
              FirstAt(i, old, t) /\ Rewritten(ReplaceFirst(old, new, t), i, new, t)
<1> DEFINE P == Positions(old, t)
           i == CHOOSE p \in P : \A q \in P : p <= q
           n == Len(t)
           l == Len(old)
           head == SubSeq(t, 1, i - 1)
           tail == SubSeq(t, i + l, n)
           r == head \o new \o tail
<1>1. /\ n \in Nat /\ l \in Nat /\ Len(new) = l
      /\ DOMAIN t = 1..n /\ DOMAIN old = 1..l
  OBVIOUS
<1>2. P # {}
  BY DEF Occurs
<1>3. ReplaceFirst(old, new, t) = r
  BY <1>2 DEF ReplaceFirst, ReplaceSubSeqAt
<1>4. i \in 1..(n - l + 1) /\ FirstAt(i, old, t)
  <2>1. P \subseteq Nat
    BY <1>1 DEF Positions
  <2> DEFINE least == CHOOSE p \in P : \A q \in P : p <= q
  <2>2. least \in P /\ \A q \in P : least <= q
    <3> HIDE DEF P
    <3>1. QED
      BY <1>2, <2>1, FirstOf
  <2>3. i = least
    OBVIOUS
  <2> HIDE DEF least, i
  <2>4. i \in P /\ \A q \in P : i <= q
    BY <2>2, <2>3
  <2>5. QED
    BY <1>1, <2>4 DEF Positions, FirstAt
<1> HIDE DEF i, P
<1>5. /\ head \in Seq(S) /\ Len(head) = i - 1
      /\ \A k \in 1..(i - 1) : head[k] = t[k]
  <2>1. 1 \in Int /\ i - 1 \in Int /\ \A k \in 1..(i - 1) : t[k] \in S
    BY <1>1, <1>4
  <2>2. /\ head \in Seq(S) /\ Len(head) = IF 1 <= i - 1 THEN i - 1 - 1 + 1 ELSE 0
        /\ \A k \in 1..(i - 1 - 1 + 1) : head[k] = t[1 + k - 1]
    BY <2>1, SubSeqProperties
  <2> HIDE DEF head
  <2>3. \A k \in 1..(i - 1) : k \in 1..(i - 1 - 1 + 1) /\ 1 + k - 1 = k
    BY <1>1, <1>4
  <2>4. (IF 1 <= i - 1 THEN i - 1 - 1 + 1 ELSE 0) = i - 1
    BY <1>1, <1>4
  <2>5. \A k \in 1..(i - 1) : head[k] = t[k]
    <3> SUFFICES ASSUME NEW k \in 1..(i - 1) PROVE head[k] = t[k]
      OBVIOUS
    <3>1. head[k] = t[1 + k - 1]
      BY <2>2, <2>3
    <3>2. 1 + k - 1 = k
      BY <2>3
    <3>3. QED
      BY <3>1, <3>2
  <2>6. QED
    BY <2>2, <2>4, <2>5
<1>6. /\ tail \in Seq(S) /\ Len(tail) = n - (i + l) + 1
      /\ \A k \in 1..(n - (i + l) + 1) : tail[k] = t[i + l + k - 1]
  <2>1. i + l \in Int /\ n \in Int /\ \A k \in (i + l)..n : t[k] \in S
    BY <1>1, <1>4
  <2>2. /\ tail \in Seq(S) /\ Len(tail) = IF i + l <= n THEN n - (i + l) + 1 ELSE 0
        /\ \A k \in 1..(n - (i + l) + 1) : tail[k] = t[i + l + k - 1]
    BY <2>1, SubSeqProperties
  <2>3. (IF i + l <= n THEN n - (i + l) + 1 ELSE 0) = n - (i + l) + 1
    BY <1>1, <1>4
  <2> HIDE DEF tail
  <2>4. QED
    BY <2>2, <2>3
<1> DEFINE front == head \o new
<1>7. /\ front \in Seq(S) /\ Len(front) = i - 1 + l
      /\ \A k \in 1..(i - 1 + l) : front[k] = IF k <= i - 1 THEN head[k] ELSE new[k - (i - 1)]
  BY <1>1, <1>5, ConcatProperties
<1> HIDE DEF head, tail
<1>8. /\ r \in Seq(S) /\ Len(r) = n
      /\ \A k \in 1..n : r[k] = IF k <= i - 1 + l THEN front[k] ELSE tail[k - (i - 1 + l)]
  <2>1. i - 1 + l + (n - (i + l) + 1) = n
    BY <1>1, <1>4
  <2> HIDE DEF front
  <2>2. /\ front \o tail \in Seq(S) /\ Len(front \o tail) = Len(front) + Len(tail)
        /\ \A k \in 1..(Len(front) + Len(tail)) :
              (front \o tail)[k] = IF k <= Len(front) THEN front[k] ELSE tail[k - Len(front)]
    BY <1>6, <1>7, ConcatProperties
  <2>3. Len(front) + Len(tail) = n
    BY <1>6, <1>7, <2>1
  <2>4. QED
    BY <1>7, <2>2, <2>3 DEF front
<1> HIDE DEF front, r
<1>9. ASSUME NEW k \in 1..n
      PROVE  r[k] = IF i <= k /\ k < i + l THEN new[k - i + 1] ELSE t[k]
  <2>1. CASE k <= i - 1
    <3>1. k \in 1..(i - 1) /\ k \in 1..(i - 1 + l) /\ k <= i - 1 + l /\ ~(i <= k)
      BY <1>1, <1>4, <2>1
    <3>2. r[k] = t[k]
      BY <1>5, <1>7, <1>8, <2>1, <3>1
    <3>3. QED
      BY <3>1, <3>2
  <2>2. CASE ~(k <= i - 1) /\ k <= i - 1 + l
    <3> DEFINE j == k - (i - 1)
    <3>1. k \in 1..(i - 1 + l) /\ i <= k /\ k < i + l /\ j = k - i + 1
      BY <1>1, <1>4, <2>2
    <3> HIDE DEF j
    <3>2. r[k] = new[j]
      BY <1>7, <1>8, <2>2, <3>1 DEF j
    <3>3. QED
      BY <3>1, <3>2
  <2>3. CASE ~(k <= i - 1 + l)
    <3> DEFINE j == k - (i - 1 + l)
    <3>1. j \in 1..(n - (i + l) + 1) /\ i + l + j - 1 = k /\ ~(k < i + l)
      BY <1>1, <1>4, <2>3
    <3>2. r[k] = tail[j]
      BY <1>8, <2>3
    <3> HIDE DEF j
    <3>3. tail[j] = t[k]
      BY <1>6, <3>1
    <3>4. QED
      BY <3>1, <3>2, <3>3
  <2>4. QED
    BY <1>1, <1>4, <2>1, <2>2, <2>3
<1>10. Rewritten(r, i, new, t)
  BY <1>1, <1>8, <1>9 DEF Rewritten
<1>11. i \in 1..(Len(t) + 1)
  BY <1>1, <1>4
<1>12. QED
  BY <1>3, <1>4, <1>8, <1>10, <1>11

-----------------------------------------------------------------------------
(* A leaf is found where it is. *)

\* The text s with the atoms at the places D translated.
Turned(t, s, D) ==
    /\ Len(t) = Len(s)
    /\ \A p \in 1..Len(s) : t[p] = IF p \in D THEN Rendered(s[p]) ELSE s[p]
\* The leaf w lies in s at place r, and the places of D are not among its own.
Lies(w, s, r) ==
    /\ r \in Nat \ {0} /\ r + Len(w) <= Len(s) + 1
    /\ \A j \in 1..Len(w) : s[r + j - 1] = w[j]
Apart(D, w, r) == \A p \in D : ~(r <= p /\ p < r + Len(w))
\* What is before place r is translated, or there is nothing to translate.
Behind(D, s, r) == \A p \in 1..Len(s) : p < r => p \in D \/ Rendered(s[p]) = s[p]
\* The rules leave a translation as it is.
Steady(s) == \A p \in 1..Len(s) : Rendered(Rendered(s[p])) = Rendered(s[p])

\* A text is translated atom by atom, in place.
LEMMA TranslatedAt ==
  ASSUME NEW S, NEW t \in Seq(S)
  PROVE  /\ DOMAIN Translated(t) = 1..Len(t)
         /\ \A i \in 1..Len(t) : Translated(t)[i] = Rendered(t[i])
         /\ \A X : (\A i \in 1..Len(t) : Rendered(t[i]) \in X)
                      => Translated(t) \in Seq(X) /\ Len(Translated(t)) = Len(t)
<1>1. Len(t) \in Nat /\ DOMAIN t = 1..Len(t)
  OBVIOUS
<1>2. Translated(t) = [i \in 1..Len(t) |-> Rendered(t[i])]
  BY <1>1 DEF Translated, Rendered
<1>3. ASSUME NEW X, \A i \in 1..Len(t) : Rendered(t[i]) \in X
      PROVE  Translated(t) \in Seq(X) /\ Len(Translated(t)) = Len(t)
  <2>1. Translated(t) \in [1..Len(t) -> X]
    BY <1>2, <1>3
  <2>2. Translated(t) \in Seq(X)
    BY <1>1, <2>1, SeqDef
  <2>3. QED
    BY <1>1, <2>1, <2>2, LenProperties
<1>4. QED
  BY <1>2, <1>3

\* When the text before a leaf is translated, the search for the leaf finds its
\* own place, or one where replacing changes nothing.
LEMMA TurnedNext ==
  ASSUME NEW S, NEW s \in Seq(S), NEW t \in Seq(S), NEW w \in Seq(S), Translated(w) \in Seq(S),
         NEW D, NEW r, Turned(t, s, D), Lies(w, s, r), Apart(D, w, r), Behind(D, s, r), Steady(s)
  PROVE  LET u == ReplaceFirst(w, Translated(w), t)
         IN  Occurs(w, t) /\ u \in Seq(S) /\ Turned(u, s, D \cup (r..(r + Len(w) - 1)))
<1> DEFINE n == Len(s)
           l == Len(w)
           new == Translated(w)
           u == ReplaceFirst(w, new, t)
           R == r..(r + l - 1)
<1>1. /\ n \in Nat /\ l \in Nat /\ Len(t) = n /\ DOMAIN w = 1..l
      /\ r \in Nat \ {0} /\ r + l <= n + 1
  BY DEF Turned, Lies
<1>2. Len(new) = l /\ \A j \in 1..l : new[j] = Rendered(w[j])
  <2>1. DOMAIN new = 1..l /\ \A j \in 1..l : new[j] = Rendered(w[j])
    BY TranslatedAt
  <2>2. Len(new) = l
    BY <1>1, <2>1
  <2>3. QED
    BY <2>1, <2>2
<1>3. \A j \in 1..l : r + j - 1 \in 1..n /\ t[r + j - 1] = w[j] /\ s[r + j - 1] = w[j]
  <2> SUFFICES ASSUME NEW j \in 1..l
               PROVE  r + j - 1 \in 1..n /\ t[r + j - 1] = w[j] /\ s[r + j - 1] = w[j]
    OBVIOUS
  <2> DEFINE p == r + j - 1
  <2>1. p \in 1..n /\ r <= p /\ p < r + l
    BY <1>1
  <2>2. s[p] = w[j]
    BY DEF Lies
  <2> HIDE DEF p
  <2>3. p \notin D
    BY <2>1 DEF Apart
  <2>4. t[p] = s[p]
    BY <2>1, <2>3 DEF Turned
  <2>5. QED
    BY <2>1, <2>2, <2>4 DEF p
<1>4. r \in Positions(w, t)
  <2>1. r \in 1..(n - l + 1)
    BY <1>1
  <2>2. QED
    BY <1>1, <1>3, <2>1 DEF Positions
<1>5. Occurs(w, t)
  BY <1>4 DEF Occurs
<1> HIDE DEF new, u
<1>6. u \in Seq(S) /\ \E i \in 1..(n + 1) : FirstAt(i, w, t) /\ Rewritten(u, i, new, t)
  BY <1>1, <1>2, <1>5, ReplacedAt DEF new, u
<1>7. PICK i \in 1..(n + 1) : FirstAt(i, w, t) /\ Rewritten(u, i, new, t)
  BY <1>6
<1>8. /\ i <= r /\ (\A j \in 1..l : t[i + j - 1] = w[j])
      /\ Len(u) = n
      /\ \A k \in 1..n : u[k] = IF i <= k /\ k < i + l THEN new[k - i + 1] ELSE t[k]
  <2>1. i <= r /\ i \in Positions(w, t)
    BY <1>4, <1>7 DEF FirstAt
  <2>2. QED
    BY <1>1, <1>2, <1>7, <2>1 DEF Positions, Rewritten
<1>9. \A p \in 1..n : p < r => Rendered(t[p]) = t[p]
  <2> SUFFICES ASSUME NEW p \in 1..n, p < r PROVE Rendered(t[p]) = t[p]
    OBVIOUS
  <2>1. t[p] = IF p \in D THEN Rendered(s[p]) ELSE s[p]
    BY DEF Turned
  <2>2. Rendered(Rendered(s[p])) = Rendered(s[p])
    BY DEF Steady
  <2>3. p \in D \/ Rendered(s[p]) = s[p]
    BY DEF Behind
  <2>4. QED
    BY <2>1, <2>2, <2>3
<1>10. i = r \/ \A j \in 1..l : Rendered(w[j]) = w[j]
  <2> DEFINE J == {j \in 1..l : Rendered(w[j]) # w[j]}
  <2> SUFFICES ASSUME i # r, J # {} PROVE FALSE
    OBVIOUS
  <2> DEFINE m == CHOOSE k \in J : \A j \in J : k <= j
  <2>1. m \in J /\ \A j \in J : m <= j
    <3>1. J \subseteq Nat
      BY <1>1
    <3> HIDE DEF J
    <3>2. QED
      BY <3>1, FirstOf
  <2> HIDE DEF m
  <2> DEFINE q == i + m - 1
             j == q - r + 1
  <2>2. m \in 1..l /\ q \in 1..n /\ i < r /\ q < r + m - 1
    BY <1>1, <1>7, <1>8, <2>1
  <2>3. t[q] = w[m] /\ Rendered(w[m]) # w[m]
    BY <1>8, <2>1
  <2> HIDE DEF q
  <2>4. ~(q < r)
    BY <1>9, <2>2, <2>3
  <2>5. j \in 1..l /\ j < m /\ r + j - 1 = q
    BY <1>1, <2>2, <2>4
  <2> HIDE DEF j
  <2>6. t[q] = w[j]
    BY <1>3, <2>5
  <2>7. j \in J
    BY <2>3, <2>5, <2>6
  <2>8. QED
    BY <1>1, <2>1, <2>2, <2>5, <2>7
<1>11. ASSUME NEW k \in 1..n
       PROVE  u[k] = IF k \in D \cup R THEN Rendered(s[k]) ELSE s[k]
  <2>1. t[k] = IF k \in D THEN Rendered(s[k]) ELSE s[k]
    BY DEF Turned
  <2>2. k \in R <=> r <= k /\ k < r + l
    BY <1>1
  <2>3. k \in R => s[k] = w[k - r + 1] /\ t[k] = s[k] /\ k - r + 1 \in 1..l
    <3> SUFFICES ASSUME k \in R PROVE s[k] = w[k - r + 1] /\ t[k] = s[k] /\ k - r + 1 \in 1..l
      OBVIOUS
    <3> DEFINE j == k - r + 1
    <3>1. j \in 1..l /\ r + j - 1 = k
      BY <1>1, <2>2
    <3> HIDE DEF j
    <3>2. s[k] = w[j] /\ t[k] = w[j]
      BY <1>3, <3>1
    <3>3. QED
      BY <3>1, <3>2 DEF j
  <2> HIDE DEF R
  <2>4. CASE i = r
    <3>1. u[k] = IF k \in R THEN new[k - r + 1] ELSE t[k]
      BY <1>8, <2>2, <2>4
    <3>2. QED
      BY <1>2, <2>1, <2>3, <3>1
  <2>5. CASE \A j \in 1..l : Rendered(w[j]) = w[j]
    <3>1. u[k] = t[k]
      <4>1. CASE i <= k /\ k < i + l
        <5> DEFINE j == k - i + 1
        <5>1. j \in 1..l /\ i + j - 1 = k
          BY <1>1, <1>7, <4>1
        <5>2. u[k] = new[j]
          BY <1>8, <4>1
        <5> HIDE DEF j
        <5>3. new[j] = w[j] /\ t[k] = w[j]
          BY <1>2, <1>8, <2>5, <5>1
        <5>4. QED
          BY <5>2, <5>3
      <4>2. CASE ~(i <= k /\ k < i + l)
        BY <1>8, <4>2
      <4>3. QED
        BY <4>1, <4>2
    <3>2. k \in R => Rendered(s[k]) = s[k]
      BY <2>3, <2>5
    <3>3. QED
      BY <2>1, <2>3, <3>1, <3>2
  <2>6. QED
    BY <1>10, <2>4, <2>5
<1>12. Turned(u, s, D \cup R)
  BY <1>8, <1>11 DEF Turned
<1>13. QED
  BY <1>5, <1>6, <1>12 DEF u, new

-----------------------------------------------------------------------------
(* The leaves of a plain document, in the order of its blocks. *)

\* What is translated of a block.
Part(b) == IF Translatable(b) THEN b.text ELSE <<>>
\* The blocks lie in the text x at the places r, one behind the other, and all
\* that is to be translated is in them.
Regions(r, x, blocks) ==
    /\ \A i \in 1..Len(blocks) : Lies(Part(blocks[i]), x, r[i])
    /\ \A i, j \in 1..Len(blocks) : i < j => r[i] + Len(Part(blocks[i])) <= r[j]
    /\ \A p \in 1..Len(x) : Foreign(x[p]) =>
         \E i \in 1..Len(blocks) : r[i] <= p /\ p < r[i] + Len(Part(blocks[i]))
Place(r, i) == r[i]..(r[i] + Len(Part(input[i])) - 1)
Done(r) == UNION {Place(r, nodes[n].block) : n \in {m \in Leaves : m < next}}

LeavesInOrder ==
    /\ \A n \in Leaves :
         nodes[n].block \in 1..Len(input) /\ nodes[n].text = Part(input[nodes[n].block])
    /\ \A m, n \in Leaves : m < n => nodes[m].block < nodes[n].block
    /\ \A i \in 1..Len(input) :
         (\E j \in 1..Len(Part(input[i])) : Foreign(Part(input[i])[j])) =>
            \E n \in Leaves : nodes[n].block = i

\* A place of the text where something is to be translated is in a leaf.
LEMMA InALeaf ==
  ASSUME LeavesInOrder, NEW s, NEW r, Regions(r, s, input), Len(input) \in Nat,
         \A i \in 1..Len(input) : Len(Part(input[i])) \in Nat,
         NEW p \in 1..Len(s), Rendered(s[p]) # s[p], Len(s) \in Nat
  PROVE  \E n \in Leaves : p \in Place(r, nodes[n].block)
<1>1. Foreign(s[p])
  BY RenderedAs
<1>2. PICK i \in 1..Len(input) : r[i] <= p /\ p < r[i] + Len(Part(input[i]))
  BY <1>1 DEF Regions
<1> DEFINE w == Part(input[i])
           j == p - r[i] + 1
<1>3. Lies(w, s, r[i]) /\ Len(w) \in Nat
  BY DEF Regions
<1>4. j \in 1..Len(w) /\ r[i] + j - 1 = p
  <2> DEFINE l == Len(w)
             k == r[i]
  <2>1. l \in Nat /\ k \in Nat /\ p \in Nat /\ k <= p /\ p < k + l
    BY <1>2, <1>3 DEF Lies
  <2> HIDE DEF l, k
  <2>2. p - k + 1 \in 1..l /\ k + (p - k + 1) - 1 = p
    BY <2>1
  <2>3. QED
    BY <2>2 DEF l, k
<1> HIDE DEF j
<1>5. Foreign(w[j])
  BY <1>1, <1>3, <1>4 DEF Lies
<1>6. PICK n \in Leaves : nodes[n].block = i
  BY <1>4, <1>5 DEF LeavesInOrder
<1>7. p \in r[i]..(r[i] + Len(w) - 1)
  BY <1>2, <1>3 DEF Lies
<1>8. QED
  BY <1>6, <1>7 DEF Place

\* The next leaf is translated in its place.
LEMMA LeafInPlace ==
  ASSUME LeavesInOrder, Leaves \subseteq Nat, next \in Nat, Len(input) \in Nat,
         \A i \in 1..Len(input) : Len(Part(input[i])) \in Nat,
         NEW S, NEW s \in Seq(S), text \in Seq(S), Steady(s),
         NEW r, Regions(r, s, input), Turned(text, s, Done(r)),
         NEW k \in Leaves, IsNext(k, Leaves),
         nodes[k].text \in Seq(S), Translated(nodes[k].text) \in Seq(S),
         \A i \in DOMAIN nodes[k].text : nodes[k].text[i][1] # "code"
  PROVE  Turned(Placed(nodes[k]), s, Done(r) \cup Place(r, nodes[k].block))
<1> DEFINE b == nodes[k].block
           w == nodes[k].text
           D == Done(r)
<1>1. /\ b \in 1..Len(input) /\ w = Part(input[b]) /\ Len(w) \in Nat /\ Len(s) \in Nat
      /\ Lies(w, s, r[b])
  BY DEF LeavesInOrder, Regions
<1>2. \A i \in 1..Len(input) : r[i] \in Nat
  BY DEF Regions, Lies
<1>3. Apart(D, w, r[b])
  <2> SUFFICES ASSUME NEW p \in D, r[b] <= p, p < r[b] + Len(w) PROVE FALSE
    BY DEF Apart
  <2>1. PICK n \in Leaves : n < next /\ p \in Place(r, nodes[n].block)
    BY DEF Done
  <2> DEFINE c == nodes[n].block
  <2>2. c < b /\ c \in 1..Len(input)
    <3>1. k >= next
      BY DEF IsNext
    <3>2. n < k
      BY <2>1, <3>1
    <3>3. QED
      BY <3>2 DEF LeavesInOrder
  <2>3. r[c] + Len(Part(input[c])) <= r[b]
    BY <1>1, <2>2 DEF Regions
  <2>4. p \in r[c]..(r[c] + Len(Part(input[c])) - 1)
    BY <2>1 DEF Place
  <2>5. Len(Part(input[c])) \in Nat /\ r[c] \in Nat /\ r[b] \in Nat
    BY <1>1, <1>2, <2>2
  <2> HIDE DEF c
  <2>6. QED
    <3> DEFINE e == r[c]
               m == Len(Part(input[c]))
               q == r[b]
    <3>1. /\ e \in Nat /\ m \in Nat /\ q \in Nat /\ e + m <= q /\ q <= p
          /\ p \in e..(e + m - 1)
      BY <2>3, <2>4, <2>5
    <3> HIDE DEF e, m, q
    <3>2. QED
      BY <3>1
<1>4. Behind(D, s, r[b])
  <2> SUFFICES ASSUME NEW p \in 1..Len(s), p < r[b], Rendered(s[p]) # s[p] PROVE p \in D
    BY DEF Behind
  <2>1. PICK n \in Leaves : p \in Place(r, nodes[n].block)
    BY <1>1, InALeaf
  <2> DEFINE c == nodes[n].block
  <2>2. c \in 1..Len(input) /\ Len(Part(input[c])) \in Nat /\ r[c] \in Nat /\ r[b] \in Nat
    BY <1>1, <1>2 DEF LeavesInOrder
  <2>3. p \in r[c]..(r[c] + Len(Part(input[c])) - 1)
    BY <2>1 DEF Place
  <2>4. ~(b < c) /\ c # b
    <3>1. b < c => r[b] + Len(w) <= r[c]
      BY <1>1, <2>2 DEF Regions
    <3>2. c = b => r[c] = r[b]
      OBVIOUS
    <3> HIDE DEF b, c, w
    <3>3. QED
      <4> DEFINE e == r[c]
                 m == Len(Part(input[c]))
                 q == r[b]
                 l == Len(w)
      <4>1. /\ e \in Nat /\ m \in Nat /\ q \in Nat /\ l \in Nat /\ p \in e..(e + m - 1)
            /\ p < q /\ (b < c => q + l <= e) /\ (c = b => e = q)
        BY <1>1, <2>2, <2>3, <3>1, <3>2
      <4> HIDE DEF e, m, q, l
      <4>2. QED
        BY <4>1
  <2>5. ~(k <= n)
    BY <2>4 DEF LeavesInOrder
  <2>6. n < next
    <3>1. n >= next => k <= n
      BY DEF IsNext
    <3>2. n \in Nat /\ k \in Nat /\ next \in Nat
      OBVIOUS
    <3> HIDE DEF c
    <3>3. QED
      BY <2>5, <3>1, <3>2
  <2>7. QED
    BY <2>1, <2>6 DEF Done
<1>5. LeafKeyed(w) = w
  <2>1. w \in Seq(S) /\ \A i \in DOMAIN w : w[i][1] # "code"
    OBVIOUS
  <2> HIDE DEF w
  <2>2. LeafKeyed(w) = [i \in DOMAIN w |-> w[i]]
    BY <2>1 DEF LeafKeyed
  <2>3. QED
    BY <2>1, <2>2
<1> DEFINE new == Translated(w)
<1>6. /\ Occurs(w, text)
      /\ Turned(ReplaceFirst(w, new, text), s, D \cup (r[b]..(r[b] + Len(w) - 1)))
  <2> DEFINE q == r[b]
  <2>1. Lies(w, s, q) /\ Apart(D, w, q) /\ Behind(D, s, q) /\ w \in Seq(S) /\ new \in Seq(S)
    BY <1>1, <1>3, <1>4
  <2> HIDE DEF q, D, w, new
  <2>2. Occurs(w, text) /\ Turned(ReplaceFirst(w, new, text), s, D \cup (q..(q + Len(w) - 1)))
    BY <2>1, TurnedNext DEF D, new
  <2>3. QED
    BY <2>2 DEF q
<1>7. Placed(nodes[k]) = ReplaceFirst(w, new, text)
  BY <1>5, <1>6 DEF Placed
<1>8. Place(r, b) = r[b]..(r[b] + Len(w) - 1)
  BY <1>1 DEF Place
<1>9. QED
  BY <1>6, <1>7, <1>8

\* When every leaf is done everything is translated.
LEMMA AllInPlace ==
  ASSUME LeavesInOrder, Len(input) \in Nat,
         \A i \in 1..Len(input) : Len(Part(input[i])) \in Nat,
         NEW S, NEW s \in Seq(S), text \in Seq(S),
         NEW r, Regions(r, s, input), Turned(text, s, Done(r)), NoNext(Leaves)
  PROVE  text = Translated(s)
<1>1. Len(s) \in Nat /\ Len(text) = Len(s) /\ DOMAIN text = 1..Len(s)
  BY DEF Turned
<1>2. ASSUME NEW p \in 1..Len(s) PROVE text[p] = Rendered(s[p])
  <2>1. text[p] = IF p \in Done(r) THEN Rendered(s[p]) ELSE s[p]
    BY DEF Turned
  <2>2. CASE Rendered(s[p]) # s[p]
    <3>1. PICK n \in Leaves : p \in Place(r, nodes[n].block)
      BY <1>1, <2>2, InALeaf
    <3>2. p \in Done(r)
      BY <3>1 DEF Done, NoNext
    <3>3. QED
      BY <2>1, <3>2
  <2>3. QED
    BY <2>1, <2>2
<1>3. text = [p \in 1..Len(s) |-> text[p]]
  BY <1>1
<1>4. Translated(s) = [p \in 1..Len(s) |-> Rendered(s[p])]
  BY DEF Translated, Rendered
<1>5. QED
  BY <1>2, <1>3, <1>4

-----------------------------------------------------------------------------
(* The nodes of the map and the blocks they are of. *)

LeafKinds == {"heading", "paragraph", "item", "cell"}

\* A node has the text of its block, the nodes are in the order of the blocks,
\* and what follows a container the walker is in is in that container.
MapInv ==
    /\ \A n \in DOMAIN nodes : nodes[n].block # 0 =>
         /\ nodes[n].block \in 1..Len(input)
         /\ nodes[n].text = input[nodes[n].block].text
         /\ nodes[n].kind \in LeafKinds => Translatable(input[nodes[n].block])
    /\ \A m, n \in DOMAIN nodes : m < n /\ nodes[m].block # 0 /\ nodes[n].block # 0 =>
         nodes[m].block <= nodes[n].block
    /\ \A k \in DOMAIN open : open[k].node < Len(nodes) =>
         nodes[open[k].node + 1].parent = open[k].node

\* In a container without a child no other has one, and the walker has come
\* from no node but the innermost.
ChildInv ==
    /\ \A i, j \in 1..Len(nest) : i < j /\ nest[i].children = 0 => nest[j].children = 0
    /\ Len(open) = Len(nest) /\ nest[Len(nest)].children = 0 => Top.node = Len(nodes)

\* Nothing is translated before the document is closed.
PhaseInv ==
    /\ phase = "parse" => next = 1
    /\ phase # "parse" => Len(nest) = 1

\* The node n is, or will be when its item is closed, the leaf of block i.
FirstInItem(n) ==
    n = nodes[n].parent + 1 /\ \E k \in 1..Len(open) : open[k] = [kind |-> "item", node |-> nodes[n].parent]
LeafOf(n, i) ==
    /\ nodes[n].block = i /\ nodes[n].kind \in LeafKinds
    /\ IsDupParagraph(nodes[n]) => FirstInItem(n)
CoverInv ==
    Plain => \A i \in 1..Len(input) : Translatable(input[i]) => \E n \in DOMAIN nodes : LeafOf(n, i)

LeafInv == MapInv /\ ChildInv /\ PhaseInv /\ CoverInv

\* The nodes a block adds.
LEMMA NodesAdded ==
  ASSUME TypeInv, NEW b \in Blocks, ParseBlock(b)
  PROVE  LET m == Len(nodes)
             n == Len(input) + 1
             cell == [kind |-> "cell", text |-> b.text, parent |-> m + 1, block |-> n]
         IN  /\ m \in Nat /\ DOMAIN nodes = 1..m /\ Top.node \in 0..m /\ Len(input) \in Nat
             /\ \A i \in 1..m : nodes'[i] = nodes[i]
             /\ b.kind \notin Accepts(Top.kind) => nodes' = nodes
             /\ b.kind \in Accepts(Top.kind) /\ b.kind # "row" =>
                  /\ Len(nodes') = m + 1 /\ DOMAIN nodes' = 1..(m + 1)
                  /\ nodes'[m + 1] = Node(b.kind, b.text, n)
             /\ b.kind \in Accepts(Top.kind) /\ b.kind = "row" =>
                  /\ Len(nodes') = m + 2 /\ DOMAIN nodes' = 1..(m + 2)
                  /\ nodes'[m + 1] = Node("row", NoText, 0) /\ nodes'[m + 2] = cell
<1> DEFINE m == Len(nodes)
           n == Len(input) + 1
           cell == [kind |-> "cell", text |-> b.text, parent |-> m + 1, block |-> n]
<1>1. /\ nodes \in Seq(NodeRecords) /\ m \in Nat /\ DOMAIN nodes = 1..m
      /\ Len(input) \in Nat /\ Top.node \in 0..m
  <2>1. IsSequence(input) /\ nodes \in Seq(NodeRecords) /\ open \in Seq(Places) /\ open # <<>>
        /\ \A k \in DOMAIN open : open[k].node <= Len(nodes)
    BY DEF TypeInv
  <2>2. Len(input) \in Nat /\ Len(nodes) \in Nat /\ DOMAIN nodes = 1..Len(nodes)
    BY <2>1 DEF IsSequence
  <2>3. Len(open) \in DOMAIN open /\ open[Len(open)] \in Places
    BY <2>1
  <2>4. QED
    BY <2>1, <2>2, <2>3 DEF Top, Places
<1> DEFINE A == {nodes[i] : i \in 1..m}
               \cup {cell, Node("row", NoText, 0), Node(b.kind, b.text, n)}
<1>2. nodes \in Seq(A)
  <2>1. \A i \in 1..m : nodes[i] \in A
    OBVIOUS
  <2> HIDE DEF A
  <2>2. nodes \in [1..m -> A]
    BY <1>1, <2>1
  <2>3. QED
    BY <1>1, <2>2, SeqDef
<1>3. cell \in A /\ Node("row", NoText, 0) \in A /\ Node(b.kind, b.text, n) \in A
  OBVIOUS
<1>4. CASE b.kind \notin Accepts(Top.kind)
  <2>1. nodes' = nodes
    BY <1>4 DEF ParseBlock
  <2>2. QED
    BY <1>1, <1>4, <2>1
<1>5. CASE b.kind \in Accepts(Top.kind) /\ b.kind # "row"
  <2> DEFINE e == Node(b.kind, b.text, n)
  <2>1. nodes' = nodes \o <<e>>
    BY <1>5 DEF ParseBlock
  <2> HIDE DEF e, A
  <2>2. <<e>> \in Seq(A) /\ Len(<<e>>) = 1 /\ <<e>>[1] = e
    BY <1>3 DEF e
  <2>3. /\ nodes' \in Seq(A) /\ Len(nodes') = m + 1 /\ nodes'[m + 1] = e
        /\ \A i \in 1..m : nodes'[i] = nodes[i]
    BY <1>1, <1>2, <2>1, <2>2, ConcatProperties
  <2>4. DOMAIN nodes' = 1..(m + 1)
    BY <2>3, LenProperties
  <2>5. QED
    BY <1>1, <1>5, <2>3, <2>4 DEF e
<1>6. CASE b.kind \in Accepts(Top.kind) /\ b.kind = "row"
  <2> DEFINE r == Node("row", NoText, 0)
             c == [Node("cell", b.text, n) EXCEPT !.parent = m + 1]
  <2>1. nodes' = nodes \o <<r, c>>
    BY <1>6 DEF ParseBlock
  <2>2. c = cell
    BY DEF Node
  <2> HIDE DEF r, c, A, cell
  <2>3. <<r, c>> \in Seq(A) /\ Len(<<r, c>>) = 2 /\ <<r, c>>[1] = r /\ <<r, c>>[2] = c
    BY <1>3, <2>2 DEF r
  <2>4. /\ nodes' \in Seq(A) /\ Len(nodes') = m + 2 /\ nodes'[m + 1] = r /\ nodes'[m + 2] = c
        /\ \A i \in 1..m : nodes'[i] = nodes[i]
    BY <1>1, <1>2, <2>1, <2>3, ConcatProperties
  <2>5. DOMAIN nodes' = 1..(m + 2)
    BY <2>4, LenProperties
  <2>6. QED
    BY <1>1, <1>6, <2>2, <2>4, <2>5 DEF r, cell
<1>7. QED
  BY <1>4, <1>5, <1>6

\* The marks of a first line are those of the others, unless the innermost
\* container is new.
LEMMA MarksDiffer ==
  ASSUME TypeInv, ChildInv, Marks(TRUE) # Marks(FALSE)
  PROVE  nest[Len(nest)].children = 0
<1> DEFINE n == Len(nest)
           Of(level, first) ==
               CASE level.kind = "quote" -> <<Mark(">")>>
                 [] level.kind = "item" ->
                      <<IF first /\ level.children = 0 THEN Mark("-") ELSE Indent>>
                 [] level.kind \notin {"quote", "item"} -> <<>>
           f == [i \in DOMAIN nest |-> Of(nest[i], TRUE)]
           g == [i \in DOMAIN nest |-> Of(nest[i], FALSE)]
<1>1. n \in Nat \ {0} /\ DOMAIN nest = 1..n
  BY DEF TypeInv
<1>2. Marks(TRUE) = FlattenSeq(f) /\ Marks(FALSE) = FlattenSeq(g)
  BY DEF Marks
<1> HIDE DEF f, g
<1>3. f # g
  BY <1>2
<1> USE DEF f, g
<1> HIDE DEF Of, n
<1>4. PICK i \in 1..n : Of(nest[i], TRUE) # Of(nest[i], FALSE)
  BY <1>1, <1>3
<1>5. nest[i].children = 0
  BY <1>4 DEF Of
<1>6. i = n \/ (i < n /\ n \in 1..n)
  BY <1>1
<1>7. QED
  BY <1>5, <1>6 DEF ChildInv, n

\* A block that keeps a document plain is in no skipped table, and a paragraph
\* in an item is its first child.
LEMMA PlainBlock ==
  ASSUME TypeInv, ChildInv, NEW b \in Blocks, ParseBlock(b), Plain'
  PROVE  /\ Plain
         /\ b.kind = "row" => ~InSkippedTable
         /\ b.kind = "paragraph" /\ nest[Len(nest)].kind = "item" => nest[Len(nest)].children = 0
<1> DEFINE l == Len(input)
           n == Len(nest)
           within == [i \in DOMAIN nest |-> nest[i].kind]
           e == [kind |-> b.kind, text |-> b.text, atx |-> b.atx,
                 first |-> Marks(TRUE), rest |-> Marks(FALSE), within |-> within]
<1>1. input' = Append(input, e)
  BY DEF ParseBlock
<1>2. n \in Nat \ {0} /\ DOMAIN nest = 1..n
  BY DEF TypeInv
<1>3. e.kind = b.kind /\ e.within = within /\ e.first = Marks(TRUE) /\ e.rest = Marks(FALSE)
  OBVIOUS
<1> HIDE DEF e, n
<1>4. /\ l \in Nat /\ DOMAIN input = 1..l /\ DOMAIN input' = 1..(l + 1)
      /\ \A i \in 1..l : input'[i] = input[i]
      /\ input'[l + 1] = e
  <2>1. IsSequence(input)
    BY DEF TypeInv
  <2>2. QED
    BY <1>1, <2>1, AppendedTo
<1>5. Plain
  <2>1. DOMAIN input \subseteq DOMAIN input' /\ \A i \in DOMAIN input : input'[i] = input[i]
    BY <1>4
  <2>2. QED
    BY <2>1 DEF Plain
<1>6. DOMAIN within = 1..n /\ Len(within) = n /\ \A i \in 1..n : within[i] = nest[i].kind
  <2> DEFINE K == {nest[i].kind : i \in 1..n}
  <2>1. within \in [1..n -> K]
    BY <1>2
  <2>2. within \in Seq(K)
    BY <1>2, <2>1, SeqDef
  <2>3. QED
    BY <1>2, <2>1, <2>2, LenProperties
<1> HIDE DEF within
<1>7. /\ e.kind = "row" => within[n - 1] # "quote"
      /\ e.kind = "paragraph" /\ Last(within) = "item" => Marks(TRUE) # Marks(FALSE)
  <2>1. l + 1 \in DOMAIN input'
    BY <1>4
  <2>2. QED
    BY <1>3, <1>4, <1>6, <2>1 DEF Plain
<1>8. ASSUME b.kind = "row", InSkippedTable PROVE FALSE
  <2>1. n > 1 /\ nest[n - 1].kind = "quote"
    BY <1>8 DEF InSkippedTable, n
  <2>2. n - 1 \in 1..n
    BY <1>2, <2>1
  <2>3. QED
    BY <1>3, <1>6, <1>7, <1>8, <2>1, <2>2
<1>9. ASSUME b.kind = "paragraph", nest[n].kind = "item" PROVE nest[n].children = 0
  <2>1. Last(within) = "item"
    BY <1>2, <1>6, <1>9 DEF Last
  <2>2. QED
    BY <1>3, <1>7, <1>9, <2>1, MarksDiffer DEF n
<1>10. QED
  BY <1>5, <1>8, <1>9 DEF n

\* An empty document keeps LeafInv.
LEMMA LeavesInit ==
  ASSUME Init
  PROVE  LeafInv
<1>1. /\ input = <<>> /\ nodes = <<>> /\ Len(nest) = 1 /\ Len(open) = 1 /\ open = <<Root>>
      /\ next = 1 /\ phase = "parse" /\ DOMAIN nodes = {} /\ Len(input) = 0 /\ Len(nodes) = 0
      /\ Top.node = 0 /\ Root.node = 0
  BY DEF Init, Top, Root
<1>2. MapInv
  BY <1>1 DEF MapInv
<1>3. ChildInv
  BY <1>1 DEF ChildInv
<1>4. PhaseInv /\ CoverInv
  BY <1>1 DEF PhaseInv, CoverInv
<1>5. QED
  BY <1>2, <1>3, <1>4 DEF LeafInv

\* What is in the map stays there when it grows, and is the leaf it was.
LEMMA LeafStays ==
  ASSUME TypeInv, DOMAIN nodes \subseteq DOMAIN nodes',
         \A i \in DOMAIN nodes : nodes'[i] = nodes[i],
         Len(open) <= Len(open'), Len(open') \in Nat, \A k \in 1..Len(open) : open'[k] = open[k],
         NEW n \in DOMAIN nodes, NEW i, LeafOf(n, i)
  PROVE  n \in DOMAIN nodes' /\ LeafOf(n, i)'
<1>1. nodes \in Seq(NodeRecords) /\ n \in 1..Len(nodes) /\ Len(nodes) \in Nat
      /\ Len(open) \in Nat /\ DOMAIN nodes = 1..Len(nodes) /\ nodes[n].parent < n
  BY DEF TypeInv
<1>2. nodes'[n] = nodes[n]
  OBVIOUS
<1>3. IsDupParagraph(nodes[n])' => IsDupParagraph(nodes[n])
  <2>1. nodes[n].parent \in Nat
    <3>1. nodes[n] \in NodeRecords
      BY <1>1
    <3>2. QED
      BY <3>1 DEF NodeRecords
  <2>2. nodes[n].parent # 0 => nodes'[nodes[n].parent] = nodes[nodes[n].parent]
    BY <1>1, <2>1
  <2>3. QED
    BY <1>2, <2>2 DEF IsDupParagraph
<1>4. FirstInItem(n) => FirstInItem(n)'
  <2>1. \A k \in 1..Len(open) : k \in 1..Len(open')
    BY <1>1
  <2>2. QED
    BY <1>2, <2>1 DEF FirstInItem
<1>5. QED
  BY <1>2, <1>3, <1>4 DEF LeafOf

\* The containers the walker is in are nodes, the innermost the last of them.
LEMMA OpenPlaces ==
  ASSUME TypeInv, PlaceInv
  PROVE  LET m == Len(nodes)
         IN  /\ m \in Nat /\ DOMAIN nodes = 1..m /\ DOMAIN open = 1..Len(open)
             /\ Top = open[Len(open)] /\ Top \in Places /\ Len(open) \in Nat \ {0}
             /\ open \in Seq(Places)
             /\ \A k \in 1..Len(open) : open[k].node \in 0..m
             /\ \A k \in 1..Len(open) : open[k].node <= Top.node
             /\ \A k \in 1..Len(open) : open[k].node = m => k = Len(open)
<1> DEFINE m == Len(nodes)
<1>1. m \in Nat /\ DOMAIN nodes = 1..m
  BY DEF TypeInv
<1>2. open \in Seq(Places) /\ open # <<>> /\ \A k \in DOMAIN open : open[k].node <= Len(nodes)
  BY DEF TypeInv
<1>3. Len(open) \in Nat \ {0} /\ DOMAIN open = 1..Len(open) /\ \A k \in 1..Len(open) : open[k] \in Places
  BY <1>2
<1>4. \A k \in 1..Len(open) : open[k].node \in 0..m
  <2>1. \A k \in 1..Len(open) : open[k].node \in Nat /\ open[k].node <= m
    BY <1>2, <1>3 DEF Places
  <2>2. QED
    BY <1>1, <2>1
<1>5. \A k, l \in 1..Len(open) : k < l => open[k].node < open[l].node
  BY <1>3 DEF PlaceInv
<1>6. \A k \in 1..Len(open) : k = Len(open) \/ (k < Len(open) /\ Len(open) \in 1..Len(open))
  <2>1. \A l \in Nat : \A k \in 1..l : k = l \/ (k < l /\ l \in 1..l)
    OBVIOUS
  <2>2. QED
    BY <1>3, <2>1
<1>7. Top = open[Len(open)] /\ Top \in Places /\ Top.node \in 0..m
  BY <1>3, <1>4 DEF Top
<1>8. ASSUME NEW k \in 1..Len(open)
      PROVE  open[k].node <= Top.node /\ (open[k].node = m => k = Len(open))
  <2>1. CASE k = Len(open)
    BY <1>7, <2>1, <1>1
  <2>2. CASE k < Len(open)
    <3>1. open[k].node < Top.node
      BY <1>5, <1>6, <1>7, <2>2
    <3>2. QED
      BY <1>1, <1>4, <1>7, <3>1
  <2>3. QED
    BY <1>6, <2>1, <2>2
<1>9. /\ \A k \in 1..Len(open) : open[k].node <= Top.node
      /\ \A k \in 1..Len(open) : open[k].node = m => k = Len(open)
  <2> HIDE DEF m
  <2>1. QED
    BY <1>8
<1>10. QED
  BY <1>1, <1>2, <1>3, <1>4, <1>7, <1>9

\* A block parsed keeps LeafInv: its node is behind the others, and of a plain
\* document what is to be translated of it has one.
LEMMA LeavesParsed ==
  ASSUME DocumentInv, LeafInv, NEW b \in Blocks, ParseBlock(b)
  PROVE  LeafInv'
<1> DEFINE m == Len(nodes)
           n == Len(input) + 1
           cell == [kind |-> "cell", text |-> b.text, parent |-> m + 1, block |-> n]
           e == [kind |-> b.kind, text |-> b.text, atx |-> b.atx,
                 first |-> Marks(TRUE), rest |-> Marks(FALSE),
                 within |-> [i \in DOMAIN nest |-> nest[i].kind]]
<1>1. TypeInv /\ WalkInv /\ PlaceInv /\ BlockInv /\ MapInv /\ ChildInv /\ PhaseInv /\ CoverInv
  BY DEF DocumentInv, LeafInv
<1>2. /\ input' = Append(input, e) /\ nest' = Entered
      /\ UNCHANGED <<phase, open, next>> /\ phase = "parse"
  BY DEF ParseBlock
<1>3. e.kind = b.kind /\ e.text = b.text
  OBVIOUS
<1> HIDE DEF e
<1>4. /\ Len(input') = n /\ Len(input) \in Nat
      /\ \A i \in 1..Len(input) : input'[i] = input[i]
      /\ input'[n] = e
  <2>1. IsSequence(input)
    BY <1>1 DEF TypeInv
  <2>2. QED
    BY <1>2, <2>1, AppendedTo
<1>5. /\ m \in Nat /\ DOMAIN nodes = 1..m /\ Top.node \in 0..m
      /\ \A i \in 1..m : nodes'[i] = nodes[i]
      /\ b.kind \notin Accepts(Top.kind) => nodes' = nodes
      /\ b.kind \in Accepts(Top.kind) /\ b.kind # "row" =>
           /\ Len(nodes') = m + 1 /\ DOMAIN nodes' = 1..(m + 1)
           /\ nodes'[m + 1] = Node(b.kind, b.text, n)
      /\ b.kind \in Accepts(Top.kind) /\ b.kind = "row" =>
           /\ Len(nodes') = m + 2 /\ DOMAIN nodes' = 1..(m + 2)
           /\ nodes'[m + 1] = Node("row", NoText, 0) /\ nodes'[m + 2] = cell
  BY <1>1, NodesAdded
<1>6. /\ Top = open[Len(open)] /\ Top \in Places /\ Len(open) \in Nat \ {0}
      /\ open \in Seq(Places)
      /\ \A k \in 1..Len(open) : open[k].node \in 0..m
      /\ \A k \in 1..Len(open) : open[k].node <= Top.node
      /\ \A k \in 1..Len(open) : open[k].node = m => k = Len(open)
  BY <1>1, OpenPlaces
<1>7. /\ Len(nodes') \in Nat /\ m <= Len(nodes') /\ DOMAIN nodes' = 1..Len(nodes')
      /\ DOMAIN nodes \subseteq DOMAIN nodes'
      /\ \A i \in DOMAIN nodes : nodes'[i] = nodes[i]
      /\ \A i \in DOMAIN nodes' : i \in 1..m \/ i \in (m + 1)..Len(nodes')
      /\ b.kind \notin Accepts(Top.kind) => (m + 1)..Len(nodes') = {}
  <2>1. \A l \in Nat : m <= l => /\ 1..m \subseteq 1..l
                               /\ \A i \in 1..l : i \in 1..m \/ i \in (m + 1)..l
    BY <1>5
  <2>2. Len(nodes') \in Nat /\ m <= Len(nodes') /\ DOMAIN nodes' = 1..Len(nodes')
    BY <1>5
  <2>3. b.kind \notin Accepts(Top.kind) => (m + 1)..Len(nodes') = {}
    <3> SUFFICES ASSUME b.kind \notin Accepts(Top.kind) PROVE (m + 1)..Len(nodes') = {}
      OBVIOUS
    <3>1. Len(nodes') = m /\ m \in Nat
      BY <1>5
    <3>2. (m + 1)..m = {}
      BY <3>1
    <3> HIDE DEF m
    <3>3. QED
      BY <3>1, <3>2
  <2> HIDE DEF m
  <2>4. QED
    BY <1>5, <2>1, <2>2, <2>3
<1>8. \A i \in (m + 1)..Len(nodes') :
        /\ nodes'[i].block \in {0, n}
        /\ nodes'[i].block # 0 =>
             /\ i = Len(nodes') /\ nodes'[i].text = b.text
             /\ nodes'[i].kind \in LeafKinds => Translatable(e)
        /\ i = m + 1 => nodes'[i].parent = Top.node
  <2>1. CASE b.kind \notin Accepts(Top.kind)
    BY <1>7, <2>1
  <2>2. CASE b.kind \in Accepts(Top.kind) /\ b.kind # "row"
    <3>1. b.kind \in LeafKinds => Translatable(e)
      <4>1. b.kind # "item" /\ b.kind # "cell"
        BY DocumentAssumption
      <4>2. QED
        BY <1>3, <4>1 DEF LeafKinds, Translatable
    <3>2. /\ nodes'[m + 1].kind = b.kind /\ nodes'[m + 1].text = b.text
          /\ nodes'[m + 1].block = n /\ nodes'[m + 1].parent = Top.node
      BY <1>5, <2>2 DEF Node
    <3>3. \A i \in (m + 1)..Len(nodes') : i = m + 1 /\ i = Len(nodes')
      BY <1>5, <2>2
    <3> HIDE DEF n, m
    <3>4. QED
      BY <3>1, <3>2, <3>3
  <2>3. CASE b.kind \in Accepts(Top.kind) /\ b.kind = "row"
    <3>1. Translatable(e)
      BY <1>3, <2>3 DEF Translatable
    <3>2. /\ nodes'[m + 1].block = 0 /\ nodes'[m + 1].parent = Top.node
          /\ nodes'[m + 2].text = b.text /\ nodes'[m + 2].block = n
      BY <1>5, <2>3 DEF Node
    <3>3. \A i \in (m + 1)..Len(nodes') : i = m + 1 \/ (i = m + 2 /\ i # m + 1 /\ i = Len(nodes'))
      BY <1>5, <2>3
    <3> HIDE DEF n, m
    <3>4. QED
      BY <3>1, <3>2, <3>3
  <2>4. QED
    BY <2>1, <2>2, <2>3
<1> HIDE DEF cell, m
<1>9. MapInv'
  <2>1. ASSUME NEW i \in DOMAIN nodes', nodes'[i].block # 0
        PROVE  /\ nodes'[i].block \in 1..n
               /\ nodes'[i].text = input'[nodes'[i].block].text
               /\ nodes'[i].kind \in LeafKinds => Translatable(input'[nodes'[i].block])
    <3>1. CASE i \in 1..m
      <4>1. nodes'[i] = nodes[i] /\ nodes[i].block \in 1..Len(input)
        BY <1>1, <1>5, <2>1, <3>1 DEF MapInv
      <4>2. input'[nodes[i].block] = input[nodes[i].block] /\ nodes[i].block \in 1..n
        BY <1>4, <4>1
      <4>3. nodes[i].block # 0
        BY <2>1, <4>1
      <4>4. /\ nodes[i].text = input[nodes[i].block].text
            /\ nodes[i].kind \in LeafKinds => Translatable(input[nodes[i].block])
        BY <1>1, <1>5, <3>1, <4>3 DEF MapInv
      <4>5. QED
        BY <4>1, <4>2, <4>4
    <3>2. CASE i \in (m + 1)..Len(nodes')
      <4>1. nodes'[i].block = n
        BY <1>8, <2>1, <3>2
      <4>2. n \in 1..n
        BY <1>4
      <4> HIDE DEF n
      <4>3. QED
        BY <1>3, <1>4, <1>8, <2>1, <3>2, <4>1, <4>2
    <3>3. QED
      BY <1>7, <3>1, <3>2
  <2>2. ASSUME NEW i \in DOMAIN nodes', NEW j \in DOMAIN nodes',
               i < j, nodes'[i].block # 0, nodes'[j].block # 0
        PROVE  nodes'[i].block <= nodes'[j].block
    <3>1. CASE j \in 1..m
      <4>1. i \in 1..m
        <5>1. \A k \in 1..Len(nodes') : k < j => k \in 1..m
          BY <1>5, <3>1
        <5>2. QED
          BY <1>7, <2>2, <5>1
      <4>2. QED
        <5>1. nodes'[i] = nodes[i] /\ nodes'[j] = nodes[j] /\ i \in DOMAIN nodes /\ j \in DOMAIN nodes
          BY <1>5, <3>1, <4>1
        <5>2. QED
          BY <1>1, <2>2, <5>1 DEF MapInv
    <3>2. CASE j \in (m + 1)..Len(nodes')
      <4>1. nodes'[j].block = n
        BY <1>8, <2>2, <3>2
      <4>2. nodes'[i].block \in 1..n
        BY <2>1, <2>2
      <4>3. QED
        BY <4>1, <4>2, <1>4
    <3>3. QED
      BY <1>7, <3>1, <3>2
  <2>3. ASSUME NEW k \in 1..Len(open), open[k].node < Len(nodes')
        PROVE  nodes'[open[k].node + 1].parent = open[k].node
    <3>1. CASE open[k].node = m
      <4>1. k = Len(open)
        BY <1>6, <3>1
      <4>0. m + 1 \in (m + 1)..Len(nodes')
        <5>1. m < Len(nodes') /\ m \in Nat /\ Len(nodes') \in Nat
          BY <1>5, <1>7, <2>3, <3>1
        <5>2. QED
          BY <5>1
      <4>2. QED
        BY <1>6, <1>8, <3>1, <4>0, <4>1
    <3>2. CASE open[k].node # m
      <4>1. open[k].node < m /\ open[k].node + 1 \in 1..m
        BY <1>5, <1>6, <3>2
      <4>2. k \in DOMAIN open
        BY <1>6
      <4>3. nodes[open[k].node + 1].parent = open[k].node
        BY <1>1, <4>1, <4>2 DEF MapInv, m
      <4>4. QED
        BY <1>5, <4>1, <4>3
    <3>3. QED
      BY <3>1, <3>2
  <2>4. DOMAIN open = 1..Len(open)
    BY <1>6
  <2> HIDE DEF n
  <2>5. QED
    BY <1>2, <1>4, <2>1, <2>2, <2>3, <2>4 DEF MapInv
<1>10. ChildInv'
  <2>1. /\ nest \in Seq(Levels) /\ nest # <<>>
    BY <1>1 DEF TypeInv
  <2>2. Len(nest) \in Nat \ {0} /\ DOMAIN nest = 1..Len(nest) /\ \A i \in 1..Len(nest) : nest[i] \in Levels
    BY <2>1
  <2>3. Len(nest') = Len(nest)
    BY <1>2, <2>1, EnteredLevels
  <2>4. \A i \in 1..Len(nest) : nest'[i].children # 0
    <3> SUFFICES ASSUME NEW i \in 1..Len(nest) PROVE nest'[i].children # 0
      OBVIOUS
    <3>1. nest[i].children \in Nat /\ nest[i] = [kind |-> nest[i].kind, children |-> nest[i].children]
      BY <2>2 DEF Levels
    <3>2. nest'[i] = [nest[i] EXCEPT !.children = @ + 1]
      BY <1>2, <2>2 DEF Entered
    <3>3. nest'[i].children = nest[i].children + 1
      BY <3>1, <3>2
    <3>4. QED
      BY <3>1, <3>3
  <2>5. Len(nest) \in 1..Len(nest)
    BY <2>2
  <2>6. QED
    BY <2>3, <2>4, <2>5 DEF ChildInv
<1>11. PhaseInv'
  BY <1>1, <1>2 DEF PhaseInv
<1>12. CoverInv'
  <2> SUFFICES ASSUME Plain', NEW i \in 1..n, Translatable(input'[i])
               PROVE  \E k \in DOMAIN nodes' : LeafOf(k, i)'
    BY <1>4 DEF CoverInv
  <2>1. /\ Plain
        /\ b.kind = "row" => ~InSkippedTable
        /\ b.kind = "paragraph" /\ nest[Len(nest)].kind = "item" => nest[Len(nest)].children = 0
    BY <1>1, PlainBlock
  <2>2. CASE i \in 1..Len(input)
    <3>1. input'[i] = input[i]
      BY <1>4, <2>2
    <3>2. PICK k \in DOMAIN nodes : LeafOf(k, i)
      BY <1>1, <2>1, <2>2, <3>1 DEF CoverInv
    <3>3. k \in DOMAIN nodes' /\ LeafOf(k, i)'
      <4>1. Len(open) <= Len(open') /\ Len(open') \in Nat /\ \A j \in 1..Len(open) : open'[j] = open[j]
        BY <1>2, <1>6
      <4>2. QED
        BY <1>1, <1>7, <3>2, <4>1, LeafStays
    <3>4. QED
      BY <3>3
  <2>3. CASE i = n
    <3>1. Translatable(e) /\ b.kind \in {"heading", "paragraph", "row"}
      BY <1>3, <1>4, <2>3 DEF Translatable
    <3>2. b.kind \in Holds(nest[Len(nest)].kind) /\ nest[Len(nest)].kind \in LevelKinds
      BY <1>1, WalkerPlace DEF ParseBlock, Levels
    <3>3. ~InSkippedTable
      <4>1. CASE b.kind = "row"
        BY <2>1, <4>1
      <4>2. CASE b.kind # "row"
        <5>1. nest[Len(nest)].kind # "table"
          BY <3>2, <4>2, HeldIsAccepted
        <5>2. QED
          BY <1>1, <5>1, WalkerPlace
      <4>3. QED
        BY <4>1, <4>2
    <3>4. Top.kind = nest[Len(nest)].kind /\ Len(open) = Len(nest)
      BY <1>1, <3>3, WalkerPlace
    <3>5. b.kind \in Accepts(Top.kind)
      BY <3>1, <3>2, <3>4 DEF Holds, Accepts, LevelKinds, Containers
    <3>6. CASE b.kind = "row"
      <4> PICK k : k = m + 2
        OBVIOUS
      <4>1. nodes'[k] = cell /\ k \in DOMAIN nodes'
        BY <1>5, <3>5, <3>6 DEF m
      <4>2. cell.kind = "cell" /\ cell.block = n
        BY DEF cell
      <4>3. LeafOf(k, i)'
        <5>1. nodes'[k].kind = "cell" /\ nodes'[k].block = i
          BY <2>3, <4>1, <4>2
        <5>2. QED
          BY <5>1 DEF LeafOf, LeafKinds, IsDupParagraph
      <4>4. QED
        BY <4>1, <4>3
    <3>7. CASE b.kind # "row"
      <4> PICK k : k = m + 1
        OBVIOUS
      <4>1. k \in DOMAIN nodes' /\ nodes'[k] = Node(b.kind, b.text, n)
        BY <1>5, <3>5, <3>7 DEF m
      <4>2. nodes'[k].kind = b.kind /\ nodes'[k].block = i /\ nodes'[k].parent = Top.node
        BY <2>3, <4>1 DEF Node
      <4>3. b.kind \in LeafKinds
        BY <3>1, <3>7 DEF LeafKinds
      <4>4. IsDupParagraph(nodes[k])' => FirstInItem(k)'
        <5> SUFFICES ASSUME IsDupParagraph(nodes[k])' PROVE FirstInItem(k)'
          OBVIOUS
        <5>1. b.kind = "paragraph" /\ Top.node # 0 /\ nodes'[Top.node].kind = "item"
          BY <4>2 DEF IsDupParagraph
        <5>2. nodes[Top.node].kind = "item"
          <6>1. Top.node \in 1..m
            BY <1>5, <5>1
          <6>2. QED
            BY <1>5, <5>1, <6>1
        <5>3. Top.kind = "item"
          <6>1. Len(open) \in 2..Len(open)
            <7>1. open[1].node = 0
              BY <1>1 DEF PlaceInv, Root
            <7>2. Len(open) # 1
              BY <1>6, <5>1, <7>1
            <7>3. Len(open) \in Nat \ {0}
              BY <1>6
            <7>4. \A l \in Nat \ {0} : l # 1 => l \in 2..l
              OBVIOUS
            <7>5. QED
              BY <7>2, <7>3, <7>4
          <6>2. nodes[open[Len(open)].node].kind = open[Len(open)].kind
            BY <1>1, <6>1 DEF PlaceInv
          <6>3. QED
            BY <1>6, <5>2, <6>2
        <5>4. Top.node = m
          BY <1>1, <2>1, <3>4, <5>1, <5>3 DEF ChildInv, m
        <5>5. open[Len(open)] = [kind |-> "item", node |-> m]
          BY <1>6, <5>3, <5>4 DEF Places
        <5>6. Len(open) \in 1..Len(open)
          BY <1>6
        <5>7. nodes'[k].parent = m /\ k = m + 1
          BY <4>2, <5>4
        <5> HIDE DEF m
        <5>8. QED
          BY <1>2, <5>5, <5>6, <5>7 DEF FirstInItem
      <4>5. LeafOf(k, i)'
        BY <4>2, <4>3, <4>4 DEF LeafOf
      <4>6. QED
        BY <4>1, <4>5
    <3>8. QED
      BY <3>6, <3>7
  <2>4. QED
    BY <1>4, <2>2, <2>3
<1>13. QED
  BY <1>9, <1>10, <1>11, <1>12 DEF LeafInv

\* A container opened keeps LeafInv.
LEMMA LeavesOpened ==
  ASSUME DocumentInv, LeafInv, NEW c \in Containers, Open(c)
  PROVE  LeafInv'
<1> DEFINE m == Len(nodes)
           o == Len(open)
           l == Len(nest)
<1>1. TypeInv /\ WalkInv /\ PlaceInv /\ MapInv /\ ChildInv /\ PhaseInv /\ CoverInv
  BY DEF DocumentInv, LeafInv
<1>2. /\ m \in Nat /\ DOMAIN nodes = 1..m /\ DOMAIN open = 1..o
      /\ Top = open[o] /\ o \in Nat \ {0} /\ open \in Seq(Places)
      /\ \A k \in 1..o : open[k].node \in 0..m
      /\ \A k \in 1..o : open[k].node = m => k = o
  BY <1>1, OpenPlaces
<1>3. /\ UNCHANGED <<phase, input, next>> /\ phase = "parse"
      /\ nest' = Append(nest, [kind |-> c, children |-> 0])
      /\ c \in Accepts(Top.kind) =>
           /\ nodes' = Append(nodes, Node(c, NoText, 0))
           /\ open' = Append(open, [kind |-> c, node |-> m + 1])
      /\ c \notin Accepts(Top.kind) => UNCHANGED <<nodes, open>>
  BY DEF Open, smap
<1>4. o = l /\ l \in Nat \ {0}
  <2>1. c \in Holds(nest[l].kind) /\ nest[l].kind \in LevelKinds
    BY <1>1, WalkerPlace DEF Open, Levels
  <2>2. nest[l].kind # "table"
    BY <2>1 DEF Holds, Containers
  <2>3. QED
    BY <1>1, <2>2, WalkerPlace
<1>5. /\ Len(nest') = l + 1 /\ nest'[l + 1].children = 0
      /\ \A i \in 1..l : nest'[i] = nest[i]
  <2>1. nest \in Seq(Levels) /\ [kind |-> c, children |-> 0] \in Levels
    BY <1>1 DEF TypeInv, Levels, LevelKinds
  <2>2. QED
    BY <1>3, <2>1, Appended
<1>6. c \in Accepts(Top.kind) =>
        /\ Len(nodes') = m + 1 /\ DOMAIN nodes' = 1..(m + 1)
        /\ (\A i \in 1..m : nodes'[i] = nodes[i])
        /\ nodes'[m + 1].block = 0 /\ nodes'[m + 1].parent = Top.node
        /\ Len(open') = o + 1 /\ (\A k \in 1..o : open'[k] = open[k])
        /\ DOMAIN open' = 1..(o + 1) /\ open'[o + 1].node = m + 1
  <2> SUFFICES ASSUME c \in Accepts(Top.kind)
               PROVE  /\ Len(nodes') = m + 1 /\ DOMAIN nodes' = 1..(m + 1)
                      /\ (\A i \in 1..m : nodes'[i] = nodes[i])
                      /\ nodes'[m + 1].block = 0 /\ nodes'[m + 1].parent = Top.node
                      /\ Len(open') = o + 1 /\ (\A k \in 1..o : open'[k] = open[k])
                      /\ DOMAIN open' = 1..(o + 1) /\ open'[o + 1].node = m + 1
    OBVIOUS
  <2>1. IsSequence(nodes)
    <3>1. nodes \in Seq(NodeRecords)
      BY <1>1 DEF TypeInv
    <3> DEFINE S == {nodes[i] : i \in DOMAIN nodes}
    <3>2. nodes \in [1..m -> S]
      BY <1>2, <3>1
    <3>3. nodes \in Seq(S)
      BY <1>2, <3>2, SeqDef
    <3>4. QED
      BY <3>3 DEF IsSequence
  <2>2. /\ Len(nodes') = m + 1 /\ DOMAIN nodes' = 1..(m + 1)
        /\ (\A i \in 1..m : nodes'[i] = nodes[i])
        /\ nodes'[m + 1] = Node(c, NoText, 0)
    BY <1>3, <2>1, AppendedTo
  <2>3. Node(c, NoText, 0).block = 0 /\ Node(c, NoText, 0).parent = Top.node
    BY DEF Node
  <2> DEFINE e == [kind |-> c, node |-> m + 1]
  <2>4. e \in Places /\ e.node = m + 1
    <3>1. c \in LevelKinds
      BY DEF LevelKinds
    <3>2. m \in Nat
      BY <1>2
    <3> HIDE DEF m
    <3>3. m + 1 \in Nat
      BY <3>2
    <3>4. QED
      BY <3>1, <3>3 DEF Places
  <2>5. open' = Append(open, e)
    BY <1>3
  <2> HIDE DEF e, m
  <2>6. Len(open') = o + 1 /\ (\A k \in 1..o : open'[k] = open[k]) /\ open'[o + 1] = e
        /\ DOMAIN open' = 1..(o + 1)
    <3>1. open \in Seq(Places) /\ e \in Places
      BY <1>2, <2>4
    <3>2. QED
      BY <2>5, <3>1, Appended
  <2>7. QED
    BY <2>2, <2>3, <2>4, <2>6
<1> HIDE DEF m, o, l
<1>7. MapInv'
  <2>1. CASE c \notin Accepts(Top.kind)
    BY <1>1, <1>3, <2>1 DEF MapInv
  <2>2. CASE c \in Accepts(Top.kind)
    <3>1. \A i \in 1..(m + 1) : i = m + 1 \/ i \in 1..m
      BY <1>2
    <3>2. \A i \in DOMAIN nodes' : nodes'[i].block # 0 => i \in DOMAIN nodes /\ nodes'[i] = nodes[i]
      BY <1>2, <1>6, <2>2, <3>1
    <3>3. ASSUME NEW k \in DOMAIN open', open'[k].node < Len(nodes')
          PROVE  nodes'[open'[k].node + 1].parent = open'[k].node
      <4>1. k \in 1..o /\ open'[k] = open[k]
        <5>1. \A i \in 1..(o + 1) : i = o + 1 \/ i \in 1..o
          BY <1>2
        <5>2. k # o + 1
          BY <1>2, <1>6, <2>2, <3>3
        <5>3. QED
          BY <1>6, <2>2, <5>1, <5>2
      <4>2. CASE open[k].node = m
        <5>1. k = o
          BY <1>2, <4>1, <4>2
        <5>2. QED
          BY <1>2, <1>6, <2>2, <4>1, <4>2, <5>1
      <4>3. CASE open[k].node # m
        <5>1. open[k].node < m /\ open[k].node + 1 \in 1..m
          BY <1>2, <4>1, <4>3
        <5>2. nodes[open[k].node + 1].parent = open[k].node
          BY <1>1, <1>2, <4>1, <5>1 DEF MapInv, m
        <5>3. QED
          BY <1>6, <2>2, <4>1, <5>1, <5>2
      <4>4. QED
        BY <4>2, <4>3
    <3>4. \A i \in DOMAIN nodes' : nodes'[i].block # 0 =>
             /\ nodes'[i].block \in 1..Len(input)
             /\ nodes'[i].text = input[nodes'[i].block].text
             /\ nodes'[i].kind \in LeafKinds => Translatable(input[nodes'[i].block])
      BY <1>1, <3>2 DEF MapInv
    <3>5. \A i, j \in DOMAIN nodes' : i < j /\ nodes'[i].block # 0 /\ nodes'[j].block # 0 =>
             nodes'[i].block <= nodes'[j].block
      BY <1>1, <3>2 DEF MapInv
    <3>6. QED
      BY <1>3, <3>3, <3>4, <3>5 DEF MapInv
  <2>3. QED
    BY <2>1, <2>2
<1>8. ChildInv'
  <2>1. ASSUME NEW i \in 1..(l + 1), NEW j \in 1..(l + 1), i < j, nest'[i].children = 0
        PROVE  nest'[j].children = 0
    <3>1. CASE j = l + 1
      BY <1>5, <3>1
    <3>2. CASE j # l + 1
      <4>1. i \in 1..l /\ j \in 1..l
        BY <1>4, <2>1, <3>2
      <4>2. QED
        BY <1>1, <1>5, <2>1, <4>1 DEF ChildInv, l
    <3>3. QED
      BY <3>1, <3>2
  <2>2. ASSUME Len(open') = Len(nest') PROVE Top'.node = Len(nodes')
    <3>1. CASE c \in Accepts(Top.kind)
      BY <1>6, <3>1 DEF Top
    <3>2. CASE c \notin Accepts(Top.kind)
      <4>1. Len(open') = o
        BY <1>3, <3>2 DEF o
      <4>2. QED
        BY <1>4, <1>5, <2>2, <4>1
    <3>3. QED
      BY <3>1, <3>2
  <2>3. QED
    BY <1>5, <2>1, <2>2 DEF ChildInv
<1>9. PhaseInv'
  BY <1>1, <1>3 DEF PhaseInv
<1>10. CoverInv'
  <2>1. Plain' => Plain
    BY <1>3 DEF Plain
  <2>2. /\ DOMAIN nodes \subseteq DOMAIN nodes' /\ \A i \in DOMAIN nodes : nodes'[i] = nodes[i]
        /\ o <= Len(open') /\ Len(open') \in Nat /\ \A k \in 1..o : open'[k] = open[k]
    <3>1. CASE c \in Accepts(Top.kind)
      BY <1>2, <1>6, <3>1
    <3>2. CASE c \notin Accepts(Top.kind)
      <4>1. UNCHANGED <<nodes, open>>
        BY <1>3, <3>2
      <4>2. o <= o /\ o \in Nat
        BY <1>2
      <4>3. QED
        BY <4>1, <4>2 DEF o
    <3>3. QED
      BY <3>1, <3>2
  <2>3. \A n \in DOMAIN nodes, i \in 1..Len(input) :
          LeafOf(n, i) => n \in DOMAIN nodes' /\ LeafOf(n, i)'
    BY <1>1, <2>2, LeafStays DEF o
  <2> SUFFICES ASSUME Plain', NEW i \in 1..Len(input), Translatable(input[i])
               PROVE  \E n \in DOMAIN nodes' : LeafOf(n, i)'
    BY <1>3 DEF CoverInv
  <2>4. PICK n \in DOMAIN nodes : LeafOf(n, i)
    BY <1>1, <2>1 DEF CoverInv
  <2>5. QED
    BY <2>3, <2>4
<1>11. QED
  BY <1>7, <1>8, <1>9, <1>10 DEF LeafInv

\* A closed item gets the block and the text of the paragraph behind it, if
\* there is one.
LEMMA ClosedNodes ==
  ASSUME TypeInv, PlaceInv, MapInv, Len(open) > 1, nodes' = Closed
  PROVE  LET t == Top.node
             m == Len(nodes)
             first == Top.kind = "item" /\ t < m /\ nodes[t + 1].kind = "paragraph"
         IN  /\ Len(nodes') = m /\ DOMAIN nodes' = 1..m /\ t \in 1..m
             /\ nodes[t].kind = Top.kind /\ nodes[t].block = 0
             /\ \A k \in 1..m : /\ k # t => nodes'[k] = nodes[k]
                                /\ nodes'[k].kind = nodes[k].kind
                                /\ nodes'[k].parent = nodes[k].parent
             /\ first => /\ nodes'[t].text = nodes[t + 1].text
                         /\ nodes'[t].block = nodes[t + 1].block
                         /\ nodes[t + 1].parent = t
             /\ ~first => nodes' = nodes
<1> DEFINE t == Top.node
           m == Len(nodes)
           Kids == {i \in DOMAIN nodes : nodes[i].parent = Top.node}
           i == CHOOSE k \in Kids : \A j \in Kids : k <= j
           first == Top.kind = "item" /\ t < m /\ nodes[t + 1].kind = "paragraph"
<1>1. /\ m \in Nat /\ DOMAIN nodes = 1..m /\ Top = open[Len(open)] /\ Len(open) \in Nat
      /\ DOMAIN open = 1..Len(open) /\ t \in 0..m
      /\ \A k \in 1..m : nodes[k] \in NodeRecords /\ nodes[k].parent < k
  <2>1. /\ m \in Nat /\ DOMAIN nodes = 1..m /\ Top = open[Len(open)] /\ Len(open) \in Nat
        /\ DOMAIN open = 1..Len(open) /\ \A k \in 1..Len(open) : open[k].node \in 0..m
    BY OpenPlaces
  <2>2. Len(open) \in 1..Len(open)
    BY <2>1
  <2>3. nodes \in Seq(NodeRecords) /\ \A k \in 1..m : nodes[k].parent < k
    BY <2>1 DEF TypeInv
  <2>4. QED
    BY <2>1, <2>2, <2>3
<1>2. t \in 1..m /\ nodes[t].kind = Top.kind /\ nodes[t].block = 0
  <2>1. Len(open) \in 2..Len(open)
    BY <1>1
  <2>2. t # 0 /\ nodes[t].kind = Top.kind /\ nodes[t].block = 0
    BY <1>1, <2>1 DEF PlaceInv
  <2>3. QED
    BY <1>1, <2>2
<1>3. t < m => t + 1 \in 1..m /\ nodes[t + 1].parent = t
  <2>1. Len(open) \in DOMAIN open
    BY <1>1
  <2>2. t < m => nodes[t + 1].parent = t
    BY <1>1, <2>1 DEF MapInv
  <2>3. QED
    BY <1>1, <1>2, <2>2
<1>4. t < m => Kids # {} /\ i = t + 1
  <2> SUFFICES ASSUME t < m PROVE Kids # {} /\ i = t + 1
    OBVIOUS
  <2>1. Kids \subseteq Nat /\ t + 1 \in Kids
    BY <1>1, <1>3
  <2>2. \A k \in Kids : k \in Nat /\ t < k
    BY <1>1
  <2> HIDE DEF Kids
  <2>3. i \in Kids /\ \A j \in Kids : i <= j
    <3>1. Kids # {}
      BY <2>1
    <3>2. QED
      BY <2>1, <3>1, FirstOf
  <2> HIDE DEF i
  <2>4. i \in Nat /\ t < i /\ i <= t + 1 /\ t \in Nat
    BY <1>1, <2>1, <2>2, <2>3
  <2>5. QED
    BY <2>1, <2>4
<1>5. ~(t < m) => Kids = {}
  BY <1>1
<1>6. nodes' = IF Top.kind = "item" /\ Kids # {} /\ nodes[i].kind = "paragraph"
               THEN [nodes EXCEPT ![t].text = nodes[i].text, ![t].block = nodes[i].block]
               ELSE nodes
  BY DEF Closed
<1> HIDE DEF Kids, i
<1>7. CASE first
  <2> DEFINE q == nodes[t + 1]
             e == [nodes[t] EXCEPT !.text = q.text, !.block = q.block]
  <2>1. nodes' = [nodes EXCEPT ![t].text = q.text, ![t].block = q.block]
    BY <1>4, <1>6, <1>7
  <2>2. nodes' = [nodes EXCEPT ![t] = e]
    BY <1>1, <1>2, <2>1
  <2>3. /\ e.kind = nodes[t].kind /\ e.parent = nodes[t].parent
        /\ e.text = q.text /\ e.block = q.block
    <3>1. nodes[t] \in NodeRecords
      BY <1>1, <1>2
    <3> HIDE DEF q
    <3>2. QED
      BY <3>1 DEF NodeRecords
  <2> HIDE DEF e
  <2>4. /\ DOMAIN nodes' = 1..m /\ nodes'[t] = e
        /\ \A k \in 1..m : k # t => nodes'[k] = nodes[k]
    BY <1>1, <1>2, <2>2
  <2>5. Len(nodes') = m
    BY <1>1, <2>4
  <2> HIDE DEF t, m
  <2>6. QED
    BY <1>2, <1>3, <1>7, <2>3, <2>4, <2>5 DEF t, m
<1>8. CASE ~first
  <2>1. nodes' = nodes
    BY <1>4, <1>5, <1>6, <1>8
  <2>2. QED
    BY <1>1, <1>2, <1>8, <2>1
<1>9. QED
  BY <1>7, <1>8

\* A closed container leaves the map in order and every leaf a leaf.
LEMMA LeavesClosed ==
  ASSUME DocumentInv, LeafInv, Close
  PROVE  LeafInv'
<1> DEFINE m == Len(nodes)
           o == Len(open)
           l == Len(nest)
           t == Top.node
<1>1. TypeInv /\ WalkInv /\ PlaceInv /\ MapInv /\ ChildInv /\ PhaseInv /\ CoverInv
  BY DEF DocumentInv, LeafInv
<1>2. /\ UNCHANGED <<phase, input, next>> /\ phase = "parse"
      /\ l > 1 /\ nest' = Front(nest) /\ Last(nest) = nest[l] /\ nest[l].children > 0
      /\ nest \in Seq(Levels) /\ nest # <<>> /\ l \in Nat \ {0}
  <2>1. nest \in Seq(Levels) /\ nest # <<>>
    BY <1>1 DEF TypeInv
  <2>2. Last(nest) = nest[l] /\ l \in Nat \ {0}
    BY <1>1, WalkerPlace
  <2>3. QED
    BY <2>1, <2>2 DEF Close
<1>3. Len(nest') = l - 1 /\ \A i \in 1..(l - 1) : nest'[i] = nest[i]
  BY <1>2, FrontOf
<1>4. /\ m \in Nat /\ DOMAIN nodes = 1..m /\ DOMAIN open = 1..o
      /\ Top = open[o] /\ o \in Nat \ {0} /\ open \in Seq(Places)
  BY <1>1, OpenPlaces
<1>5. nest[l].children # 0
  BY <1>2
<1>6. ChildInv'
  <2>1. \A i \in 1..(l - 1) : i \in 1..l
    BY <1>2
  <2>2. nest[l - 1].children # 0
    <3>1. l - 1 \in 1..l /\ l \in 1..l /\ l - 1 < l
      BY <1>2
    <3>2. QED
      BY <1>1, <1>5, <3>1 DEF ChildInv
  <2>3. l - 1 \in 1..(l - 1)
    BY <1>2
  <2> HIDE DEF l
  <2>4. \A i, j \in 1..(l - 1) : i < j /\ nest'[i].children = 0 => nest'[j].children = 0
    BY <1>1, <1>3, <2>1 DEF ChildInv, l
  <2>5. nest'[l - 1].children # 0
    BY <1>3, <2>2, <2>3
  <2>6. QED
    BY <1>3, <2>4, <2>5 DEF ChildInv
<1>7. PhaseInv'
  BY <1>1, <1>2 DEF PhaseInv
<1>8. CASE ~WalkerLeaves(Last(nest).kind)
  <2>1. UNCHANGED <<nodes, open>>
    BY <1>8 DEF Close, smap
  <2>2. MapInv'
    BY <1>1, <1>2, <2>1 DEF MapInv
  <2>3. CoverInv'
    BY <1>1, <1>2, <2>1 DEF CoverInv, Plain, LeafOf, FirstInItem, IsDupParagraph
  <2>4. QED
    BY <1>6, <1>7, <2>2, <2>3 DEF LeafInv
<1>9. CASE WalkerLeaves(Last(nest).kind)
  <2> DEFINE first == Top.kind = "item" /\ t < m /\ nodes[t + 1].kind = "paragraph"
  <2>1. nodes' = Closed /\ open' = Front(open) /\ Top.kind = nest[l].kind
    BY <1>2, <1>9 DEF Close, WalkerLeaves
  <2>2. o > 1
    <3>1. ~InSkippedTable
      <4>1. InSkippedTable => Top.kind = "quote" /\ nest[l].kind = "table"
        BY <1>1, WalkerPlace
      <4>2. QED
        BY <2>1, <4>1
    <3>2. o = l
      BY <1>1, <3>1, WalkerPlace
    <3>3. QED
      BY <1>2, <3>2
  <2>3. /\ Len(open') = o - 1 /\ DOMAIN open' = 1..(o - 1)
        /\ \A k \in 1..(o - 1) : open'[k] = open[k]
    <3>1. open # <<>>
      BY <1>1 DEF TypeInv
    <3>2. QED
      BY <1>4, <2>1, <3>1, FrontOf
  <2>4. /\ Len(nodes') = m /\ DOMAIN nodes' = 1..m /\ t \in 1..m
        /\ nodes[t].kind = Top.kind /\ nodes[t].block = 0
        /\ \A k \in 1..m : /\ k # t => nodes'[k] = nodes[k]
                           /\ nodes'[k].kind = nodes[k].kind
                           /\ nodes'[k].parent = nodes[k].parent
        /\ first => /\ nodes'[t].text = nodes[t + 1].text
                    /\ nodes'[t].block = nodes[t + 1].block
                    /\ nodes[t + 1].parent = t
        /\ ~first => nodes' = nodes
    BY <1>1, <2>1, <2>2, ClosedNodes
  <2>5. first => t + 1 \in 1..m /\ nodes[t + 1].kind \in LeafKinds
    <3>1. t < m => t + 1 \in 1..m
      BY <1>4, <2>4
    <3>2. QED
      BY <3>1 DEF LeafKinds
  <2> HIDE DEF first, t, m, o
  <2>6. \A k \in 1..(o - 1) : k \in DOMAIN open
    BY <1>4
  <2>7. \A k \in 1..(o - 1) : open[k].node < m => nodes'[open[k].node + 1].parent = open[k].node
    <3> SUFFICES ASSUME NEW k \in 1..(o - 1), open[k].node < m
                 PROVE  nodes'[open[k].node + 1].parent = open[k].node
      OBVIOUS
    <3>1. open[k].node \in 0..m
      BY <1>1, <1>4, <2>6, OpenPlaces DEF m
    <3>2. open[k].node + 1 \in 1..m
      BY <1>4, <3>1
    <3>3. nodes[open[k].node + 1].parent = open[k].node
      BY <1>1, <2>6 DEF MapInv, m
    <3>4. QED
      BY <2>4, <3>2, <3>3
  <2>8. CASE ~first
    <3>1. nodes' = nodes
      BY <2>4, <2>8
    <3>2. MapInv'
      BY <1>1, <1>2, <2>3, <2>7, <3>1 DEF MapInv, m
    <3>3. CoverInv'
      <4> SUFFICES ASSUME Plain', NEW i \in 1..Len(input), Translatable(input[i])
                   PROVE  \E n \in DOMAIN nodes' : LeafOf(n, i)'
        BY <1>2 DEF CoverInv
      <4>1. Plain
        BY <1>2 DEF Plain
      <4>2. PICK n \in DOMAIN nodes : LeafOf(n, i)
        BY <1>1, <4>1 DEF CoverInv
      <4>3. FirstInItem(n) /\ IsDupParagraph(nodes[n]) => FirstInItem(n)'
        <5> SUFFICES ASSUME FirstInItem(n), nodes[n].kind = "paragraph" PROVE FirstInItem(n)'
          BY DEF IsDupParagraph
        <5>1. PICK k \in 1..Len(open) : open[k] = [kind |-> "item", node |-> nodes[n].parent]
          BY DEF FirstInItem
        <5>2. n = nodes[n].parent + 1
          BY DEF FirstInItem
        <5>3. k # o
          <6> SUFFICES ASSUME k = o PROVE FALSE
            OBVIOUS
          <6>1. Top.kind = "item" /\ t = nodes[n].parent
            BY <1>4, <5>1 DEF t
          <6>2. n = t + 1 /\ n \in 1..m
            BY <1>4, <5>2, <6>1
          <6>3. t < m
            BY <1>4, <2>4, <6>2
          <6>4. QED
            BY <2>8, <6>1, <6>2, <6>3 DEF first
        <5>4. k \in 1..(o - 1)
          <6>1. o \in Nat /\ k \in 1..o
            BY <1>4 DEF o
          <6>2. QED
            BY <5>3, <6>1
        <5>5. QED
          BY <2>3, <3>1, <5>1, <5>2, <5>4 DEF FirstInItem
      <4>4. LeafOf(n, i)'
        BY <3>1, <4>2, <4>3 DEF LeafOf, IsDupParagraph
      <4>5. QED
        BY <3>1, <4>2, <4>4
    <3>4. QED
      BY <1>6, <1>7, <3>2, <3>3 DEF LeafInv
  <2>9. CASE first
    <3> DEFINE q == nodes[t + 1]
    <3>1. t \in 1..m /\ t + 1 \in 1..m /\ nodes'[t].block = q.block /\ nodes'[t].text = q.text
          /\ Top.kind = "item" /\ q.kind = "paragraph" /\ q.parent = t
          /\ nodes'[t].kind = "item"
      BY <2>4, <2>5, <2>9 DEF first
    <3>2. \A k \in 1..m : nodes[k].block \in Nat
      <4>1. \A k \in 1..m : nodes[k] \in NodeRecords
        BY <1>1, <1>4 DEF TypeInv
      <4>2. QED
        BY <4>1 DEF NodeRecords
    <3>3. ASSUME NEW n \in 1..m, nodes'[n].block # 0
          PROVE  /\ nodes'[n].block \in 1..Len(input)
                 /\ nodes'[n].text = input[nodes'[n].block].text
                 /\ nodes'[n].kind \in LeafKinds => Translatable(input[nodes'[n].block])
      <4>1. CASE n = t
        <5>1. q.block # 0 /\ q.kind \in LeafKinds
          BY <2>5, <2>9, <3>1, <3>3, <4>1
        <5>2. /\ q.block \in 1..Len(input) /\ q.text = input[q.block].text
              /\ Translatable(input[q.block])
          BY <1>1, <1>4, <3>1, <5>1 DEF MapInv
        <5>3. QED
          BY <3>1, <4>1, <5>2
      <4>2. CASE n # t
        <5>1. nodes'[n] = nodes[n]
          BY <2>4, <4>2
        <5>2. QED
          BY <1>1, <1>4, <3>3, <5>1 DEF MapInv
      <4>3. QED
        BY <4>1, <4>2
    <3>4. ASSUME NEW a \in 1..m, NEW b \in 1..m, a < b, nodes'[a].block # 0, nodes'[b].block # 0
          PROVE  nodes'[a].block <= nodes'[b].block
      <4>1. \A c, d \in 1..m : c < d /\ nodes[c].block # 0 /\ nodes[d].block # 0 =>
              nodes[c].block <= nodes[d].block
        BY <1>1, <1>4 DEF MapInv
      <4>2. CASE a = t
        <5>1. nodes'[b] = nodes[b]
          BY <2>4, <3>4, <4>2
        <5>2. b = t + 1 \/ t + 1 < b
          BY <3>1, <3>4, <4>2
        <5>3. CASE b = t + 1
          BY <3>1, <3>2, <4>2, <5>1, <5>3
        <5>4. CASE t + 1 < b
          BY <3>1, <3>4, <4>1, <4>2, <5>1, <5>4
        <5>5. QED
          BY <5>2, <5>3, <5>4
      <4>3. CASE b = t
        <5>1. nodes'[a] = nodes[a] /\ a < t + 1
          BY <2>4, <3>1, <3>4, <4>3
        <5>2. QED
          BY <3>1, <3>4, <4>1, <4>3, <5>1
      <4>4. CASE a # t /\ b # t
        BY <2>4, <3>4, <4>1, <4>4
      <4>5. QED
        BY <4>2, <4>3, <4>4
    <3>5. MapInv'
      BY <1>2, <2>3, <2>4, <2>7, <3>3, <3>4 DEF MapInv
    <3>6. CoverInv'
      <4> SUFFICES ASSUME Plain', NEW i \in 1..Len(input), Translatable(input[i])
                   PROVE  \E n \in DOMAIN nodes' : LeafOf(n, i)'
        BY <1>2 DEF CoverInv
      <4>1. Plain
        BY <1>2 DEF Plain
      <4>2. PICK n \in DOMAIN nodes : LeafOf(n, i)
        BY <1>1, <4>1 DEF CoverInv
      <4>3. i # 0 /\ Len(input) \in Nat
        <5>1. Len(input) \in Nat
          BY <1>1 DEF TypeInv, IsSequence
        <5>2. QED
          BY <5>1
      <4>4. nodes'[n] = nodes[n] /\ n \in 1..m
        BY <1>4, <2>4, <4>2, <4>3 DEF LeafOf
      <4>5. CASE n = t + 1
        <5>1. nodes'[t].block = i
          BY <3>1, <4>2, <4>5 DEF LeafOf
        <5> PICK k : k = t
          OBVIOUS
        <5>2. LeafOf(k, i)'
          BY <3>1, <5>1 DEF LeafOf, LeafKinds, IsDupParagraph
        <5>3. QED
          BY <2>4, <3>1, <5>2
      <4>6. CASE n # t + 1
        <5>1. IsDupParagraph(nodes[n])' => IsDupParagraph(nodes[n])
          <6>1. nodes[n].parent # 0 => nodes[n].parent \in 1..m
            <7>1. nodes[n] \in NodeRecords /\ nodes[n].parent < n
              BY <1>1, <1>4, <4>2 DEF TypeInv
            <7>2. nodes[n].parent \in Nat
              BY <7>1 DEF NodeRecords
            <7>3. QED
              BY <1>4, <4>4, <7>1, <7>2
          <6>2. nodes[n].parent # 0 => nodes'[nodes[n].parent].kind = nodes[nodes[n].parent].kind
            BY <2>4, <6>1
          <6>3. QED
            BY <4>4, <6>2 DEF IsDupParagraph
        <5>2. FirstInItem(n) => FirstInItem(n)'
          <6> SUFFICES ASSUME FirstInItem(n) PROVE FirstInItem(n)'
            OBVIOUS
          <6>1. PICK k \in 1..Len(open) : open[k] = [kind |-> "item", node |-> nodes[n].parent]
            BY DEF FirstInItem
          <6>2. n = nodes[n].parent + 1
            BY DEF FirstInItem
          <6>3. k # o
            BY <1>4, <4>6, <6>1, <6>2 DEF t
          <6>4. k \in 1..(o - 1)
            <7>1. o \in Nat /\ k \in 1..o
              BY <1>4 DEF o
            <7>2. QED
              BY <6>3, <7>1
          <6>5. QED
            BY <2>3, <4>4, <6>1, <6>2, <6>4 DEF FirstInItem
        <5>3. LeafOf(n, i)'
          BY <4>2, <4>4, <5>1, <5>2 DEF LeafOf
        <5>4. QED
          BY <2>4, <4>4, <5>3
      <4>7. QED
        BY <4>5, <4>6
    <3>7. QED
      BY <1>6, <1>7, <3>5, <3>6 DEF LeafInv
  <2>10. QED
    BY <2>8, <2>9
<1>10. QED
  BY <1>8, <1>9

\* The map stays when nothing is parsed.
LEMMA LeavesStay ==
  ASSUME LeafInv, UNCHANGED <<input, nest, open, nodes>>, PhaseInv'
  PROVE  LeafInv'
<1>1. MapInv' /\ ChildInv'
  BY DEF LeafInv, MapInv, ChildInv, Top
<1>2. CoverInv'
  BY DEF LeafInv, CoverInv, Plain, LeafOf, FirstInItem, IsDupParagraph
<1>3. QED
  BY <1>1, <1>2 DEF LeafInv

\* LeafInv holds before every step.
THEOREM LeafInvariant == Spec => []LeafInv
<1>1. Init => LeafInv
  BY LeavesInit
<1>2. DocumentInv /\ LeafInv /\ [Next]_vars => LeafInv'
  <2> SUFFICES ASSUME DocumentInv, LeafInv, [Next]_vars PROVE LeafInv'
    OBVIOUS
  <2>1. ASSUME NEW b \in Blocks, ParseBlock(b) PROVE LeafInv'
    BY <2>1, LeavesParsed
  <2>2. ASSUME NEW c \in Containers, Open(c) PROVE LeafInv'
    BY <2>2, LeavesOpened
  <2>3. CASE Close
    BY <2>3, LeavesClosed
  <2>4. CASE EndOfDocument
    <3>1. UNCHANGED <<input, nest, open, nodes>> /\ phase' = "translate" /\ Len(nest) = 1
      BY <2>4 DEF EndOfDocument, document, smap
    <3>2. PhaseInv'
      BY <3>1 DEF PhaseInv
    <3>3. QED
      BY <3>1, <3>2, LeavesStay
  <2>5. CASE \/ TranslateLeaf \/ TranslateWhole \/ LeavesDone \/ RestoreCode
             \/ NormalizeAnchors \/ BindHeading \/ RewriteAnchors
    <3>1. UNCHANGED <<input, nest, open, nodes>> /\ phase # "parse" /\ phase' # "parse"
      BY <2>5 DEF TranslateLeaf, TranslateWhole, LeavesDone, RestoreCode,
                  NormalizeAnchors, BindHeading, RewriteAnchors, document, smap
    <3>2. PhaseInv'
      BY <3>1 DEF LeafInv, PhaseInv
    <3>3. QED
      BY <3>1, <3>2, LeavesStay
  <2>6. CASE UNCHANGED vars
    <3>1. UNCHANGED <<input, nest, open, nodes, phase, next>>
      BY <2>6 DEF vars, document, smap
    <3>2. PhaseInv'
      BY <3>1 DEF LeafInv, PhaseInv
    <3>3. QED
      BY <3>1, <3>2, LeavesStay
  <2>7. QED
    BY <2>1, <2>2, <2>3, <2>4, <2>5, <2>6 DEF Next
<1>3. QED
  BY <1>1, <1>2, DocumentInvariant, PTL DEF Spec

\* When the document is closed its leaves are its blocks, in their order, and
\* of a plain one they are all of them.
LEMMA ClosedLeaves ==
  ASSUME DocumentInv, LeafInv, input \in Seq(SourceBlocks), phase # "parse", Plain
  PROVE  LeavesInOrder
<1>1. TypeInv /\ WalkInv /\ PlaceInv /\ BlockInv /\ MapInv /\ PhaseInv /\ CoverInv
  BY DEF DocumentInv, LeafInv
<1>2. /\ Len(input) \in Nat /\ nodes \in Seq(NodeRecords) /\ Len(nodes) \in Nat
      /\ DOMAIN nodes = 1..Len(nodes)
  BY <1>1 DEF TypeInv
<1>3. ASSUME NEW n \in Leaves
      PROVE  /\ n \in DOMAIN nodes /\ nodes[n].block # 0 /\ nodes[n].block \in 1..Len(input)
             /\ nodes[n].text = Part(input[nodes[n].block])
  <2>1. n \in DOMAIN nodes /\ nodes[n].kind \in LeafKinds /\ nodes[n].text # NoText
    BY DEF Leaves, IsLeaf, LeafKinds
  <2>2. nodes[n].block # 0
    BY <1>1, <2>1 DEF BlockInv
  <2>3. /\ nodes[n].block \in 1..Len(input) /\ Translatable(input[nodes[n].block])
        /\ nodes[n].text = input[nodes[n].block].text
    BY <1>1, <2>1, <2>2 DEF MapInv
  <2>4. QED
    BY <2>1, <2>2, <2>3 DEF Part
<1>4. ASSUME NEW m \in Leaves, NEW n \in Leaves, m < n
      PROVE  nodes[m].block < nodes[n].block
  <2>1. nodes[m].block <= nodes[n].block
    BY <1>1, <1>3, <1>4 DEF MapInv
  <2>2. nodes[m].block # nodes[n].block
    <3> SUFFICES ASSUME nodes[m].block = nodes[n].block PROVE FALSE
      OBVIOUS
    <3>1. /\ nodes[m].kind = "item" /\ nodes[n].kind = "paragraph" /\ nodes[n].parent = m
      BY <1>1, <1>3, <1>4 DEF BlockInv
    <3>2. IsDupParagraph(nodes[n])
      <4>1. m # 0
        BY <1>2, <1>3
      <4>2. QED
        BY <3>1, <4>1 DEF IsDupParagraph
    <3>3. QED
      BY <3>2 DEF Leaves, IsLeaf
  <2>3. nodes[m].block \in Nat /\ nodes[n].block \in Nat
    BY <1>3
  <2>4. QED
    BY <2>1, <2>2, <2>3
<1>5. ASSUME NEW i \in 1..Len(input), NEW j \in 1..Len(Part(input[i])),
             Foreign(Part(input[i])[j])
      PROVE  \E n \in Leaves : nodes[n].block = i
  <2>1. Translatable(input[i]) /\ Part(input[i]) = input[i].text
    BY <1>5 DEF Part
  <2>2. input[i].text # NoText
    <3>1. ~Foreign(NoText[1]) /\ Len(NoText) = 1
      BY DEF NoText, Mark, Foreign
    <3>2. j \in 1..1 => j = 1
      OBVIOUS
    <3>3. QED
      BY <1>5, <2>1, <3>1, <3>2
  <2>3. PICK n \in DOMAIN nodes : LeafOf(n, i)
    BY <1>1, <2>1 DEF CoverInv
  <2>4. nodes[n].block = i /\ nodes[n].kind \in LeafKinds /\ i # 0
    BY <1>2, <2>3 DEF LeafOf
  <2>5. nodes[n].text # NoText
    BY <1>1, <2>2, <2>4 DEF MapInv
  <2>6. ~FirstInItem(n)
    <3> SUFFICES ASSUME FirstInItem(n) PROVE FALSE
      OBVIOUS
    <3>1. PICK k \in 1..Len(open) : open[k] = [kind |-> "item", node |-> nodes[n].parent]
      BY DEF FirstInItem
    <3>2. Len(nest) = 1
      BY <1>1 DEF PhaseInv
    <3>3. Len(open) = 1
      <4>1. ~InSkippedTable
        BY <3>2 DEF InSkippedTable
      <4>2. QED
        BY <1>1, <3>2, <4>1, WalkerPlace
    <3>4. k = 1 /\ open[1] = Root
      BY <1>1, <3>3 DEF PlaceInv
    <3>5. Root.kind = "root"
      BY DEF Root
    <3>6. QED
      BY <3>1, <3>4, <3>5
  <2>7. n \in Leaves
    BY <2>3, <2>4, <2>5, <2>6 DEF Leaves, IsLeaf, LeafOf, LeafKinds
  <2>8. QED
    BY <2>4, <2>7
<1>6. QED
  BY <1>3, <1>4, <1>5 DEF LeavesInOrder

-----------------------------------------------------------------------------
(* Lines and fences, one atom at a time. *)

\* Two functions that begin alike and go on alike end alike.
LEMMA SameEnd ==
  ASSUME NEW n \in Nat, NEW f, NEW g, f[0] = g[0],
         \A i \in 1..n : f[i - 1] = g[i - 1] => f[i] = g[i]
  PROVE  f[n] = g[n]
<1> DEFINE S == {i \in Nat : i \in 0..n => f[i] = g[i]}
<1>1. 0 \in S
  OBVIOUS
<1>2. ASSUME NEW i \in S PROVE i + 1 \in S
  <2> DEFINE k == i + 1
  <2> SUFFICES ASSUME k \in 0..n PROVE f[k] = g[k]
    OBVIOUS
  <2>1. k \in 1..n /\ k - 1 = i /\ i \in 0..n
    OBVIOUS
  <2> HIDE DEF k
  <2>2. f[k - 1] = g[k - 1]
    BY <2>1
  <2>3. QED
    BY <2>1, <2>2
<1>3. S = Nat
  <2> HIDE DEF S
  <2>1. QED
    BY <1>1, <1>2, AllNumbers DEF S
<1>4. QED
  BY <1>3

LineStep(ls, a) == IF a = Nl THEN Append(ls, <<>>) ELSE Front(ls) \o <<Append(Last(ls), a)>>
LineLists(A) == Seq(Seq(A)) \ {<<>>}

\* A step of the scan for lines keeps the lines typed.
LEMMA LineStepKeeps ==
  ASSUME NEW A, NEW ls \in LineLists(A), NEW a \in A
  PROVE  LineStep(ls, a) \in LineLists(A)
<1>1. ls \in Seq(Seq(A)) /\ ls # <<>>
  BY DEF LineLists
<1>2. CASE a = Nl
  <2> DEFINE none == <<>>
             Y == Seq(A)
             z == Append(ls, none)
  <2>1. none \in Y /\ ls \in Seq(Y)
    BY <1>1
  <2> HIDE DEF none, Y
  <2>2. z \in Seq(Y) /\ z # <<>>
    BY <2>1, Appended
  <2> HIDE DEF z
  <2>3. LineStep(ls, a) = z
    BY <1>2 DEF LineStep, z, none
  <2>4. QED
    BY <2>2, <2>3 DEF Y, LineLists
<1>3. CASE a # Nl
  <2>1. Front(ls) \in Seq(Seq(A)) /\ Last(ls) \in Seq(A)
    <3>1. Front(ls) \in Seq(Seq(A)) /\ Last(ls) = ls[Len(ls)] /\ Len(ls) \in 1..Len(ls)
      BY <1>1, FrontOf
    <3>2. QED
      BY <1>1, <3>1
  <2>2. Append(Last(ls), a) \in Seq(A)
    BY <2>1
  <2> DEFINE e == Append(Last(ls), a)
             f == Front(ls)
  <2> HIDE DEF e, f
  <2>3. <<e>> \in Seq(Seq(A)) /\ Len(<<e>>) = 1 /\ f \in Seq(Seq(A))
    BY <2>1, <2>2 DEF e, f
  <2>4. f \o <<e>> \in Seq(Seq(A)) /\ f \o <<e>> # <<>>
    BY <2>3
  <2>5. LineStep(ls, a) = f \o <<e>>
    BY <1>3 DEF LineStep, e, f
  <2>6. QED
    BY <2>4, <2>5 DEF LineLists
<1>4. QED
  BY <1>2, <1>3

\* The lines of a text are what a scan of it ends with.
LEMMA LinesScanned ==
  ASSUME NEW A, NEW t \in Seq(A)
  PROVE  \E c \in [0..Len(t) -> LineLists(A)] :
            /\ c[0] = << <<>> >> /\ \A i \in 1..Len(t) : c[i] = LineStep(c[i - 1], t[i])
            /\ Lines(t) = c[Len(t)]
<1> DEFINE X == LineLists(A)
           n == Len(t)
           F == [p \in Nat \X X |-> IF p[1] \in 1..n THEN LineStep(p[2], t[p[1]]) ELSE p[2]]
           base == << <<>> >>
           Def(f) == f = [i \in 0..n |-> IF i = 0 THEN base ELSE LineStep(f[i - 1], t[i])]
           c == CHOOSE f : Def(f)
<1>1. Lines(t) = c[n]
  BY DEF Lines, Scan, LineStep
<1> HIDE DEF c, Def
<1>2. base \in X /\ n \in Nat /\ \A i \in 1..n : t[i] \in A
  BY DEF LineLists
<1>3. F \in [Nat \X X -> X]
  <2> HIDE DEF X
  <2>1. \A p \in Nat \X X : p[2] \in X /\ (p[1] \in 1..n => LineStep(p[2], t[p[1]]) \in X)
    BY <1>2, LineStepKeeps DEF X
  <2> HIDE DEF n
  <2>2. QED
    BY <2>1
<1> HIDE DEF F, X, base, n
<1>4. PICK f \in [0..n -> X] : Recursive(f, base, F, n)
  BY <1>2, <1>3, Recursion
<1>5. Def(f)
  <2>1. ASSUME NEW i \in 1..n PROVE f[i] = LineStep(f[i - 1], t[i])
    <3>1. i \in Nat /\ i - 1 \in 0..n /\ f[i - 1] \in X
      BY <1>2
    <3>2. F[<<i, f[i - 1]>>] = LineStep(f[i - 1], t[i])
      BY <3>1 DEF F
    <3>3. QED
      BY <1>4, <3>2 DEF Recursive
  <2>2. \A i \in 0..n : f[i] = IF i = 0 THEN base ELSE LineStep(f[i - 1], t[i])
    BY <1>2, <1>4, <2>1 DEF Recursive
  <2>3. QED
    BY <2>2 DEF Def
<1>6. Def(c)
  BY <1>5 DEF c
<1>7. c \in [0..n -> X] /\ c[0] = base /\ \A i \in 1..n : c[i] = LineStep(c[i - 1], t[i])
  <2>1. c = [i \in 0..n |-> c[i]] /\ c[0] = base
        /\ \A i \in 1..n : c[i] = LineStep(c[i - 1], t[i])
    BY <1>2, <1>6 DEF Def
  <2>2. ASSUME NEW i \in 1..n, c[i - 1] \in X
        PROVE  c[i] = F[<<i, c[i - 1]>>]
    <3>1. <<i, c[i - 1]>> \in Nat \X X
      BY <1>2, <2>2
    <3>2. F[<<i, c[i - 1]>>] = LineStep(c[i - 1], t[i])
      BY <3>1 DEF F
    <3>3. QED
      BY <2>1, <3>2
  <2>3. ScanIn(X, c, base, F, n)
    BY <2>1, <2>2 DEF ScanIn
  <2>4. QED
    BY <1>2, <1>3, <2>1, <2>3, Scanned
<1>8. QED
  BY <1>1, <1>7 DEF X, n, base

\* An atom more of a text is a step more of its lines.
LEMMA LinesAppended ==
  ASSUME NEW A, NEW t \in Seq(A), NEW a \in A
  PROVE  /\ Lines(t) \in LineLists(A) /\ Lines(<<>>) = << <<>> >>
         /\ Lines(Append(t, a)) = LineStep(Lines(t), a)
<1> DEFINE n == Len(t)
           u == Append(t, a)
<1>1. /\ n \in Nat /\ u \in Seq(A) /\ Len(u) = n + 1
      /\ (\A i \in 1..n : u[i] = t[i]) /\ u[n + 1] = a
  BY Appended
<1> HIDE DEF u
<1>2. PICK c \in [0..n -> LineLists(A)] :
         /\ c[0] = << <<>> >> /\ \A i \in 1..n : c[i] = LineStep(c[i - 1], t[i])
         /\ Lines(t) = c[n]
  BY LinesScanned
<1>3. PICK d \in [0..(n + 1) -> LineLists(A)] :
         /\ d[0] = << <<>> >> /\ \A i \in 1..(n + 1) : d[i] = LineStep(d[i - 1], u[i])
         /\ Lines(u) = d[n + 1]
  <2>1. \E d \in [0..Len(u) -> LineLists(A)] :
           /\ d[0] = << <<>> >> /\ \A i \in 1..Len(u) : d[i] = LineStep(d[i - 1], u[i])
           /\ Lines(u) = d[Len(u)]
    BY <1>1, LinesScanned
  <2>2. QED
    BY <1>1, <2>1
<1> HIDE DEF n
<1>4. c[n] = d[n]
  <2>1. \A i \in 1..n : c[i - 1] = d[i - 1] => c[i] = d[i]
    <3> SUFFICES ASSUME NEW i \in 1..n, c[i - 1] = d[i - 1] PROVE c[i] = d[i]
      OBVIOUS
    <3>1. i \in 1..(n + 1) /\ u[i] = t[i]
      BY <1>1
    <3>2. QED
      BY <1>2, <1>3, <3>1
  <2>2. c[0] = d[0]
    BY <1>2, <1>3
  <2>3. QED
    BY <1>1, <2>1, <2>2, SameEnd
<1>5. d[n + 1] = LineStep(d[n], a)
  <2> DEFINE k == n + 1
  <2>1. k \in 1..(n + 1) /\ k - 1 = n
    BY <1>1
  <2> HIDE DEF k
  <2>2. d[k] = LineStep(d[n], u[k])
    BY <1>3, <2>1
  <2>3. QED
    BY <1>1, <2>2 DEF k
<1>6. Lines(t) \in LineLists(A)
  BY <1>1, <1>2
<1>7. Lines(<<>>) = << <<>> >>
  <2>1. <<>> \in Seq(A) /\ Len(<<>>) = 0
    OBVIOUS
  <2>2. \E e \in [0..0 -> LineLists(A)] : e[0] = << <<>> >> /\ Lines(<<>>) = e[0]
    <3> DEFINE z == <<>>
    <3>1. z \in Seq(A) /\ Len(z) = 0
      BY <2>1
    <3> HIDE DEF z
    <3>2. \E e \in [0..Len(z) -> LineLists(A)] :
           /\ e[0] = << <<>> >> /\ \A i \in 1..Len(z) : e[i] = LineStep(e[i - 1], z[i])
           /\ Lines(z) = e[Len(z)]
      BY <3>1, LinesScanned
    <3>3. QED
      BY <3>1, <3>2 DEF z
  <2>3. QED
    BY <2>2
<1>8. QED
  BY <1>2, <1>3, <1>4, <1>5, <1>6, <1>7 DEF u

\* What the scan for fences has taken from a text.
NoneTaken == [text |-> <<>>, blocks |-> <<>>, block |-> <<>>]
Taken(t) == Scan(FenceStep, NoneTaken, t)

\* What the scan for fences takes of a text is what it ends with.
LEMMA FencesScanned ==
  ASSUME NEW A, A \subseteq Atoms, NEW t \in Seq(A)
  PROVE  \E c \in [0..Len(t) -> FenceStates(A)] :
            /\ c[0] = NoneTaken /\ \A i \in 1..Len(t) : c[i] = FenceStep(c[i - 1], t[i])
            /\ Taken(t) = c[Len(t)]
<1> DEFINE X == FenceStates(A)
           n == Len(t)
           F == [p \in Nat \X X |-> IF p[1] \in 1..n THEN FenceStep(p[2], t[p[1]]) ELSE p[2]]
           base == NoneTaken
           Def(f) == f = [i \in 0..n |-> IF i = 0 THEN base ELSE FenceStep(f[i - 1], t[i])]
           c == CHOOSE f : Def(f)
<1>1. Taken(t) = c[n]
  BY DEF Taken, Scan
<1> HIDE DEF c, Def
<1>2. base \in X /\ n \in Nat /\ \A i \in 1..n : t[i] \in A
  <2>1. base \in X
    <3>1. /\ base.text = <<>> /\ base.blocks = <<>> /\ base.block = <<>>
          /\ base \in [text : Seq(A \cup ({"CODE_BLOCK"} \X Nat)), blocks : Seq(Seq(A)), block : Seq(A)]
      BY DEF NoneTaken
    <3>2. \A K : <<>> \in Seq(K)
      OBVIOUS
    <3> HIDE DEF base
    <3>3. base.text \in Seq(Fenced(A, Len(base.blocks)))
      BY <3>1, <3>2
    <3>4. QED
      BY <3>1, <3>3 DEF FenceStates
  <2>2. QED
    BY <2>1
<1>3. F \in [Nat \X X -> X]
  <2> HIDE DEF X
  <2>1. \A p \in Nat \X X : p[2] \in X /\ (p[1] \in 1..n => FenceStep(p[2], t[p[1]]) \in X)
    BY <1>2, FenceStepKeeps DEF X
  <2> HIDE DEF n
  <2>2. QED
    BY <2>1
<1> HIDE DEF F, X, base, n
<1>4. PICK f \in [0..n -> X] : Recursive(f, base, F, n)
  BY <1>2, <1>3, Recursion
<1>5. Def(f)
  <2>1. ASSUME NEW i \in 1..n PROVE f[i] = FenceStep(f[i - 1], t[i])
    <3>1. i \in Nat /\ i - 1 \in 0..n /\ f[i - 1] \in X
      BY <1>2
    <3>2. F[<<i, f[i - 1]>>] = FenceStep(f[i - 1], t[i])
      BY <3>1 DEF F
    <3>3. QED
      BY <1>4, <3>2 DEF Recursive
  <2>2. \A i \in 0..n : f[i] = IF i = 0 THEN base ELSE FenceStep(f[i - 1], t[i])
    BY <1>2, <1>4, <2>1 DEF Recursive
  <2>3. QED
    BY <2>2 DEF Def
<1>6. Def(c)
  BY <1>5 DEF c
<1>7. c \in [0..n -> X] /\ c[0] = base /\ \A i \in 1..n : c[i] = FenceStep(c[i - 1], t[i])
  <2>1. c = [i \in 0..n |-> c[i]] /\ c[0] = base
        /\ \A i \in 1..n : c[i] = FenceStep(c[i - 1], t[i])
    BY <1>2, <1>6 DEF Def
  <2>2. ASSUME NEW i \in 1..n, c[i - 1] \in X
        PROVE  c[i] = F[<<i, c[i - 1]>>]
    <3>1. <<i, c[i - 1]>> \in Nat \X X
      BY <1>2, <2>2
    <3>2. F[<<i, c[i - 1]>>] = FenceStep(c[i - 1], t[i])
      BY <3>1 DEF F
    <3>3. QED
      BY <2>1, <3>2
  <2>3. ScanIn(X, c, base, F, n)
    BY <2>1, <2>2 DEF ScanIn
  <2>4. QED
    BY <1>2, <1>3, <2>1, <2>3, Scanned
<1>8. QED
  BY <1>1, <1>7 DEF X, n, base

\* An atom more of a text is a step more of the scan.
LEMMA TakenAppended ==
  ASSUME NEW A, A \subseteq Atoms, NEW t \in Seq(A), NEW a \in A
  PROVE  /\ Taken(t) \in FenceStates(A) /\ Taken(<<>>) = NoneTaken
         /\ Taken(Append(t, a)) = FenceStep(Taken(t), a)
<1> DEFINE n == Len(t)
           u == Append(t, a)
<1>1. /\ n \in Nat /\ u \in Seq(A) /\ Len(u) = n + 1
      /\ (\A i \in 1..n : u[i] = t[i]) /\ u[n + 1] = a
  BY Appended
<1> HIDE DEF u
<1>2. PICK c \in [0..n -> FenceStates(A)] :
         /\ c[0] = NoneTaken /\ \A i \in 1..n : c[i] = FenceStep(c[i - 1], t[i])
         /\ Taken(t) = c[n]
  BY FencesScanned
<1>3. PICK d \in [0..(n + 1) -> FenceStates(A)] :
         /\ d[0] = NoneTaken /\ \A i \in 1..(n + 1) : d[i] = FenceStep(d[i - 1], u[i])
         /\ Taken(u) = d[n + 1]
  <2>1. \E d \in [0..Len(u) -> FenceStates(A)] :
           /\ d[0] = NoneTaken /\ \A i \in 1..Len(u) : d[i] = FenceStep(d[i - 1], u[i])
           /\ Taken(u) = d[Len(u)]
    BY <1>1, FencesScanned
  <2>2. QED
    BY <1>1, <2>1
<1> HIDE DEF n
<1>4. c[n] = d[n]
  <2>1. \A i \in 1..n : c[i - 1] = d[i - 1] => c[i] = d[i]
    <3> SUFFICES ASSUME NEW i \in 1..n, c[i - 1] = d[i - 1] PROVE c[i] = d[i]
      OBVIOUS
    <3>1. i \in 1..(n + 1) /\ u[i] = t[i]
      BY <1>1
    <3>2. QED
      BY <1>2, <1>3, <3>1
  <2>2. c[0] = d[0]
    BY <1>2, <1>3
  <2>3. QED
    BY <1>1, <2>1, <2>2, SameEnd
<1>5. d[n + 1] = FenceStep(d[n], a)
  <2> DEFINE k == n + 1
  <2>1. k \in 1..(n + 1) /\ k - 1 = n
    BY <1>1
  <2> HIDE DEF k
  <2>2. d[k] = FenceStep(d[n], u[k])
    BY <1>3, <2>1
  <2>3. QED
    BY <1>1, <2>2 DEF k
<1>6. Taken(t) \in FenceStates(A)
  BY <1>1, <1>2
<1>7. Taken(<<>>) = NoneTaken
  <2> DEFINE z == <<>>
  <2>1. z \in Seq(A) /\ Len(z) = 0
    OBVIOUS
  <2> HIDE DEF z
  <2>2. \E e \in [0..Len(z) -> FenceStates(A)] :
           /\ e[0] = NoneTaken /\ \A i \in 1..Len(z) : e[i] = FenceStep(e[i - 1], z[i])
           /\ Taken(z) = e[Len(z)]
    BY <2>1, FencesScanned
  <2>3. QED
    BY <2>1, <2>2 DEF z
<1>8. QED
  BY <1>2, <1>3, <1>4, <1>5, <1>6, <1>7 DEF u

-----------------------------------------------------------------------------
(* What is written of a block. *)

\* The lines ls with their marks and their ends.
LineOf(m, l) == m \o l \o <<Nl>>
Ended(f, r, ls) == FlattenSeq([i \in DOMAIN ls |-> LineOf(IF i = 1 THEN f ELSE r, ls[i])])
\* A line more, behind the marks m.
LineAdded(f, r, ls, m, e) == Ended(f, r, Append(ls, e)) = Ended(f, r, ls) \o LineOf(m, e)

\* The first line is behind f, the others behind r.
LEMMA EndedAppended ==
  ASSUME NEW A, Nl \in A, NEW f \in Seq(A), NEW r \in Seq(A), NEW ls \in Seq(Seq(A)), NEW e \in Seq(A)
  PROVE  /\ Ended(f, r, ls) \in Seq(A) /\ Ended(f, r, <<>>) = <<>>
         /\ ls = <<>> => LineAdded(f, r, ls, f, e)
         /\ ls # <<>> => LineAdded(f, r, ls, r, e)
<1> DEFINE n == Len(ls)
           u == Append(ls, e)
           Line(i, l) == LineOf(IF i = 1 THEN f ELSE r, l)
           p == [i \in DOMAIN ls |-> Line(i, ls[i])]
           q == [i \in DOMAIN u |-> Line(i, u[i])]
           z == Line(n + 1, e)
<1>1. /\ n \in Nat /\ DOMAIN ls = 1..n /\ DOMAIN u = 1..(n + 1)
      /\ (\A i \in 1..n : u[i] = ls[i] /\ ls[i] \in Seq(A)) /\ u[n + 1] = e
  <2> DEFINE Y == Seq(A)
  <2>1. e \in Y /\ ls \in Seq(Y)
    OBVIOUS
  <2> HIDE DEF Y
  <2>2. /\ n \in Nat /\ DOMAIN ls = 1..n /\ DOMAIN u = 1..(n + 1)
        /\ (\A i \in 1..n : u[i] = ls[i] /\ ls[i] \in Y) /\ u[n + 1] = e
    BY <2>1, Appended
  <2>3. QED
    BY <2>2 DEF Y
<1>2. \A i \in Nat : \A l \in Seq(A) : Line(i, l) \in Seq(A)
  BY DEF LineOf
<1> HIDE DEF u, n
<1>3. p \in Seq(Seq(A)) /\ Len(p) = n /\ \A i \in 1..n : p[i] = Line(i, ls[i])
  <2> HIDE DEF Line
  <2>1. p \in [1..n -> Seq(A)]
    BY <1>1, <1>2
  <2>2. p \in Seq(Seq(A))
    BY <1>1, <2>1, SeqDef
  <2>3. QED
    BY <1>1, <2>1, <2>2, LenProperties
<1>4. z \in Seq(A)
  <2> HIDE DEF Line
  <2>1. QED
    BY <1>1, <1>2
<1>5. q = Append(p, z)
  <2> DEFINE Y == Seq(A)
             v == Append(p, z)
  <2>1. /\ p \in Seq(Y) /\ z \in Y
    BY <1>3, <1>4
  <2> HIDE DEF Y, Line, p, z
  <2>2. /\ v \in Seq(Y) /\ DOMAIN v = 1..(n + 1) /\ (\A i \in 1..n : v[i] = p[i]) /\ v[n + 1] = z
    BY <1>3, <2>1, Appended
  <2> HIDE DEF v
  <2>3. ASSUME NEW i \in 1..(n + 1) PROVE q[i] = v[i]
    <3>1. CASE i = n + 1
      BY <1>1, <2>2, <3>1 DEF z
    <3>2. CASE i # n + 1
      <4>1. i \in 1..n
        BY <1>1, <3>2
      <4>2. QED
        BY <1>1, <1>3, <2>2, <4>1
    <3>3. QED
      BY <3>1, <3>2
  <2>4. v = [i \in 1..(n + 1) |-> v[i]]
    BY <2>2
  <2>5. QED
    BY <1>1, <2>3, <2>4 DEF v
<1>6. FlattenSeq(p) \in Seq(A) /\ FlattenSeq(Append(p, z)) = FlattenSeq(p) \o z
  <2> HIDE DEF p, z
  <2>1. QED
    BY <1>3, <1>4, FlattenAppended
<1>7. /\ ls = <<>> => z = LineOf(f, e)
      /\ ls # <<>> => z = LineOf(r, e)
  <2>1. n + 1 = 1 <=> ls = <<>>
    BY <1>1, EmptySeq DEF n
  <2>2. QED
    BY <2>1
<1>8. Ended(f, r, ls) = FlattenSeq(p) /\ Ended(f, r, u) = FlattenSeq(q)
  BY DEF Ended
<1>9. Ended(f, r, <<>>) = <<>>
  <2> DEFINE w == [i \in DOMAIN <<>> |-> Line(i, <<>>[i])]
             Y == Seq(A)
  <2>1. w = <<>> /\ Ended(f, r, <<>>) = FlattenSeq(w)
    BY DEF Ended
  <2>2. <<>> \in Seq(Seq(A)) /\ Len(<<>>) = 0
    OBVIOUS
  <2>3. FlattenSeq(<<>>) = <<>>
    <3> DEFINE o == <<>>
    <3>1. o \in Seq(Seq(A)) /\ Len(o) = 0
      BY <2>2
    <3> HIDE DEF o
    <3>2. \E g \in [0..Len(o) -> Seq(A)] : g[0] = <<>> /\ FlattenSeq(o) = g[Len(o)]
      BY <3>1, Flattened
    <3>3. QED
      BY <3>1, <3>2 DEF o
  <2>4. QED
    BY <2>1, <2>3
<1>10. QED
  BY <1>5, <1>6, <1>7, <1>8, <1>9 DEF u, LineAdded

\* A text without line ends is one line.
LEMMA OneLine ==
  ASSUME NEW A, Nl \notin A, NEW t \in Seq(A)
  PROVE  Lines(t) = <<t>>
<1> DEFINE S == {s \in Seq(A) : Lines(s) = <<s>>}
<1>1. <<>> \in S
  <2>1. Lines(<<>>) = << <<>> >>
    <3>1. \A a \in A \cup {Nl} : Lines(<<>>) = << <<>> >>
      <4> SUFFICES ASSUME NEW a \in A \cup {Nl} PROVE Lines(<<>>) = << <<>> >>
        OBVIOUS
      <4>1. <<>> \in Seq(A \cup {Nl})
        OBVIOUS
      <4>2. QED
        BY <4>1, LinesAppended
    <3>2. QED
      BY <3>1
  <2>2. QED
    BY <2>1
<1>2. ASSUME NEW s \in S, NEW a \in A PROVE Append(s, a) \in S
  <2>1. s \in Seq(A) /\ Lines(s) = <<s>> /\ a # Nl
    OBVIOUS
  <2> HIDE DEF S
  <2>2. Lines(Append(s, a)) = Front(<<s>>) \o <<Append(Last(<<s>>), a)>>
    BY <2>1, LinesAppended DEF LineStep
  <2>3. Last(<<s>>) = s /\ Front(<<s>>) = <<>>
    <3>1. Last(<<s>>) = s
      BY DEF Last
    <3>2. Front(<<s>>) = SubSeq(<<s>>, 1, 0)
      BY DEF Front
    <3>3. SubSeq(<<s>>, 1, 0) = <<>>
      BY SubSeqEmpty
    <3>4. QED
      BY <3>1, <3>2, <3>3
  <2>4. <<>> \o <<Append(s, a)>> = <<Append(s, a)>>
    <3> DEFINE e == Append(s, a)
    <3>1. e \in Seq(A)
      BY <2>1
    <3> HIDE DEF e
    <3>2. <<>> \o <<e>> = <<e>>
      <4>1. <<e>> \in Seq(Seq(A))
        BY <3>1
      <4>2. QED
        BY <4>1, ConcatEmptySeq
    <3>3. QED
      BY <3>2 DEF e
  <2>5. Append(s, a) \in Seq(A) /\ Lines(Append(s, a)) = <<Append(s, a)>>
    <3>1. Append(s, a) \in Seq(A)
      BY <2>1
    <3>2. Lines(Append(s, a)) = <<>> \o <<Append(s, a)>>
      <4> DEFINE x == Front(<<s>>)
                 y == Last(<<s>>)
      <4>1. Lines(Append(s, a)) = x \o <<Append(y, a)>> /\ x = <<>> /\ y = s
        BY <2>2, <2>3
      <4> HIDE DEF x, y
      <4>2. QED
        BY <4>1
    <3>3. QED
      BY <2>4, <3>1, <3>2
  <2>6. QED
    BY <2>5 DEF S
<1>3. S = Seq(A)
  <2>1. S \in SUBSET Seq(A)
    OBVIOUS
  <2> HIDE DEF S
  <2>2. QED
    BY <1>1, <1>2, <2>1, AllTexts
<1>4. QED
  BY <1>3

\* The lines of a text with their ends are the text with one.
LEMMA LinesEnded ==
  ASSUME NEW A, Nl \in A, NEW t \in Seq(A)
  PROVE  Ended(<<>>, <<>>, Lines(t)) = t \o <<Nl>>
<1> DEFINE none == <<>>
           E(ls) == Ended(none, none, ls)
           P(ls, s) == E(Front(ls)) \o Last(ls) = s
           S == {s \in Seq(A) : P(Lines(s), s)}
<1>1. none \in Seq(A) /\ <<Nl>> \in Seq(A)
  OBVIOUS
<1> HIDE DEF none
<1>0. Grouped(A)
  BY Regrouped
<1>2. ASSUME NEW ls \in Seq(Seq(A)), NEW e \in Seq(A)
      PROVE  /\ E(ls) \in Seq(A) /\ E(Append(ls, e)) = E(ls) \o (e \o <<Nl>>)
  <2>1. /\ E(ls) \in Seq(A) /\ E(Append(ls, e)) = E(ls) \o (none \o e \o <<Nl>>)
    <3>1. Ended(none, none, ls) \in Seq(A) /\ LineAdded(none, none, ls, none, e)
      BY <1>1, EndedAppended
    <3>2. QED
      BY <3>1 DEF LineOf, LineAdded
  <2>2. none \o e = e
    BY ConcatEmptySeq DEF none
  <2>3. QED
    BY <2>1, <2>2
<1>3. ASSUME NEW ls \in Seq(Seq(A)), NEW e \in Seq(A)
      PROVE  Front(Append(ls, e)) = ls /\ Last(Append(ls, e)) = e /\ Append(ls, e) = ls \o <<e>>
  <2> DEFINE Y == Seq(A)
             u == Append(ls, e)
  <2>1. ls \in Seq(Y) /\ e \in Y
    OBVIOUS
  <2> HIDE DEF Y
  <2>2. /\ u \in Seq(Y) /\ u # <<>> /\ Len(u) = Len(ls) + 1 /\ Len(ls) \in Nat
        /\ (\A i \in 1..Len(ls) : u[i] = ls[i]) /\ u[Len(ls) + 1] = e
    BY <2>1, Appended
  <2>3. /\ Front(u) \in Seq(Y) /\ Len(Front(u)) = Len(u) - 1
        /\ (\A i \in 1..(Len(u) - 1) : Front(u)[i] = u[i]) /\ Last(u) = u[Len(u)]
    BY <2>2, FrontOf
  <2>4. u = ls \o <<e>>
    BY <2>1, AppendIsConcat
  <2> HIDE DEF u
  <2>5. Len(u) - 1 = Len(ls)
    BY <2>2
  <2>6. Front(u) = ls
    BY <2>1, <2>2, <2>3, <2>5, SeqEqual
  <2>7. QED
    BY <2>2, <2>3, <2>4, <2>6 DEF u
<1>4. ASSUME NEW s \in Seq(A)
      PROVE  \E F \in Seq(Seq(A)) : \E l \in Seq(A) :
                /\ Lines(s) = Append(F, l) /\ Front(Lines(s)) = F /\ Last(Lines(s)) = l
  <2> DEFINE Y == Seq(A)
  <2>1. Lines(s) \in Seq(Y) /\ Lines(s) # <<>>
    BY LinesAppended DEF LineLists
  <2> HIDE DEF Y
  <2>2. PICK F \in Seq(Y), l \in Y : Lines(s) = Append(F, l)
    BY <2>1, SequenceEmptyOrAppend
  <2>3. QED
    BY <1>3, <2>2 DEF Y
<1> HIDE DEF E
<1>5. <<>> \in S
  <2>1. Lines(<<>>) = Append(<<>>, <<>>)
    <3>1. Lines(<<>>) = << <<>> >>
      <4>1. <<>> \in Seq(A)
        OBVIOUS
      <4>2. QED
        BY <4>1, LinesAppended
    <3>2. QED
      BY <3>1
  <2>2. <<>> \in Seq(Seq(A)) /\ <<>> \in Seq(A)
    OBVIOUS
  <2>3. E(<<>>) = <<>>
    <3>1. E(<<>>) = Ended(none, none, <<>>)
      BY DEF E
    <3>2. \A ls \in Seq(Seq(A)) : \A e \in Seq(A) : Ended(none, none, <<>>) = <<>>
      BY <1>1, EndedAppended
    <3>3. QED
      BY <2>2, <3>1, <3>2
  <2>4. Front(Lines(<<>>)) = <<>> /\ Last(Lines(<<>>)) = <<>>
    <3> DEFINE o == <<>>
    <3>1. o \in Seq(Seq(A)) /\ o \in Seq(A) /\ Lines(<<>>) = Append(o, o)
      BY <2>1, <2>2
    <3> HIDE DEF o
    <3>2. Front(Append(o, o)) = o /\ Last(Append(o, o)) = o
      BY <1>3, <3>1
    <3>3. QED
      BY <3>1, <3>2 DEF o
  <2>5. E(<<>>) \o <<>> = <<>>
    BY <2>3
  <2>6. QED
    BY <2>2, <2>4, <2>5
<1>6. ASSUME NEW s \in S, NEW a \in A PROVE Append(s, a) \in S
  <2>1. s \in Seq(A) /\ P(Lines(s), s) /\ Append(s, a) \in Seq(A) /\ Append(s, a) = s \o <<a>>
    OBVIOUS
  <2> HIDE DEF S
  <2>2. PICK F \in Seq(Seq(A)), l \in Seq(A) :
           Lines(s) = Append(F, l) /\ Front(Lines(s)) = F /\ Last(Lines(s)) = l
    BY <1>4, <2>1
  <2>3. E(F) \o l = s /\ E(F) \in Seq(A) /\ E(Append(F, l)) = E(F) \o (l \o <<Nl>>)
    BY <1>2, <2>1, <2>2
  <2>4. Lines(Append(s, a)) = LineStep(Append(F, l), a)
    BY <2>1, <2>2, LinesAppended
  <2>5. CASE a = Nl
    <3>1. Lines(Append(s, a)) = Append(Append(F, l), none)
      BY <2>4, <2>5 DEF LineStep, none
    <3>2. Append(F, l) \in Seq(Seq(A))
      <4> DEFINE Y == Seq(A)
      <4>1. F \in Seq(Y) /\ l \in Y
        OBVIOUS
      <4> HIDE DEF Y
      <4>2. Append(F, l) \in Seq(Y)
        BY <4>1
      <4>3. QED
        BY <4>2 DEF Y
    <3>3. Front(Lines(Append(s, a))) = Append(F, l) /\ Last(Lines(Append(s, a))) = none
      BY <1>1, <1>3, <3>1, <3>2
    <3>4. (E(F) \o (l \o <<Nl>>)) \o none = E(F) \o (l \o <<Nl>>)
      BY <1>1, <2>3, ConcatEmptySeq DEF none
    <3>5. E(F) \o (l \o <<Nl>>) = (E(F) \o l) \o <<Nl>>
      BY <1>0, <1>1, <2>3 DEF Grouped
    <3>6. P(Lines(Append(s, a)), Append(s, a))
      BY <2>1, <2>3, <2>5, <3>3, <3>4, <3>5
    <3>7. QED
      BY <2>1, <3>6 DEF S
  <2>6. CASE a # Nl
    <3> DEFINE e == Append(l, a)
    <3>1. e \in Seq(A) /\ e = l \o <<a>> /\ <<a>> \in Seq(A)
      OBVIOUS
    <3>2. Lines(Append(s, a)) = F \o <<e>>
      BY <2>2, <2>4, <2>6 DEF LineStep
    <3> HIDE DEF e
    <3>3. Front(Lines(Append(s, a))) = F /\ Last(Lines(Append(s, a))) = e
      <4>1. Front(Append(F, e)) = F /\ Last(Append(F, e)) = e /\ Append(F, e) = F \o <<e>>
        BY <1>3, <3>1
      <4>2. QED
        BY <3>2, <4>1
    <3>4. E(F) \o (l \o <<a>>) = (E(F) \o l) \o <<a>>
      BY <1>0, <2>3, <3>1 DEF Grouped
    <3>5. P(Lines(Append(s, a)), Append(s, a))
      BY <2>1, <2>3, <3>1, <3>3, <3>4
    <3>6. QED
      BY <2>1, <3>5 DEF S
  <2>7. QED
    BY <2>5, <2>6
<1>7. S = Seq(A)
  <2>1. S \in SUBSET Seq(A)
    OBVIOUS
  <2> HIDE DEF S
  <2>2. QED
    BY <1>5, <1>6, <2>1, AllTexts
<1>8. P(Lines(t), t)
  BY <1>7
<1>9. PICK F \in Seq(Seq(A)), l \in Seq(A) :
         Lines(t) = Append(F, l) /\ Front(Lines(t)) = F /\ Last(Lines(t)) = l
  BY <1>4
<1>10. E(Lines(t)) = E(F) \o (l \o <<Nl>>) /\ E(F) \in Seq(A) /\ E(F) \o l = t
  BY <1>2, <1>8, <1>9
<1>11. E(F) \o (l \o <<Nl>>) = (E(F) \o l) \o <<Nl>>
  BY <1>0, <1>1, <1>9, <1>10 DEF Grouped
<1>12. QED
  BY <1>10, <1>11 DEF E, none

-----------------------------------------------------------------------------
(* The parts of a plain block. *)

\* The marks of a plain document, and the atoms of what is translated of it
\* and of what is between its fences.
PlainMarks == {Mark(k) : k \in MarkKinds \ {"fence"}}
PlainLetters == {a \in Letters : a[1] \notin {"code", "fence"}}
Unfenced == {a \in Letters : a[1] # "fence"}
PlainBlocks ==
    {b \in SourceBlocks :
        /\ b.first \in Seq(PlainMarks) /\ b.rest \in Seq(PlainMarks)
        /\ b.kind # "indented" /\ ~HasKind(b.text, "fence")
        /\ Translatable(b) => ~HasKind(b.text, "code")
        /\ HasKind(b.text, "nl") => b.first = <<>> /\ b.rest = <<>>}

\* What is written of a block, with the text t for its own.
Wrote(b, t) == Ended(b.first, b.rest, LinesOf(b, t)) \o <<Nl>>
\* The text a block gets.
Got(b) == IF Translatable(b) THEN Translated(b.text) ELSE b.text

\* How these sets of atoms are in each other.
LEMMA PlainAtoms ==
  /\ PlainMarks \subseteq PlainLetters /\ PlainMarks \subseteq Unfenced
  /\ PlainLetters \subseteq Letters /\ Unfenced \subseteq Letters /\ Letters \subseteq Atoms
  /\ PlainMarks \subseteq Atoms /\ PlainLetters \subseteq Atoms /\ Unfenced \subseteq Atoms
  /\ {Nl, Hash, Under, Mark("|"), Mark("---"), Mark(">"), Mark("-"), Indent} \subseteq PlainMarks
  /\ Fence \in Letters /\ Fence \notin Unfenced
  /\ \A a \in PlainMarks : Rendered(a) = a /\ ~Foreign(a)
<1>1. \A k \in MarkKinds \ {"fence"} : Mark(k) \in Letters /\ Mark(k)[1] = k
  BY DEF Mark, Letters, Atoms, MarkKinds
<1>2. \A k \in MarkKinds : k \notin {"code", "cjk", "full"}
  BY DEF MarkKinds
<1>3. PlainMarks \subseteq PlainLetters /\ PlainMarks \subseteq Unfenced
  BY <1>1, <1>2 DEF PlainMarks, PlainLetters, Unfenced
<1>4. PlainLetters \subseteq Letters /\ Unfenced \subseteq Letters /\ Letters \subseteq Atoms
  BY DEF PlainLetters, Unfenced, Letters
<1>5. {Nl, Hash, Under, Mark("|"), Mark("---"), Mark(">"), Mark("-"), Indent} \subseteq PlainMarks
  BY DEF PlainMarks, MarkKinds, Nl, Hash, Under, Indent
<1>6. Fence \in Letters /\ Fence \notin Unfenced
  BY DEF Fence, Mark, Letters, Atoms, MarkKinds, Unfenced
<1>7. ASSUME NEW a \in PlainMarks PROVE Rendered(a) = a /\ ~Foreign(a)
  BY <1>1, <1>2 DEF PlainMarks, Rendered, Foreign
<1>8. QED
  BY <1>3, <1>4, <1>5, <1>6, <1>7

\* A text without atoms of a kind.
LEMMA WithoutKind ==
  ASSUME NEW A, NEW t \in Seq(A), NEW k, ~HasKind(t, k)
  PROVE  t \in Seq({a \in A : a[1] # k})
<1> DEFINE n == Len(t)
<1>1. n \in Nat /\ t \in [1..n -> A] /\ DOMAIN t = 1..n
  BY LenProperties
<1>2. \A i \in 1..n : t[i] \in {a \in A : a[1] # k}
  BY <1>1 DEF HasKind
<1> HIDE DEF n
<1>3. t \in [1..n -> {a \in A : a[1] # k}]
  BY <1>1, <1>2
<1>4. QED
  BY <1>1, <1>3, SeqDef

\* Lines of one text, without line ends or without marks before them.
LEMMA PlainLines ==
  ASSUME NEW t \in Seq(Atoms), NEW f \in Seq(Atoms), NEW r \in Seq(Atoms),
         HasKind(t, "nl") => f = <<>> /\ r = <<>>
  PROVE  Ended(f, r, Lines(t)) = LineOf(f, t)
<1>1. Nl \in Atoms /\ Nl[1] = "nl"
  BY DEF Nl, Mark, Atoms, MarkKinds
<1>2. CASE HasKind(t, "nl")
  <2>1. Ended(f, r, Lines(t)) = t \o <<Nl>>
    BY <1>1, <1>2, LinesEnded
  <2>2. f \o t = t
    BY <1>2, ConcatEmptySeq
  <2>3. QED
    BY <2>1, <2>2 DEF LineOf
<1>3. CASE ~HasKind(t, "nl")
  <2> DEFINE A == {a \in Atoms : a[1] # "nl"}
             none == <<>>
  <2>1. t \in Seq(A)
    BY <1>3, WithoutKind
  <2>2. Nl \notin A
    BY <1>1
  <2> HIDE DEF A
  <2>3. Lines(t) = <<t>>
    BY <2>1, <2>2, OneLine
  <2>4. none \in Seq(Seq(Atoms))
    OBVIOUS
  <2> HIDE DEF none
  <2>5. Ended(f, r, none) = <<>> /\ LineAdded(f, r, none, f, t)
    <3>1. none = <<>>
      BY DEF none
    <3>2. /\ Ended(f, r, <<>>) = <<>>
          /\ none = <<>> => LineAdded(f, r, none, f, t)
      BY <1>1, <2>4, EndedAppended
    <3>3. QED
      BY <3>1, <3>2
  <2>6. Append(none, t) = <<t>>
    BY DEF none
  <2>7. LineOf(f, t) \in Seq(Atoms)
    BY <1>1 DEF LineOf
  <2>8. <<>> \o LineOf(f, t) = LineOf(f, t)
    BY <2>7, ConcatEmptySeq
  <2>9. QED
    BY <2>3, <2>5, <2>6, <2>8 DEF LineAdded
<1>4. QED
  BY <1>2, <1>3

\* A line alone.
LEMMA LineAlone ==
  ASSUME NEW t \in Seq(Atoms), NEW f \in Seq(Atoms), NEW r \in Seq(Atoms)
  PROVE  Ended(f, r, <<t>>) = LineOf(f, t)
<1> DEFINE none == <<>>
<1>1. Nl \in Atoms
  BY DEF Nl, Mark, Atoms, MarkKinds
<1>4. none \in Seq(Seq(Atoms))
  OBVIOUS
<1> HIDE DEF none
<1>5. Ended(f, r, none) = <<>> /\ LineAdded(f, r, none, f, t)
  <2>1. none = <<>>
    BY DEF none
  <2>2. /\ Ended(f, r, <<>>) = <<>>
        /\ none = <<>> => LineAdded(f, r, none, f, t)
    BY <1>1, <1>4, EndedAppended
  <2>3. QED
    BY <2>1, <2>2
<1>6. Append(none, t) = <<t>>
  BY DEF none
<1>7. LineOf(f, t) \in Seq(Atoms)
  BY <1>1 DEF LineOf
<1>8. <<>> \o LineOf(f, t) = LineOf(f, t)
  BY <1>7, ConcatEmptySeq
<1>9. QED
  BY <1>5, <1>6, <1>8 DEF LineAdded

\* The text of a block stands between marks that do not depend on it.
LEMMA BlockWritten ==
  ASSUME NEW b \in PlainBlocks, b.kind # "fence"
  PROVE  \E pre, post \in Seq(PlainMarks) : \A t \in Seq(Atoms) :
            (HasKind(t, "nl") => b.first = <<>> /\ b.rest = <<>>) =>
               Wrote(b, t) = pre \o (IF Translatable(b) THEN t ELSE <<>>) \o post
<1> DEFINE M == PlainMarks
           f == b.first
           r == b.rest
           N == <<Nl>>
           Fits(t) == HasKind(t, "nl") => f = <<>> /\ r = <<>>
<1>1. /\ f \in Seq(M) /\ r \in Seq(M) /\ b.kind \in BlockKinds /\ b.atx \in BOOLEAN
      /\ b.kind \in {"heading", "paragraph", "hr", "row"}
  BY DEF PlainBlocks, SourceBlocks, BlockKinds
<1>2. \A s \in Seq(M) : s \in Seq(Atoms)
  BY PlainAtoms, SeqMonotonic
<1>3. N \in Seq(M) /\ N \in Seq(Atoms) /\ N \o N \in Seq(M) /\ N \o N \in Seq(Atoms)
  <2>1. N \in Seq(M)
    BY PlainAtoms
  <2>2. N \o N \in Seq(M)
    BY <2>1, ConcatProperties
  <2>3. QED
    BY <1>2, <2>1, <2>2
<1>4. Grouped(Atoms)
  BY Regrouped
<1>5. f \in Seq(Atoms) /\ r \in Seq(Atoms)
  BY <1>1, <1>2
<1>6. \A s, t \in Seq(Atoms) : s \o t \in Seq(Atoms)
  BY ConcatProperties
<1>6a. \A s, t \in Seq(M) : s \o t \in Seq(M)
  BY ConcatProperties
<1> HIDE DEF N, M, f, r
<1>7. CASE b.kind = "heading" /\ b.atx
  <2> DEFINE H == <<Hash>>
             pre == f \o H
             post == N \o N
  <2>1. H \in Seq(M) /\ H \in Seq(Atoms)
    <3>1. H \in Seq(M)
      BY PlainAtoms DEF M
    <3>2. QED
      BY <1>2, <3>1
  <2>2. ASSUME NEW t \in Seq(Atoms) PROVE Wrote(b, t) = (f \o (H \o t) \o N) \o N
    <3>1. LinesOf(b, t) = <<H \o t>> /\ H \o t \in Seq(Atoms)
      BY <1>6, <1>7, <2>1 DEF LinesOf
    <3>2. Ended(f, r, <<H \o t>>) = LineOf(f, H \o t)
      BY <1>5, <3>1, LineAlone
    <3>3. QED
      BY <3>1, <3>2 DEF Wrote, LineOf, N, f, r
  <2> HIDE DEF H
  <2>3. ASSUME NEW t \in Seq(Atoms) PROVE (f \o (H \o t) \o N) \o N = pre \o t \o post
    <3>1. f \o (H \o t) = (f \o H) \o t
      BY <1>4, <1>5, <2>1 DEF Grouped
    <3>2. (f \o H) \o t \in Seq(Atoms)
      BY <1>5, <1>6, <2>1
    <3>3. (((f \o H) \o t) \o N) \o N = ((f \o H) \o t) \o (N \o N)
      BY <1>3, <1>4, <3>2 DEF Grouped
    <3>4. QED
      BY <3>1, <3>3
  <2>4. pre \in Seq(M) /\ post \in Seq(M)
    BY <1>1, <1>3, <1>6a, <2>1
  <2>5. Translatable(b)
    BY <1>7 DEF Translatable
  <2>6. \A t \in Seq(Atoms) : Wrote(b, t) = pre \o t \o post
    BY <2>2, <2>3
  <2> HIDE DEF pre, post
  <2>7. QED
    BY <2>4, <2>5, <2>6 DEF M
<1>8. CASE b.kind = "row"
  <2> DEFINE H == <<Mark("|")>>
             pre == f \o H
             post == H \o (N \o N)
  <2>1. H \in Seq(M) /\ H \in Seq(Atoms)
    <3>1. H \in Seq(M)
      BY PlainAtoms DEF M
    <3>2. QED
      BY <1>2, <3>1
  <2>2. ASSUME NEW t \in Seq(Atoms) PROVE Wrote(b, t) = (f \o (H \o t \o H) \o N) \o N
    <3>1. LinesOf(b, t) = <<H \o t \o H>> /\ H \o t \o H \in Seq(Atoms)
      BY <1>6, <1>8, <2>1 DEF LinesOf
    <3>2. Ended(f, r, <<H \o t \o H>>) = LineOf(f, H \o t \o H)
      BY <1>5, <3>1, LineAlone
    <3>3. QED
      BY <3>1, <3>2 DEF Wrote, LineOf, N, f, r
  <2> HIDE DEF H
  <2>3. ASSUME NEW t \in Seq(Atoms) PROVE (f \o (H \o t \o H) \o N) \o N = pre \o t \o post
    <3>1. f \o ((H \o t) \o H) = ((f \o H) \o t) \o H
      <4>1. f \o ((H \o t) \o H) = (f \o (H \o t)) \o H
        <5> DEFINE y == H \o t
        <5>1. y \in Seq(Atoms)
          BY <1>6, <2>1
        <5> HIDE DEF y
        <5>2. f \o (y \o H) = (f \o y) \o H
          <6>1. InGroups(f, y, H)
            BY <1>5, <2>1, <5>1, GroupedAs
          <6>2. QED
            BY <6>1 DEF InGroups
        <5>3. QED
          BY <5>2 DEF y
      <4>2. f \o (H \o t) = (f \o H) \o t
        <5>1. InGroups(f, H, t)
          BY <1>5, <1>6, <2>1, GroupedAs
        <5>2. QED
          BY <5>1 DEF InGroups
      <4>3. QED
        BY <4>1, <4>2
    <3> DEFINE x == (f \o H) \o t
    <3>2. x \in Seq(Atoms) /\ x \o H \in Seq(Atoms)
      BY <1>5, <1>6, <2>1
    <3> HIDE DEF x
    <3>3. ((x \o H) \o N) \o N = (x \o H) \o (N \o N)
      <4>1. InGroups(x \o H, N, N)
        BY <1>3, <3>2, GroupedAs
      <4>2. QED
        BY <4>1 DEF InGroups
    <3>4. (x \o H) \o (N \o N) = x \o (H \o (N \o N))
      <4> DEFINE y == N \o N
      <4>1. y \in Seq(Atoms)
        BY <1>3
      <4> HIDE DEF y
      <4>2. (x \o H) \o y = x \o (H \o y)
        <5>1. InGroups(x, H, y)
          BY <2>1, <3>2, <4>1, GroupedAs
        <5>2. QED
          BY <5>1 DEF InGroups
      <4>3. QED
        BY <4>2 DEF y
    <3>5. QED
      BY <3>1, <3>3, <3>4 DEF x
  <2>4. pre \in Seq(M) /\ post \in Seq(M)
    BY <1>1, <1>3, <1>6a, <2>1
  <2>5. Translatable(b)
    BY <1>8 DEF Translatable
  <2>6. \A t \in Seq(Atoms) : Wrote(b, t) = pre \o t \o post
    BY <2>2, <2>3
  <2> HIDE DEF pre, post
  <2>7. QED
    BY <2>4, <2>5, <2>6 DEF M
<1>9. CASE b.kind = "hr"
  <2> DEFINE H == <<Mark("---")>>
             pre == f \o H
             post == N \o N
  <2>1. H \in Seq(M) /\ H \in Seq(Atoms) /\ pre \in Seq(Atoms) /\ pre \in Seq(M)
    <3>1. H \in Seq(M)
      BY PlainAtoms DEF M
    <3>2. QED
      BY <1>1, <1>2, <1>5, <1>6, <1>6a, <3>1
  <2>2. ASSUME NEW t \in Seq(Atoms) PROVE Wrote(b, t) = (pre \o N) \o N
    <3>1. LinesOf(b, t) = <<H>>
      BY <1>9 DEF LinesOf
    <3>2. Ended(f, r, <<H>>) = LineOf(f, H)
      BY <1>5, <2>1, LineAlone
    <3>3. QED
      BY <3>1, <3>2 DEF Wrote, LineOf, N, f, r
  <2> HIDE DEF pre
  <2>3. (pre \o N) \o N = pre \o (N \o N) /\ pre \o <<>> = pre
    BY <1>3, <1>4, <2>1, ConcatEmptySeq DEF Grouped
  <2>4. post \in Seq(M)
    BY <1>3
  <2>5. ~Translatable(b)
    BY <1>9 DEF Translatable
  <2>6. \A t \in Seq(Atoms) : Wrote(b, t) = pre \o <<>> \o post
    BY <2>2, <2>3
  <2> HIDE DEF post
  <2>7. QED
    BY <2>1, <2>4, <2>5, <2>6 DEF M
<1>10. CASE b.kind = "paragraph"
  <2> DEFINE post == N \o N
  <2>1. ASSUME NEW t \in Seq(Atoms), Fits(t) PROVE Wrote(b, t) = f \o t \o post
    <3>1. LinesOf(b, t) = Lines(t)
      BY <1>10 DEF LinesOf
    <3>2. Ended(f, r, Lines(t)) = LineOf(f, t)
      BY <1>5, <2>1, PlainLines
    <3>3. Wrote(b, t) = ((f \o t) \o N) \o N
      BY <3>1, <3>2 DEF Wrote, LineOf, N, f, r
    <3>4. f \o t \in Seq(Atoms)
      BY <1>5, <1>6
    <3>5. QED
      BY <1>3, <1>4, <3>3, <3>4 DEF Grouped
  <2>2. post \in Seq(M)
    BY <1>3
  <2>3. Translatable(b)
    BY <1>10 DEF Translatable
  <2> HIDE DEF post
  <2>4. \A t \in Seq(Atoms) : Fits(t) => Wrote(b, t) = f \o t \o post
    BY <2>1
  <2>5. QED
    BY <1>1, <2>2, <2>3, <2>4 DEF M, f, r
<1>11. CASE b.kind = "heading" /\ ~b.atx
  <2> DEFINE H == <<Under>>
             last == LineOf(r, H)
             post == N \o (last \o N)
  <2>1. H \in Seq(M) /\ H \in Seq(Atoms)
    <3>1. H \in Seq(M)
      BY PlainAtoms DEF M
    <3>2. QED
      BY <1>2, <3>1
  <2>2. last \in Seq(M) /\ last \in Seq(Atoms) /\ last \o N \in Seq(M) /\ last \o N \in Seq(Atoms)
    <3>1. last \in Seq(M)
      BY <1>1, <1>3, <1>6a, <2>1 DEF LineOf, N
    <3>2. QED
      BY <1>2, <1>3, <1>6a, <3>1
  <2> HIDE DEF H, last
  <2>3. ASSUME NEW t \in Seq(Atoms), Fits(t) PROVE Wrote(b, t) = f \o t \o post
    <3>1. LinesOf(b, t) = Lines(t) \o <<H>>
      BY <1>11 DEF LinesOf, H
    <3> DEFINE Y == Seq(Atoms)
               ls == Lines(t)
    <3>2. ls \in Seq(Y) /\ ls # <<>> /\ H \in Y
      <4>1. Nl \in Atoms
        BY DEF Nl, Mark, Atoms, MarkKinds
      <4>2. Lines(t) \in LineLists(Atoms)
        BY <4>1, LinesAppended
      <4>3. QED
        BY <2>1, <4>2 DEF LineLists
    <3>3. Append(ls, H) = ls \o <<H>>
      <4> HIDE DEF ls, Y
      <4>1. QED
        BY <3>2, AppendIsConcat
    <3>4. LineAdded(f, r, ls, r, H)
      <4>1. Nl \in Atoms
        BY DEF Nl, Mark, Atoms, MarkKinds
      <4> HIDE DEF ls
      <4>2. QED
        BY <1>5, <2>1, <3>2, <4>1, EndedAppended
    <3>5. Ended(f, r, ls) = LineOf(f, t)
      BY <1>5, <2>3, PlainLines
    <3>6. Ended(f, r, LinesOf(b, t)) = LineOf(f, t) \o last
      <4> HIDE DEF ls
      <4>1. QED
        BY <3>1, <3>3, <3>4, <3>5 DEF LineAdded, last, ls
    <3>7. Wrote(b, t) = (((f \o t) \o N) \o last) \o N
      BY <3>6 DEF Wrote, LineOf, N, f, r
    <3> DEFINE x == f \o t
    <3>8. x \in Seq(Atoms) /\ x \o N \in Seq(Atoms)
      BY <1>3, <1>5, <1>6
    <3> HIDE DEF x
    <3>9. ((x \o N) \o last) \o N = (x \o N) \o (last \o N)
      <4>1. InGroups(x \o N, last, N)
        BY <1>3, <2>2, <3>8, GroupedAs
      <4>2. QED
        BY <4>1 DEF InGroups
    <3>10. (x \o N) \o (last \o N) = x \o (N \o (last \o N))
      <4> DEFINE y == last \o N
      <4>1. y \in Seq(Atoms)
        BY <2>2
      <4> HIDE DEF y
      <4>2. (x \o N) \o y = x \o (N \o y)
        <5>1. InGroups(x, N, y)
          BY <1>3, <3>8, <4>1, GroupedAs
        <5>2. QED
          BY <5>1 DEF InGroups
      <4>3. QED
        BY <4>2 DEF y
    <3>11. QED
      BY <3>7, <3>9, <3>10 DEF x
  <2>4. post \in Seq(M)
    BY <1>3, <1>6a, <2>2
  <2>5. Translatable(b)
    BY <1>11 DEF Translatable
  <2> HIDE DEF post
  <2>6. \A t \in Seq(Atoms) : Fits(t) => Wrote(b, t) = f \o t \o post
    BY <2>3
  <2>7. QED
    BY <1>1, <2>4, <2>5, <2>6 DEF M, f, r
<1>12. QED
  BY <1>1, <1>7, <1>8, <1>9, <1>10, <1>11

\* A fenced block has no fence between its fences.
LEMMA FenceWritten ==
  ASSUME NEW b \in PlainBlocks, b.kind = "fence"
  PROVE  \E pre, post \in Seq(PlainMarks) : \E m \in Seq(Unfenced) :
            Wrote(b, b.text) = pre \o (<<Fence>> \o m \o <<Fence>>) \o post
<1> DEFINE f == b.first
           r == b.rest
           t == b.text
           F == <<Fence>>
           N == <<Nl>>
           Y == Seq(Unfenced)
           line == <<F>>
           none == <<>>
           S == {l \in Seq(Y) : \E m \in Y : Ended(f, r, line \o l) = f \o (F \o m)}
<1>1. \A s : s \in Seq(PlainMarks) \/ s \in Y => s \in Seq(Atoms)
  BY PlainAtoms, SeqMonotonic
<1>2. \A s : s \in Seq(PlainMarks) => s \in Y
  BY PlainAtoms, SeqMonotonic
<1>3. f \in Seq(PlainMarks) /\ r \in Seq(PlainMarks) /\ t \in Y
  <2>1. t \in Seq(Letters) /\ ~HasKind(t, "fence")
    BY Assumed DEF PlainBlocks, SourceBlocks
  <2>2. t \in Y
    <3> HIDE DEF t
    <3>1. QED
      BY <2>1, WithoutKind DEF Unfenced
  <2>3. QED
    BY <2>2 DEF PlainBlocks
<1>4. F \in Seq(Atoms) /\ N \in Y /\ N \in Seq(PlainMarks) /\ N \in Seq(Atoms)
  <2>1. F \in Seq(Atoms) /\ N \in Seq(PlainMarks)
    BY PlainAtoms
  <2>2. QED
    BY <1>1, <1>2, <2>1
<1>5. f \in Seq(Atoms) /\ r \in Seq(Atoms) /\ r \in Y
  BY <1>1, <1>2, <1>3
<1>6. Grouped(Atoms) /\ Nl \in Atoms
  BY Regrouped, PlainAtoms
<1>7. \A s, u \in Seq(Atoms) : s \o u \in Seq(Atoms)
  BY ConcatProperties
<1>8. \A s, u \in Y : s \o u \in Y
  BY ConcatProperties
<1> HIDE DEF F, N, f, r, t
<1>9. line \in Seq(Seq(Atoms)) /\ line # <<>> /\ none \in Seq(Y) /\ none \in Seq(Seq(Atoms))
  BY <1>4
<1>9a. \A l \in Seq(Y) : l \in Seq(Seq(Atoms))
  BY <1>1, SeqMonotonic
<1>10. ASSUME NEW l \in Seq(Seq(Atoms)), NEW e \in Seq(Atoms)
       PROVE  /\ line \o Append(l, e) = Append(line \o l, e)
              /\ line \o l \in Seq(Seq(Atoms)) /\ line \o l # <<>>
  <2> DEFINE A == Seq(Atoms)
  <2>1. line \in Seq(A) /\ l \in Seq(A) /\ e \in A /\ Len(line) = 1
    BY <1>9
  <2> HIDE DEF A, line
  <2>2. Append(l, e) = l \o <<e>> /\ <<e>> \in Seq(A)
    BY <2>1, AppendIsConcat
  <2>3. line \o l \in Seq(A) /\ Len(line \o l) = Len(line) + Len(l) /\ Len(l) \in Nat
    <3>1. line \o l \in Seq(A) /\ Len(line \o l) = Len(line) + Len(l)
      BY <2>1, ConcatProperties
    <3>2. Len(l) \in Nat
      BY <2>1, LenProperties
    <3>3. QED
      BY <3>1, <3>2
  <2>4. Append(line \o l, e) = (line \o l) \o <<e>>
    BY <2>1, <2>3, AppendIsConcat
  <2>5. Grouped(A)
    BY Regrouped
  <2>6. (line \o l) \o <<e>> = line \o (l \o <<e>>)
    <3> DEFINE o == <<e>>
    <3>1. o \in Seq(A)
      BY <2>2
    <3> HIDE DEF o
    <3>2. (line \o l) \o o = line \o (l \o o)
      BY <2>1, <2>5, <3>1 DEF Grouped
    <3>3. QED
      BY <3>2 DEF o
  <2>7. line \o l # <<>>
    BY <2>1, <2>3
  <2>8. QED
    BY <2>2, <2>3, <2>4, <2>6, <2>7 DEF A
<1>11. none \in S
  <2>1. line \o none = line
    <3> HIDE DEF line
    <3>1. QED
      BY <1>9, ConcatEmptySeq
  <2>2. Ended(f, r, line) = LineOf(f, F)
    BY <1>4, <1>5, LineAlone
  <2>3. LineOf(f, F) = f \o (F \o N)
    BY <1>4, <1>5, <1>6 DEF LineOf, N, Grouped
  <2> HIDE DEF none, line
  <2>4. Ended(f, r, line \o none) = f \o (F \o N)
    BY <2>1, <2>2, <2>3
  <2>5. QED
    BY <1>4, <1>9, <2>4
<1>12. ASSUME NEW l \in S, NEW e \in Y PROVE Append(l, e) \in S
  <2>1. l \in Seq(Y)
    OBVIOUS
  <2>2. PICK m \in Y : Ended(f, r, line \o l) = f \o (F \o m)
    OBVIOUS
  <2>3. l \in Seq(Seq(Atoms)) /\ e \in Seq(Atoms) /\ Append(l, e) \in Seq(Y) /\ m \in Seq(Atoms)
    <3>1. Append(l, e) \in Seq(Y)
      <4> HIDE DEF Y, S
      <4>1. QED
        BY <2>1
    <3>2. QED
      BY <1>1, <1>9a, <2>1, <3>1
  <2> HIDE DEF S, line
  <2> DEFINE q == LineOf(r, e)
             ls == line \o l
  <2>4. q \in Y
    <3>1. r \o e \in Y
      BY <1>5, <1>8
    <3>2. QED
      BY <1>4, <1>8, <3>1 DEF LineOf, N
  <2>5. q \in Seq(Atoms) /\ m \o q \in Y
    BY <1>1, <1>8, <2>4
  <2> HIDE DEF q
  <2>6. ls \in Seq(Seq(Atoms)) /\ ls # <<>> /\ line \o Append(l, e) = Append(ls, e)
    BY <1>10, <2>3
  <2>7. Ended(f, r, Append(ls, e)) = Ended(f, r, ls) \o q
    <3> HIDE DEF ls
    <3>1. LineAdded(f, r, ls, r, e)
      BY <1>5, <1>6, <2>3, <2>6, EndedAppended
    <3>2. QED
      BY <3>1 DEF LineAdded, q
  <2>8. (f \o (F \o m)) \o q = f \o (F \o (m \o q))
    <3> DEFINE x == F \o m
    <3>1. x \in Seq(Atoms)
      BY <1>4, <1>7, <2>3
    <3>2. x \o q = F \o (m \o q)
      BY <1>4, <1>6, <2>3, <2>5 DEF Grouped
    <3> HIDE DEF x
    <3>3. (f \o x) \o q = f \o (x \o q)
      BY <1>5, <1>6, <2>5, <3>1 DEF Grouped
    <3>4. QED
      BY <3>2, <3>3 DEF x
  <2>9. Ended(f, r, line \o Append(l, e)) = f \o (F \o (m \o q))
    <3>1. Ended(f, r, ls) = f \o (F \o m)
      BY <2>2
    <3>2. Ended(f, r, line \o Append(l, e)) = Ended(f, r, ls) \o q
      BY <2>6, <2>7
    <3>3. QED
      BY <2>8, <3>1, <3>2
  <2>10. QED
    BY <2>3, <2>5, <2>9 DEF S
<1>13. S = Seq(Y)
  <2>1. S \in SUBSET Seq(Y)
    OBVIOUS
  <2>2. <<>> \in S
    BY <1>11
  <2> HIDE DEF S, Y
  <2>3. QED
    BY <1>12, <2>1, <2>2, AllTexts
<1>14. Lines(t) \in Seq(Y)
  <2>1. Lines(t) \in LineLists(Unfenced)
    BY <1>3, PlainAtoms, LinesAppended
  <2>2. QED
    BY <2>1 DEF LineLists
<1> DEFINE l == Lines(t)
           ls == line \o l
<1>15. PICK m \in Y : Ended(f, r, ls) = f \o (F \o m)
  BY <1>13, <1>14
<1> HIDE DEF S, l
<1>16. ls \in Seq(Seq(Atoms)) /\ ls # <<>> /\ m \in Seq(Atoms)
  <2>1. l \in Seq(Seq(Atoms))
    BY <1>9a, <1>14 DEF l
  <2>2. QED
    BY <1>1, <1>4, <1>10, <1>15, <2>1
<1> HIDE DEF line
<1>17. LinesOf(b, t) = Append(ls, F)
  <2>1. LinesOf(b, t) = ls \o <<F>>
    BY DEF LinesOf, F, l, line
  <2> DEFINE A == Seq(Atoms)
  <2>2. ls \in Seq(A) /\ F \in A
    BY <1>4, <1>16
  <2> HIDE DEF A, ls
  <2>3. QED
    BY <2>1, <2>2, AppendIsConcat
<1>18. Wrote(b, t) = ((f \o (F \o m)) \o ((r \o F) \o N)) \o N
  <2>1. Ended(f, r, Append(ls, F)) = Ended(f, r, ls) \o LineOf(r, F)
    <3> HIDE DEF ls
    <3>1. LineAdded(f, r, ls, r, F)
      BY <1>4, <1>5, <1>6, <1>16, EndedAppended
    <3>2. QED
      BY <3>1 DEF LineAdded
  <2>2. LineOf(r, F) = (r \o F) \o N
    BY DEF LineOf, N
  <2> DEFINE q == (r \o F) \o N
  <2> HIDE DEF q, ls
  <2>3. Wrote(b, t) = Ended(f, r, LinesOf(b, t)) \o N
    BY DEF Wrote, f, r, N
  <2>4. Wrote(b, t) = ((f \o (F \o m)) \o q) \o N
    BY <1>15, <1>17, <2>1, <2>2, <2>3 DEF q
  <2>5. QED
    BY <2>4 DEF q
<1>19. ((f \o (F \o m)) \o ((r \o F) \o N)) \o N = (f \o ((F \o (m \o r)) \o F)) \o (N \o N)
  <2> DEFINE x == F \o m
             y == f \o x
             z == r \o F
  <2>1. x \in Seq(Atoms) /\ y \in Seq(Atoms) /\ z \in Seq(Atoms) /\ m \o r \in Seq(Atoms)
        /\ z \o N \in Seq(Atoms) /\ N \o N \in Seq(Atoms) /\ x \o r \in Seq(Atoms)
    BY <1>4, <1>5, <1>7, <1>16
  <2>2. x \o r = F \o (m \o r)
    BY <1>4, <1>5, <1>6, <1>16 DEF Grouped
  <2>3. x \o z = (x \o r) \o F
    <3> HIDE DEF x
    <3>1. x \in Seq(Atoms) /\ r \in Seq(Atoms) /\ F \in Seq(Atoms) /\ Grouped(Atoms)
      BY <1>4, <1>5, <1>6, <2>1
    <3>2. x \o (r \o F) = (x \o r) \o F
      <4>1. InGroups(x, r, F)
        BY <3>1, GroupedAs
      <4>2. QED
        BY <4>1 DEF InGroups
    <3>3. QED
      BY <3>2
  <2>4. y \o z = f \o (x \o z)
    <3> HIDE DEF x, z
    <3>1. QED
      <4>1. x \in Seq(Atoms) /\ z \in Seq(Atoms) /\ f \in Seq(Atoms)
        BY <1>5, <1>6, <2>1
      <4>2. InGroups(f, x, z)
        BY <4>1, GroupedAs
      <4>3. QED
        BY <4>2 DEF InGroups
  <2> HIDE DEF x, y, z
  <2>5. (y \o (z \o N)) \o N = (y \o z) \o (N \o N)
    <3>0. y \in Seq(Atoms) /\ z \in Seq(Atoms) /\ N \in Seq(Atoms) /\ Grouped(Atoms)
      BY <1>4, <1>6, <2>1
    <3>1. y \o (z \o N) = (y \o z) \o N
      BY <3>0 DEF Grouped
    <3>2. y \o z \in Seq(Atoms)
      BY <1>7, <2>1
    <3>3. ((y \o z) \o N) \o N = (y \o z) \o (N \o N)
      BY <1>4, <1>6, <3>2 DEF Grouped
    <3>4. QED
      BY <3>1, <3>3
  <2>6. y \o z = f \o ((F \o (m \o r)) \o F)
    BY <2>2, <2>3, <2>4
  <2>7. (y \o (z \o N)) \o N = (f \o ((F \o (m \o r)) \o F)) \o (N \o N)
    BY <2>5, <2>6
  <2>8. QED
    BY <2>7 DEF y, x, z
<1>20. N \o N \in Seq(PlainMarks) /\ m \o r \in Y
  BY <1>4, <1>5, <1>8, ConcatProperties
<1>21. Wrote(b, t) = (f \o ((F \o (m \o r)) \o F)) \o (N \o N)
  BY <1>18, <1>19
<1>22. QED
  <2> DEFINE w == m \o r
             post == N \o N
  <2>1. w \in Y /\ post \in Seq(PlainMarks) /\ Wrote(b, t) = f \o (F \o w \o F) \o post
    BY <1>20, <1>21
  <2> HIDE DEF w, post
  <2>2. QED
    BY <1>3, <2>1 DEF F, t

\* What is translated of a plain block, and its translation.
LEMMA PlainParts ==
  ASSUME NEW b \in PlainBlocks
  PROVE  /\ Part(b) \in Seq(PlainLetters) /\ Translated(Part(b)) \in Seq(Atoms)
         /\ b.text \in Seq(Atoms) /\ Got(b) \in Seq(Atoms)
         /\ HasKind(Got(b), "nl") => HasKind(b.text, "nl")
         /\ b.kind \in BlockKinds
<1>1. /\ b.text \in Seq(Letters) /\ ~HasKind(b.text, "fence") /\ b.kind \in BlockKinds
      /\ Translatable(b) => ~HasKind(b.text, "code")
  BY Assumed DEF PlainBlocks, SourceBlocks
<1>2. b.text \in Seq(Atoms)
  BY <1>1, PlainAtoms, SeqMonotonic
<1>3. Part(b) \in Seq(PlainLetters)
  <2>1. CASE Translatable(b)
    <3> DEFINE U == {a \in Letters : a[1] # "fence"}
               P == {a \in U : a[1] # "code"}
    <3>1. b.text \in Seq(U)
      BY <1>1, WithoutKind
    <3>2. P = PlainLetters
      BY DEF PlainLetters
    <3> HIDE DEF U
    <3>3. b.text \in Seq(P)
      BY <1>1, <2>1, <3>1, WithoutKind
    <3>4. QED
      BY <2>1, <3>2, <3>3 DEF Part
  <2>2. CASE ~Translatable(b)
    <3>1. Part(b) = <<>> /\ <<>> \in Seq(PlainLetters)
      BY <2>2 DEF Part
    <3>2. QED
      BY <3>1
  <2>3. QED
    BY <2>1, <2>2
<1>4. \A a \in Letters : Rendered(a) \in Atoms /\ (Rendered(a)[1] = "nl" => a[1] = "nl")
  <2> SUFFICES ASSUME NEW a \in Letters
               PROVE  Rendered(a) \in Atoms /\ (Rendered(a)[1] = "nl" => a[1] = "nl")
    OBVIOUS
  <2>1. CASE Foreign(a)
    <3>1. Rendered(a) \in Words /\ Rendered(a) \in Atoms
      BY <2>1, RenderedAs
    <3>2. Rendered(a)[1] # "nl"
      BY <3>1 DEF Words, WordKinds
    <3>3. QED
      BY <3>1, <3>2
  <2>2. CASE ~Foreign(a)
    BY <2>2, RenderedAs DEF Letters
  <2>3. QED
    BY <2>1, <2>2
<1>5. ASSUME NEW t \in Seq(Letters)
      PROVE  Translated(t) \in Seq(Atoms) /\ (HasKind(Translated(t), "nl") => HasKind(t, "nl"))
  <2> DEFINE n == Len(t)
  <2>1. n \in Nat /\ DOMAIN t = 1..n /\ \A i \in 1..n : t[i] \in Letters
    OBVIOUS
  <2>2. \A i \in 1..n : Rendered(t[i]) \in Atoms
    BY <1>4, <2>1
  <2>3. /\ Translated(t) \in Seq(Atoms) /\ DOMAIN Translated(t) = 1..n
        /\ \A i \in 1..n : Translated(t)[i] = Rendered(t[i])
    BY <2>2, TranslatedAt
  <2> HIDE DEF n
  <2>4. HasKind(Translated(t), "nl") => HasKind(t, "nl")
    BY <1>4, <2>1, <2>3 DEF HasKind
  <2>5. QED
    BY <2>3, <2>4
<1>6. Part(b) \in Seq(Letters)
  BY <1>3, PlainAtoms, SeqMonotonic
<1>7. Translated(Part(b)) \in Seq(Atoms)
  BY <1>5, <1>6
<1>8. Got(b) \in Seq(Atoms) /\ (HasKind(Got(b), "nl") => HasKind(b.text, "nl"))
  BY <1>1, <1>2, <1>5 DEF Got
<1>9. QED
  BY <1>1, <1>2, <1>3, <1>7, <1>8

\* A plain block is its part between marks, or code between fences.
LEMMA BlockParts ==
  ASSUME NEW b \in PlainBlocks
  PROVE  \E pre, post \in Seq(PlainMarks) :
            \/ /\ Wrote(b, b.text) = pre \o Part(b) \o post
               /\ Wrote(b, Got(b)) = pre \o Translated(Part(b)) \o post
            \/ /\ Part(b) = <<>>
               /\ \E m \in Seq(Unfenced) :
                     /\ Wrote(b, b.text) = pre \o (<<Fence>> \o m \o <<Fence>>) \o post
                     /\ Wrote(b, Got(b)) = pre \o (<<Fence>> \o m \o <<Fence>>) \o post
<1>1. CASE b.kind = "fence"
  <2>1. ~Translatable(b)
    BY <1>1 DEF Translatable
  <2>2. Part(b) = <<>> /\ Got(b) = b.text
    BY <2>1 DEF Part, Got
  <2>3. PICK pre \in Seq(PlainMarks), post \in Seq(PlainMarks), m \in Seq(Unfenced) :
            Wrote(b, b.text) = pre \o (<<Fence>> \o m \o <<Fence>>) \o post
    BY <1>1, FenceWritten
  <2>4. QED
    BY <2>2, <2>3
<1>2. CASE b.kind # "fence"
  <2>1. PICK pre \in Seq(PlainMarks), post \in Seq(PlainMarks) : \A t \in Seq(Atoms) :
            (HasKind(t, "nl") => b.first = <<>> /\ b.rest = <<>>) =>
               Wrote(b, t) = pre \o (IF Translatable(b) THEN t ELSE <<>>) \o post
    BY <1>2, BlockWritten
  <2>2. /\ b.text \in Seq(Atoms) /\ Got(b) \in Seq(Atoms)
        /\ HasKind(Got(b), "nl") => HasKind(b.text, "nl")
    BY PlainParts
  <2>3. HasKind(b.text, "nl") => b.first = <<>> /\ b.rest = <<>>
    BY DEF PlainBlocks
  <2>4. /\ Wrote(b, b.text) = pre \o (IF Translatable(b) THEN b.text ELSE <<>>) \o post
        /\ Wrote(b, Got(b)) = pre \o (IF Translatable(b) THEN Got(b) ELSE <<>>) \o post
    BY <2>1, <2>2, <2>3
  <2>5. Translated(<<>>) = <<>>
    BY DEF Translated
  <2>6. Wrote(b, b.text) = pre \o Part(b) \o post /\ Wrote(b, Got(b)) = pre \o Translated(Part(b)) \o post
    <3>1. CASE Translatable(b)
      <4>1. Part(b) = b.text /\ Got(b) = Translated(b.text)
        BY <3>1 DEF Part, Got
      <4>2. QED
        BY <2>4, <3>1, <4>1
    <3>2. CASE ~Translatable(b)
      <4>1. Part(b) = <<>>
        BY <3>2 DEF Part
      <4>2. Wrote(b, b.text) = pre \o <<>> \o post /\ Wrote(b, Got(b)) = pre \o <<>> \o post
        BY <2>4, <3>2
      <4>3. QED
        BY <2>5, <4>1, <4>2
    <3>3. QED
      BY <3>1, <3>2
  <2>7. QED
    BY <2>6
<1>3. QED
  BY <1>1, <1>2

-----------------------------------------------------------------------------
(* What the scan for fences takes from the parts of a block. *)

\* An atom goes behind a text joined as behind its last part.
LEMMA AppendJoined ==
  ASSUME NEW S, NEW s \in Seq(S), NEW t \in Seq(S), NEW a \in S
  PROVE  s \o Append(t, a) = Append(s \o t, a) /\ s \o t \in Seq(S) /\ Append(t, a) \in Seq(S)
<1> DEFINE o == <<a>>
<1>1. Append(t, a) = t \o o /\ o \in Seq(S)
  BY AppendIsConcat
<1>2. s \o t \in Seq(S)
  BY ConcatProperties
<1>3. Append(s \o t, a) = (s \o t) \o o
  BY <1>2, AppendIsConcat
<1> HIDE DEF o
<1>4. Grouped(S)
  BY Regrouped
<1>5. (s \o t) \o o = s \o (t \o o)
  BY <1>1, <1>4 DEF Grouped
<1>6. Append(t, a) \in Seq(S)
  OBVIOUS
<1>7. QED
  BY <1>1, <1>2, <1>3, <1>5, <1>6

\* A state of the scan.
State(x, B, c) == [text |-> x, blocks |-> B, block |-> c]

\* Outside of fences a text without fences is taken as it is.
LEMMA TakenPlain ==
  ASSUME NEW u \in Seq(Letters), NEW x \in Seq(Stashed(Letters)), NEW B, Taken(u) = State(x, B, <<>>),
         NEW v \in Seq(Unfenced)
  PROVE  Taken(u \o v) = State(x \o v, B, <<>>)
<1> DEFINE none == <<>>
           S == {w \in Seq(Unfenced) : Taken(u \o w) = State(x \o w, B, none)}
<1>1. /\ Unfenced \subseteq Letters /\ Letters \subseteq Atoms /\ Fence \notin Unfenced
      /\ Letters \subseteq Stashed(Letters) /\ Unfenced \subseteq Stashed(Letters)
  BY PlainAtoms DEF Stashed
<1>2. none \in S
  <2>1. u \o none = u /\ x \o none = x
    BY ConcatEmptySeq
  <2>2. none \in Seq(Unfenced)
    OBVIOUS
  <2> HIDE DEF none
  <2>3. Taken(u) = State(x, B, none)
    BY DEF none
  <2>4. QED
    BY <2>1, <2>2, <2>3
<1>3. ASSUME NEW w \in S, NEW a \in Unfenced PROVE Append(w, a) \in S
  <2>1. w \in Seq(Unfenced) /\ Taken(u \o w) = State(x \o w, B, none) /\ a # Fence
    BY <1>1
  <2> HIDE DEF S
  <2>2. /\ w \in Seq(Letters) /\ w \in Seq(Stashed(Letters)) /\ a \in Letters /\ a \in Stashed(Letters)
    BY <1>1, <2>1, SeqMonotonic
  <2>3. /\ u \o Append(w, a) = Append(u \o w, a) /\ u \o w \in Seq(Letters)
    BY <2>2, AppendJoined
  <2>4. x \o Append(w, a) = Append(x \o w, a)
    BY <2>2, AppendJoined
  <2>5. Append(w, a) \in Seq(Unfenced)
    BY <2>1
  <2>6. Taken(Append(u \o w, a)) = FenceStep(Taken(u \o w), a)
    BY <1>1, <2>2, <2>3, TakenAppended
  <2>7. FenceStep(State(x \o w, B, none), a) = State(Append(x \o w, a), B, none)
    <3> DEFINE y == x \o w
               s == State(y, B, none)
    <3> HIDE DEF y
    <3>1. /\ s.block = <<>> /\ s.text = y /\ s.blocks = B /\ s = [text |-> y, blocks |-> B, block |-> none]
      BY DEF State
    <3>2. FenceStep(s, a) = [s EXCEPT !.text = Append(@, a)]
      <4> HIDE DEF s
      <4>1. QED
        BY <2>1, <3>1 DEF FenceStep
    <3>3. [s EXCEPT !.text = Append(@, a)] = State(Append(y, a), B, none)
      <4> DEFINE e == Append(s.text, a)
      <4>1. e = Append(y, a)
        BY <3>1
      <4> HIDE DEF e
      <4>2. [s EXCEPT !.text = e] = State(e, B, none)
        BY DEF State
      <4>3. QED
        BY <4>1, <4>2 DEF e
    <3>4. QED
      BY <3>2, <3>3 DEF y
  <2>8. Taken(u \o Append(w, a)) = State(x \o Append(w, a), B, none)
    BY <2>1, <2>3, <2>4, <2>6, <2>7
  <2>9. QED
    BY <2>5, <2>8 DEF S
<1>4. S = Seq(Unfenced)
  <2>1. S \in SUBSET Seq(Unfenced)
    OBVIOUS
  <2>2. <<>> \in S
    BY <1>2
  <2> HIDE DEF S
  <2>3. QED
    BY <1>3, <2>1, <2>2, AllTexts
<1>5. QED
  BY <1>4

\* A text between fences is taken whole.
LEMMA TakenFence ==
  ASSUME NEW u \in Seq(Letters), NEW x, NEW B, Taken(u) = State(x, B, <<>>),
         NEW v \in Seq(Unfenced)
  PROVE  Taken(u \o (<<Fence>> \o v \o <<Fence>>)) =
            State(Append(x, CodeBlockKey(Len(B))), Append(B, <<Fence>> \o v \o <<Fence>>), <<>>)
<1> DEFINE F == <<Fence>>
           none == <<>>
           S == {w \in Seq(Unfenced) : Taken(u \o (F \o w)) = State(x, B, F \o w)}
<1>1. /\ Unfenced \subseteq Letters /\ Letters \subseteq Atoms /\ Fence \notin Unfenced /\ Fence \in Letters
  BY PlainAtoms
<1>2. F \in Seq(Letters) /\ u \o F = Append(u, Fence)
  <2>1. F \in Seq(Letters)
    BY <1>1
  <2>2. u \o F = Append(u, Fence)
    BY <1>1, AppendIsConcat
  <2>3. QED
    BY <2>1, <2>2
<1>3. none \in S
  <2>1. F \o none = F
    BY <1>2, ConcatEmptySeq
  <2>2. none \in Seq(Unfenced)
    OBVIOUS
  <2>3. Taken(Append(u, Fence)) = FenceStep(Taken(u), Fence)
    BY <1>1, TakenAppended
  <2>4. FenceStep(State(x, B, <<>>), Fence) = State(x, B, F)
    <3> DEFINE s == State(x, B, <<>>)
    <3>1. s.block = <<>> /\ s = [text |-> x, blocks |-> B, block |-> <<>>]
      BY DEF State
    <3>2. FenceStep(s, Fence) = [s EXCEPT !.block = F]
      <4> HIDE DEF s
      <4>1. QED
        BY <3>1 DEF FenceStep
    <3>3. [s EXCEPT !.block = F] = State(x, B, F)
      BY DEF State
    <3>4. QED
      BY <3>2, <3>3
  <2> HIDE DEF none, F
  <2>5. Taken(u \o (F \o none)) = State(x, B, F \o none)
    BY <1>2, <2>1, <2>3, <2>4
  <2>6. QED
    BY <2>2, <2>5
<1>4. \A w \in Seq(Letters) : F \o w # <<>>
  <2> SUFFICES ASSUME NEW w \in Seq(Letters) PROVE F \o w # <<>>
    OBVIOUS
  <2>1. Len(F) = 1 /\ Len(w) \in Nat
    OBVIOUS
  <2> HIDE DEF F
  <2>2. Len(F \o w) = Len(F) + Len(w)
    BY <1>2, ConcatProperties
  <2>3. QED
    BY <2>1, <2>2
<1> HIDE DEF F
<1>5. ASSUME NEW w \in S, NEW a \in Unfenced PROVE Append(w, a) \in S
  <2>1. w \in Seq(Unfenced) /\ Taken(u \o (F \o w)) = State(x, B, F \o w) /\ a # Fence
    BY <1>1
  <2> HIDE DEF S
  <2>2. w \in Seq(Letters) /\ a \in Letters /\ F \o w \in Seq(Letters)
    <3>1. w \in Seq(Letters) /\ a \in Letters
      BY <1>1, <2>1, SeqMonotonic
    <3>2. QED
      BY <1>2, <3>1, ConcatProperties
  <2> DEFINE y == F \o w
             z == u \o y
  <2>3. F \o Append(w, a) = Append(y, a)
    BY <1>2, <2>2, AppendJoined
  <2>4. y # <<>> /\ y \in Seq(Letters)
    BY <1>4, <2>2
  <2>4a. Taken(z) = State(x, B, y)
    BY <2>1
  <2> HIDE DEF y
  <2>5. u \o Append(y, a) = Append(z, a) /\ z \in Seq(Letters)
    BY <2>2, <2>4, AppendJoined
  <2>6. Append(w, a) \in Seq(Unfenced)
    BY <2>1
  <2> HIDE DEF z
  <2>7. Taken(Append(z, a)) = FenceStep(Taken(z), a)
    BY <1>1, <2>2, <2>5, TakenAppended
  <2>8. FenceStep(State(x, B, y), a) = State(x, B, Append(y, a))
    <3> DEFINE s == State(x, B, y)
    <3>1. s.block # <<>> /\ s = [text |-> x, blocks |-> B, block |-> y]
      BY <2>4 DEF State
    <3>2. FenceStep(s, a) = [s EXCEPT !.block = Append(@, a)]
      <4> HIDE DEF s
      <4>1. QED
        BY <2>1, <3>1 DEF FenceStep
    <3>3. [s EXCEPT !.block = Append(@, a)] = State(x, B, Append(y, a))
      <4> DEFINE e == Append(s.block, a)
      <4>1. e = Append(y, a)
        BY DEF State
      <4> HIDE DEF e
      <4>2. [s EXCEPT !.block = e] = State(x, B, e)
        BY DEF State
      <4>3. QED
        BY <4>1, <4>2 DEF e
    <3>4. QED
      BY <3>2, <3>3
  <2>9. Taken(u \o (F \o Append(w, a))) = State(x, B, F \o Append(w, a))
    BY <2>3, <2>4a, <2>5, <2>7, <2>8
  <2>10. QED
    BY <2>6, <2>9 DEF S
<1>6. S = Seq(Unfenced)
  <2>1. S \in SUBSET Seq(Unfenced)
    OBVIOUS
  <2>2. <<>> \in S
    BY <1>3
  <2> HIDE DEF S
  <2>3. QED
    BY <1>5, <2>1, <2>2, AllTexts
<1> DEFINE y == F \o v
           z == u \o y
<1>7. Taken(z) = State(x, B, y)
  BY <1>6
<1> HIDE DEF S
<1>8. y \in Seq(Letters) /\ y # <<>>
  <2>1. v \in Seq(Letters)
    BY <1>1, SeqMonotonic
  <2>2. QED
    BY <1>2, <1>4, <2>1, ConcatProperties
<1> HIDE DEF y
<1>9. u \o Append(y, Fence) = Append(z, Fence) /\ z \in Seq(Letters)
  BY <1>1, <1>8, AppendJoined
<1>10. Append(y, Fence) = y \o F
  BY <1>1, <1>8, AppendIsConcat DEF F
<1> HIDE DEF z
<1>11. Taken(Append(z, Fence)) = FenceStep(Taken(z), Fence)
  BY <1>1, <1>9, TakenAppended
<1>12. FenceStep(State(x, B, y), Fence) =
          State(Append(x, CodeBlockKey(Len(B))), Append(B, Append(y, Fence)), <<>>)
  <2> DEFINE s == State(x, B, y)
             key == CodeBlockKey(Len(s.blocks))
             block == Append(s.block, Fence)
  <2>1. /\ s.block # <<>> /\ s.block = y /\ s.blocks = B /\ s.text = x
        /\ s = [text |-> x, blocks |-> B, block |-> y]
    BY <1>8 DEF State
  <2> HIDE DEF s
  <2>2. FenceStep(s, Fence) = [s EXCEPT !.text = Append(@, key), !.blocks = Append(@, block), !.block = <<>>]
    BY <2>1 DEF FenceStep
  <2> HIDE DEF key, block
  <2>3. [s EXCEPT !.text = Append(@, key), !.blocks = Append(@, block), !.block = <<>>] =
          State(Append(x, key), Append(B, block), <<>>)
    <3> DEFINE e == Append(s.text, key)
               c == Append(s.blocks, block)
    <3>1. e = Append(x, key) /\ c = Append(B, block)
      BY <2>1
    <3> HIDE DEF e, c
    <3>2. [s EXCEPT !.text = e, !.blocks = c, !.block = <<>>] = State(e, c, <<>>)
      <4> DEFINE o == <<>>
                 r == [s EXCEPT !.text = e, !.blocks = c, !.block = o]
      <4> HIDE DEF o
      <4>1. s = [text |-> x, blocks |-> B, block |-> y]
        BY <2>1
      <4>2. DOMAIN r = {"text", "blocks", "block"} /\ r.text = e /\ r.blocks = c /\ r.block = o
        BY <4>1
      <4>3. r \in [text : {e}, blocks : {c}, block : {o}]
        <5>1. s \in [text : {x}, blocks : {B}, block : {y}]
          BY <4>1
        <5>2. QED
          BY <5>1
      <4> HIDE DEF r
      <4>4. r = State(e, c, o)
        BY <4>2, <4>3 DEF State
      <4>5. QED
        BY <4>4 DEF r, o
    <3>3. QED
      BY <3>1, <3>2 DEF e, c
  <2>4. key = CodeBlockKey(Len(B)) /\ block = Append(y, Fence)
    BY <2>1 DEF key, block
  <2>5. QED
    BY <2>2, <2>3, <2>4 DEF s
<1>13. Taken(u \o (y \o F)) = State(Append(x, CodeBlockKey(Len(B))), Append(B, y \o F), <<>>)
  BY <1>7, <1>9, <1>10, <1>11, <1>12
<1>14. QED
  BY <1>13 DEF y, F

\* The texts that a function gives the elements of a sequence, joined.
Mapped(h, s) == FlattenSeq([i \in DOMAIN s |-> h[s[i]]])
Grows(X, h, s, b) == Mapped(h, s) \in Seq(X) /\ Mapped(h, Append(s, b)) = Mapped(h, s) \o h[b]

\* An element more, and the texts go on with its own.
LEMMA MappedAppended ==
  ASSUME NEW S, NEW X, NEW h \in [S -> Seq(X)], NEW s \in Seq(S), NEW b \in S
  PROVE  Grows(X, h, s, b) /\ FlattenSeq(<<>>) = <<>>
<1> DEFINE n == Len(s)
           u == Append(s, b)
           w == [i \in DOMAIN u |-> h[u[i]]]
           v == [i \in DOMAIN s |-> h[s[i]]]
           z == Append(v, h[b])
<1>1. /\ n \in Nat /\ DOMAIN s = 1..n /\ DOMAIN u = 1..(n + 1)
      /\ (\A i \in 1..n : u[i] = s[i] /\ s[i] \in S) /\ u[n + 1] = b
  BY Appended
<1> HIDE DEF u, n
<1>2. v \in [1..n -> Seq(X)]
  BY <1>1
<1>3. v \in Seq(Seq(X)) /\ Len(v) = n /\ h[b] \in Seq(X)
  <2> HIDE DEF v
  <2>1. v \in Seq(Seq(X))
    BY <1>1, <1>2, SeqDef
  <2>2. QED
    BY <1>1, <1>2, <2>1, LenProperties
<1>4. w = z
  <2> DEFINE Y == Seq(X)
             e == h[b]
  <2>1. v \in Seq(Y) /\ e \in Y
    BY <1>3
  <2> HIDE DEF Y, e
  <2>2. \A i \in 1..n : v[i] = h[s[i]]
    BY <1>1
  <2> HIDE DEF v
  <2>3. /\ DOMAIN z = 1..(n + 1) /\ (\A i \in 1..n : z[i] = v[i]) /\ z[n + 1] = e
        /\ z \in Seq(Y)
    BY <1>3, <2>1, Appended DEF e
  <2> HIDE DEF z
  <2>4. ASSUME NEW i \in 1..(n + 1) PROVE w[i] = z[i]
    <3>1. CASE i = n + 1
      BY <1>1, <2>3, <3>1 DEF e
    <3>2. CASE i # n + 1
      <4>1. i \in 1..n
        BY <1>1, <3>2
      <4>2. QED
        BY <1>1, <2>2, <2>3, <4>1
    <3>3. QED
      BY <3>1, <3>2
  <2>5. z = [i \in 1..(n + 1) |-> z[i]]
    BY <2>3
  <2>6. QED
    BY <1>1, <2>4, <2>5
<1>5. FlattenSeq(v) \in Seq(X) /\ FlattenSeq(z) = FlattenSeq(v) \o h[b]
  <2> DEFINE e == h[b]
  <2>1. e \in Seq(X)
    BY <1>3
  <2> HIDE DEF v, e
  <2>2. FlattenSeq(v) \in Seq(X) /\ FlattenSeq(Append(v, e)) = FlattenSeq(v) \o e
    BY <1>3, <2>1, FlattenAppended
  <2>3. QED
    BY <2>2 DEF e
<1>6. FlattenSeq(<<>>) = <<>>
  <2> DEFINE o == <<>>
  <2>1. o \in Seq(Seq(X)) /\ Len(o) = 0
    OBVIOUS
  <2> HIDE DEF o
  <2>2. \E g \in [0..Len(o) -> Seq(X)] : g[0] = <<>> /\ FlattenSeq(o) = g[Len(o)]
    BY <2>1, Flattened
  <2>3. QED
    BY <2>1, <2>2 DEF o
<1>7. QED
  BY <1>4, <1>5, <1>6 DEF u, Grows, Mapped

\* The atoms of S are rendered as atoms of X.
RendersInto(S, X) == \A a \in S : Rendered(a) \in X

\* Two texts are translated together as they are each on its own.
Apiece(t, u) == Translated(t \o u) = Translated(t) \o Translated(u)

\* A text is translated atom by atom.
LEMMA TranslatedJoined ==
  ASSUME NEW S, NEW X, RendersInto(S, X), NEW t \in Seq(S), NEW u \in Seq(S)
  PROVE  /\ Translated(t) \in Seq(X) /\ Translated(u) \in Seq(X)
         /\ Apiece(t, u)
<1> DEFINE n == Len(t)
           m == Len(u)
           s == t \o u
<1>0. \A a \in S : Rendered(a) \in X
  BY DEF RendersInto
<1>1. /\ n \in Nat /\ m \in Nat /\ (\A i \in 1..n : t[i] \in S) /\ (\A i \in 1..m : u[i] \in S)
  OBVIOUS
<1>2. /\ s \in Seq(S) /\ Len(s) = n + m
      /\ \A i \in 1..(n + m) : s[i] = IF i <= n THEN t[i] ELSE u[i - n]
  BY ConcatProperties
<1>3. /\ Translated(t) \in Seq(X) /\ Len(Translated(t)) = n
      /\ \A i \in 1..n : Translated(t)[i] = Rendered(t[i])
  BY <1>0, <1>1, TranslatedAt
<1>4. /\ Translated(u) \in Seq(X) /\ Len(Translated(u)) = m
      /\ \A i \in 1..m : Translated(u)[i] = Rendered(u[i])
  BY <1>0, <1>1, TranslatedAt
<1> HIDE DEF s
<1>5. /\ Translated(s) \in Seq(X) /\ Len(Translated(s)) = n + m
      /\ \A i \in 1..(n + m) : Translated(s)[i] = Rendered(s[i])
  <2>1. \A i \in 1..Len(s) : s[i] \in S
    BY <1>2
  <2>2. /\ Translated(s) \in Seq(X) /\ Len(Translated(s)) = Len(s)
        /\ \A i \in 1..Len(s) : Translated(s)[i] = Rendered(s[i])
    BY <1>0, <1>2, <2>1, TranslatedAt
  <2>3. QED
    BY <1>2, <2>2
<1> HIDE DEF n, m
<1> DEFINE p == Translated(t)
           q == Translated(u)
           r == Translated(s)
           z == p \o q
<1> HIDE DEF p, q, r
<1>6. /\ z \in Seq(X) /\ Len(z) = n + m
      /\ \A i \in 1..(n + m) : z[i] = IF i <= n THEN p[i] ELSE q[i - n]
  BY <1>3, <1>4, ConcatProperties DEF p, q
<1> HIDE DEF z
<1>7. ASSUME NEW i \in 1..(n + m) PROVE r[i] = z[i]
  <2>1. r[i] = Rendered(s[i])
    BY <1>5 DEF r
  <2>2. CASE i <= n
    <3>1. i \in 1..n /\ s[i] = t[i] /\ z[i] = p[i]
      BY <1>1, <1>2, <1>6, <2>2
    <3>2. p[i] = Rendered(t[i])
      BY <1>3, <3>1 DEF p
    <3>3. QED
      BY <2>1, <3>1, <3>2
  <2>3. CASE ~(i <= n)
    <3> DEFINE j == i - n
    <3>1. j \in 1..m /\ s[i] = u[j] /\ z[i] = q[j]
      BY <1>1, <1>2, <1>6, <2>3
    <3> HIDE DEF j
    <3>2. q[j] = Rendered(u[j])
      BY <1>4, <3>1 DEF q
    <3>3. QED
      BY <2>1, <3>1, <3>2
  <2>4. QED
    BY <2>2, <2>3
<1>8. r = z
  <2>1. r \in Seq(X) /\ Len(r) = n + m /\ n + m \in Nat
    BY <1>1, <1>5 DEF r
  <2>2. QED
    BY <1>6, <1>7, <2>1, SeqEqual
<1>9. QED
  BY <1>3, <1>4, <1>8 DEF p, q, r, s, z, Apiece

-----------------------------------------------------------------------------
(* The shape of a plain document. *)

\* The text y is x and then p, d and q.
Joins(y, x, p, d, q) ==
    /\ Len(y) = Len(x) + Len(p) + Len(d) + Len(q)
    /\ \A i \in 1..Len(x) : y[i] = x[i]
    /\ \A i \in 1..Len(p) : y[Len(x) + i] = p[i]
    /\ \A i \in 1..Len(d) : y[Len(x) + Len(p) + i] = d[i]
    /\ \A i \in 1..Len(q) : y[Len(x) + Len(p) + Len(d) + i] = q[i]

\* However the four are put together.
InTurn(x, p, d, q) == x \o (p \o d \o q) = (((x \o p) \o d) \o q)

\* Four texts behind each other.
LEMMA FourJoined ==
  ASSUME NEW K, NEW x \in Seq(K), NEW p \in Seq(K), NEW d \in Seq(K), NEW q \in Seq(K)
  PROVE  LET y == x \o (p \o d \o q)
         IN  y \in Seq(K) /\ Joins(y, x, p, d, q) /\ InTurn(x, p, d, q)
<1> DEFINE lx == Len(x)
           lp == Len(p)
           ld == Len(d)
           lq == Len(q)
           u == x \o p
           v == u \o d
           y == v \o q
<1>1. lx \in Nat /\ lp \in Nat /\ ld \in Nat /\ lq \in Nat
  OBVIOUS
<1>2. /\ u \in Seq(K) /\ Len(u) = lx + lp
      /\ \A i \in 1..(lx + lp) : u[i] = IF i <= lx THEN x[i] ELSE p[i - lx]
  BY ConcatProperties
<1> HIDE DEF u
<1>3. /\ v \in Seq(K) /\ Len(v) = lx + lp + ld
      /\ \A i \in 1..(lx + lp + ld) : v[i] = IF i <= lx + lp THEN u[i] ELSE d[i - (lx + lp)]
  <2>0. u \in Seq(K)
    BY <1>2
  <2>1. /\ v \in Seq(K) /\ Len(v) = Len(u) + Len(d)
        /\ \A i \in 1..(Len(u) + Len(d)) : v[i] = IF i <= Len(u) THEN u[i] ELSE d[i - Len(u)]
    BY <2>0, ConcatProperties
  <2> HIDE DEF v
  <2>2. QED
    BY <1>2, <2>1
<1> HIDE DEF v
<1>4. /\ y \in Seq(K) /\ Len(y) = lx + lp + ld + lq
      /\ \A i \in 1..(lx + lp + ld + lq) :
            y[i] = IF i <= lx + lp + ld THEN v[i] ELSE q[i - (lx + lp + ld)]
  <2>0. v \in Seq(K)
    BY <1>3
  <2>1. /\ y \in Seq(K) /\ Len(y) = Len(v) + Len(q)
        /\ \A i \in 1..(Len(v) + Len(q)) : y[i] = IF i <= Len(v) THEN v[i] ELSE q[i - Len(v)]
    BY <2>0, ConcatProperties
  <2> HIDE DEF y
  <2>2. QED
    BY <1>3, <2>1
<1>5. x \o (p \o d \o q) = y
  <2> DEFINE w == p \o d
  <2>1. Grouped(K)
    BY Regrouped
  <2>2. w \in Seq(K)
    BY ConcatProperties
  <2>3. x \o w = (x \o p) \o d
    <3>1. InGroups(x, p, d)
      BY GroupedAs
    <3>2. QED
      BY <3>1 DEF InGroups
  <2> HIDE DEF w
  <2>4. x \o (w \o q) = (x \o w) \o q
    <3>1. InGroups(x, w, q)
      BY <2>2, GroupedAs
    <3>2. QED
      BY <3>1 DEF InGroups
  <2>5. QED
    BY <2>3, <2>4 DEF w, u, v
<1> HIDE DEF y, lx, lp, ld, lq
<1>6. \A i \in 1..lx : y[i] = x[i]
  <2> SUFFICES ASSUME NEW i \in 1..lx PROVE y[i] = x[i]
    OBVIOUS
  <2>1. i \in 1..(lx + lp) /\ i \in 1..(lx + lp + ld) /\ i \in 1..(lx + lp + ld + lq)
        /\ i <= lx /\ i <= lx + lp /\ i <= lx + lp + ld
    BY <1>1
  <2>2. QED
    BY <1>2, <1>3, <1>4, <2>1
<1>7. \A i \in 1..lp : y[lx + i] = p[i]
  <2> SUFFICES ASSUME NEW i \in 1..lp PROVE y[lx + i] = p[i]
    OBVIOUS
  <2> DEFINE j == lx + i
  <2>1. j \in 1..(lx + lp) /\ j \in 1..(lx + lp + ld) /\ j \in 1..(lx + lp + ld + lq)
        /\ ~(j <= lx) /\ j <= lx + lp /\ j <= lx + lp + ld /\ j - lx = i
    BY <1>1
  <2> HIDE DEF j
  <2>2. y[j] = p[i]
    BY <1>2, <1>3, <1>4, <2>1
  <2>3. QED
    BY <2>2 DEF j
<1>8. \A i \in 1..ld : y[lx + lp + i] = d[i]
  <2> SUFFICES ASSUME NEW i \in 1..ld PROVE y[lx + lp + i] = d[i]
    OBVIOUS
  <2> DEFINE j == lx + lp + i
  <2>1. j \in 1..(lx + lp + ld) /\ j \in 1..(lx + lp + ld + lq)
        /\ ~(j <= lx + lp) /\ j <= lx + lp + ld /\ j - (lx + lp) = i
    BY <1>1
  <2> HIDE DEF j
  <2>2. y[j] = d[i]
    BY <1>3, <1>4, <2>1
  <2>3. QED
    BY <2>2 DEF j
<1>9. \A i \in 1..lq : y[lx + lp + ld + i] = q[i]
  <2> SUFFICES ASSUME NEW i \in 1..lq PROVE y[lx + lp + ld + i] = q[i]
    OBVIOUS
  <2> DEFINE j == lx + lp + ld + i
  <2>1. j \in 1..(lx + lp + ld + lq) /\ ~(j <= lx + lp + ld) /\ j - (lx + lp + ld) = i
    BY <1>1
  <2> HIDE DEF j
  <2>2. y[j] = q[i]
    BY <1>4, <2>1
  <2>3. QED
    BY <2>2 DEF j
<1>10. y = (((x \o p) \o d) \o q)
  BY DEF y, v, u
<1>11. QED
  BY <1>4, <1>5, <1>6, <1>7, <1>8, <1>9, <1>10 DEF lx, lp, ld, lq, Joins, InTurn

\* A block more has its place behind the others.
LEMMA RegionsGrown ==
  ASSUME NEW S, NEW bs \in Seq(S), NEW b \in S, NEW K, NEW x \in Seq(K), NEW r, Regions(r, x, bs),
         \A c \in S : Part(c) \in Seq(K),
         NEW pre \in Seq(K), NEW d \in Seq(K), NEW post \in Seq(K),
         \A i \in 1..Len(pre) : ~Foreign(pre[i]), \A i \in 1..Len(post) : ~Foreign(post[i]),
         d = Part(b) \/ (Part(b) = <<>> /\ \A i \in 1..Len(d) : ~Foreign(d[i]))
  PROVE  \E q : Regions(q, x \o (pre \o d \o post), Append(bs, b))
<1> DEFINE n == Len(bs)
           u == Append(bs, b)
           y == x \o (pre \o d \o post)
           lx == Len(x)
           lp == Len(pre)
           ld == Len(d)
           lq == Len(post)
           place == lx + lp + 1
           q == [i \in 1..(n + 1) |-> IF i = n + 1 THEN place ELSE r[i]]
           w == Part(b)
           l == Len(w)
           E(i) == q[i] + Len(Part(u[i]))
<1>1. lx \in Nat /\ lp \in Nat /\ ld \in Nat /\ lq \in Nat /\ n \in Nat /\ l \in Nat
  OBVIOUS
<1>2. /\ Len(u) = n + 1 /\ (\A i \in 1..n : u[i] = bs[i] /\ bs[i] \in S) /\ u[n + 1] = b
  BY Appended
<1>3. /\ y \in Seq(K) /\ Len(y) = lx + lp + ld + lq
      /\ (\A i \in 1..lx : y[i] = x[i])
      /\ (\A i \in 1..lp : y[lx + i] = pre[i])
      /\ (\A i \in 1..ld : y[lx + lp + i] = d[i])
      /\ (\A i \in 1..lq : y[lx + lp + ld + i] = post[i])
  <2>1. y \in Seq(K) /\ Joins(y, x, pre, d, post)
    BY FourJoined
  <2> HIDE DEF y
  <2>2. QED
    BY <2>1 DEF Joins
<1>4. (w = d /\ l = ld) \/ (l = 0 /\ \A i \in 1..ld : ~Foreign(d[i]))
  OBVIOUS
<1> HIDE DEF u, y, lx, lp, ld, lq
<1>5. \A i \in 1..n : i \in 1..(n + 1) /\ q[i] = r[i] /\ u[i] = bs[i] /\ i # n + 1
  <2>1. \A i \in 1..n : i \in 1..(n + 1) /\ i # n + 1
    BY <1>1
  <2> HIDE DEF n
  <2>2. QED
    BY <1>2, <2>1
<1>6. n + 1 \in 1..(n + 1) /\ q[n + 1] = place /\ u[n + 1] = b
  BY <1>1, <1>2
<1>7. ASSUME NEW i \in 1..n
      PROVE  /\ Len(Part(bs[i])) \in Nat /\ r[i] \in Nat \ {0}
             /\ r[i] + Len(Part(bs[i])) <= lx + 1 /\ Lies(Part(bs[i]), x, r[i])
  <2>1. Lies(Part(bs[i]), x, r[i])
    BY DEF Regions
  <2>2. Part(bs[i]) \in Seq(K)
    BY <1>2
  <2>3. QED
    BY <2>1, <2>2 DEF Lies, lx
<1> HIDE DEF n, q, w, l
<1>8. ASSUME NEW i \in 1..(n + 1) PROVE Lies(Part(u[i]), y, q[i])
  <2>1. CASE i = n + 1
    <3>1. place \in Nat \ {0} /\ place + l <= Len(y) + 1
      BY <1>1, <1>3, <1>4
    <3>2. ASSUME NEW j \in 1..l PROVE y[place + j - 1] = w[j]
      <4>1. w = d /\ l = ld
        BY <1>4
      <4>2. place + j - 1 = lx + lp + j
        BY <1>1
      <4>3. QED
        BY <1>3, <4>1, <4>2
    <3> HIDE DEF place
    <3>3. Lies(w, y, place)
      BY <3>1, <3>2 DEF Lies, l
    <3>4. QED
      BY <1>6, <2>1, <3>3 DEF w
  <2>2. CASE i # n + 1
    <3>1. i \in 1..n
      BY <1>1, <2>2
    <3> DEFINE z == Part(bs[i])
               k == r[i]
               m == Len(z)
    <3>2. m \in Nat /\ k \in Nat \ {0} /\ k + m <= lx + 1 /\ \A j \in 1..m : x[k + j - 1] = z[j]
      BY <1>7, <3>1 DEF Lies
    <3> HIDE DEF z, k, m
    <3>3. \A j \in 1..m : y[k + j - 1] = z[j]
      <4> SUFFICES ASSUME NEW j \in 1..m PROVE y[k + j - 1] = z[j]
        OBVIOUS
      <4> DEFINE h == k + j - 1
      <4>1. h \in 1..lx
        BY <1>1, <3>2
      <4>2. x[h] = z[j]
        BY <3>2
      <4> HIDE DEF h
      <4>3. y[h] = z[j]
        BY <1>3, <4>1, <4>2
      <4>4. QED
        BY <4>3 DEF h
    <3>4. k + m <= Len(y) + 1
      BY <1>1, <1>3, <3>2
    <3>5. Lies(z, y, k)
      BY <3>2, <3>3, <3>4 DEF Lies, m
    <3>6. QED
      BY <1>5, <3>1, <3>5 DEF z, k
  <2>3. QED
    BY <2>1, <2>2
<1>9. ASSUME NEW i \in 1..(n + 1), NEW j \in 1..(n + 1), i < j
      PROVE  E(i) <= q[j]
  <2>1. i \in 1..n
    BY <1>1, <1>9
  <2>2. E(i) = r[i] + Len(Part(bs[i]))
    BY <1>5, <2>1
  <2>3. CASE j = n + 1
    <3>1. r[i] + Len(Part(bs[i])) <= place
      <4> DEFINE k == r[i]
                 m == Len(Part(bs[i]))
      <4>1. m \in Nat /\ k \in Nat /\ k + m <= lx + 1
        <5> HIDE DEF place, E
        <5>1. QED
          BY <1>7, <2>1
      <4> HIDE DEF k, m
      <4>2. k + m <= place
        BY <1>1, <4>1
      <4>3. QED
        BY <4>2 DEF k, m
    <3>2. QED
      BY <1>6, <2>2, <2>3, <3>1
  <2>4. CASE j # n + 1
    <3>1. j \in 1..n
      BY <1>1, <2>4
    <3>2. r[i] + Len(Part(bs[i])) <= r[j]
      BY <1>9, <2>1, <3>1 DEF Regions, n
    <3>3. QED
      BY <1>5, <2>2, <3>1, <3>2
  <2>5. QED
    BY <2>3, <2>4
<1>10. ASSUME NEW p \in 1..Len(y), Foreign(y[p])
       PROVE  \E i \in 1..(n + 1) : q[i] <= p /\ p < E(i)
  <2>1. CASE p <= lx
    <3>1. p \in 1..lx /\ Foreign(x[p])
      BY <1>1, <1>3, <1>10, <2>1
    <3>2. PICK i \in 1..n : r[i] <= p /\ p < r[i] + Len(Part(bs[i]))
      BY <3>1 DEF Regions, n, lx
    <3>3. q[i] = r[i] /\ E(i) = r[i] + Len(Part(bs[i])) /\ i \in 1..(n + 1)
      BY <1>5
    <3>4. QED
      BY <3>2, <3>3
  <2>2. CASE ~(p <= lx) /\ p <= lx + lp
    <3> DEFINE j == p - lx
    <3>1. j \in 1..lp /\ lx + j = p
      BY <1>1, <2>2
    <3> HIDE DEF j
    <3>2. y[p] = pre[j]
      BY <1>3, <3>1
    <3>3. QED
      BY <1>10, <3>1, <3>2 DEF lp
  <2>3. CASE ~(p <= lx + lp) /\ p <= lx + lp + ld
    <3> DEFINE j == p - (lx + lp)
    <3>1. j \in 1..ld /\ lx + lp + j = p
      BY <1>1, <2>3
    <3> HIDE DEF j
    <3>2. y[p] = d[j]
      BY <1>3, <3>1
    <3>3. l = ld
      BY <1>4, <1>10, <3>1, <3>2
    <3>4. place <= p /\ p < place + l
      BY <1>1, <2>3, <3>3
    <3>5. q[n + 1] = place /\ E(n + 1) = place + l
      BY <1>6 DEF l, w
    <3> HIDE DEF place, E
    <3>6. QED
      BY <1>6, <3>4, <3>5
  <2>4. CASE ~(p <= lx + lp + ld)
    <3> DEFINE j == p - (lx + lp + ld)
    <3>0. p \in Nat /\ p <= lx + lp + ld + lq
      BY <1>1, <1>3
    <3>1. j \in 1..lq /\ lx + lp + ld + j = p
      BY <1>1, <2>4, <3>0
    <3> HIDE DEF j
    <3>2. y[p] = post[j]
      BY <1>3, <3>1
    <3>3. QED
      BY <1>10, <3>1, <3>2 DEF lq
  <2>5. QED
    BY <2>1, <2>2, <2>3, <2>4
<1>11. Regions(q, y, u)
  BY <1>2, <1>8, <1>9, <1>10 DEF Regions, n
<1>12. QED
  BY <1>11 DEF y, u

\* The text of a document of these blocks, and what is to become of it.
SourceOf(blocks) == FlattenSeq([i \in DOMAIN blocks |-> Wrote(blocks[i], blocks[i].text)])
WantedOf(blocks) == FlattenSeq([i \in DOMAIN blocks |-> Wrote(blocks[i], Got(blocks[i]))])

\* What is written of a block, and what is to become of it, are texts.
LEMMA WroteTyped ==
  ASSUME NEW b \in PlainBlocks
  PROVE  Wrote(b, b.text) \in Seq(Letters) /\ Wrote(b, Got(b)) \in Seq(Atoms)
<1>1. \A s : s \in Seq(PlainMarks) \/ s \in Seq(PlainLetters) \/ s \in Seq(Unfenced) => s \in Seq(Letters)
  BY PlainAtoms, SeqMonotonic
<1>2. \A s \in Seq(Letters) : s \in Seq(Atoms)
  BY PlainAtoms, SeqMonotonic
<1>3. Part(b) \in Seq(PlainLetters) /\ Translated(Part(b)) \in Seq(Atoms)
  BY PlainParts
<1>4. <<Fence>> \in Seq(Letters)
  BY PlainAtoms
<1>5. PICK pre \in Seq(PlainMarks), post \in Seq(PlainMarks) :
            \/ /\ Wrote(b, b.text) = pre \o Part(b) \o post
               /\ Wrote(b, Got(b)) = pre \o Translated(Part(b)) \o post
            \/ /\ Part(b) = <<>>
               /\ \E m \in Seq(Unfenced) :
                     /\ Wrote(b, b.text) = pre \o (<<Fence>> \o m \o <<Fence>>) \o post
                     /\ Wrote(b, Got(b)) = pre \o (<<Fence>> \o m \o <<Fence>>) \o post
  BY BlockParts
<1>6. pre \in Seq(Letters) /\ post \in Seq(Letters) /\ pre \in Seq(Atoms) /\ post \in Seq(Atoms)
  BY <1>1, <1>2
<1>7. CASE /\ Wrote(b, b.text) = pre \o Part(b) \o post
           /\ Wrote(b, Got(b)) = pre \o Translated(Part(b)) \o post
  <2>1. Part(b) \in Seq(Letters)
    BY <1>1, <1>3
  <2>2. pre \o Part(b) \o post \in Seq(Letters)
    BY <1>6, <2>1, ConcatProperties
  <2>3. pre \o Translated(Part(b)) \o post \in Seq(Atoms)
    BY <1>3, <1>6, ConcatProperties
  <2>4. QED
    BY <1>7, <2>2, <2>3
<1>8. CASE \E m \in Seq(Unfenced) :
             /\ Wrote(b, b.text) = pre \o (<<Fence>> \o m \o <<Fence>>) \o post
             /\ Wrote(b, Got(b)) = pre \o (<<Fence>> \o m \o <<Fence>>) \o post
  <2>1. PICK m \in Seq(Unfenced) :
             /\ Wrote(b, b.text) = pre \o (<<Fence>> \o m \o <<Fence>>) \o post
             /\ Wrote(b, Got(b)) = pre \o (<<Fence>> \o m \o <<Fence>>) \o post
    BY <1>8
  <2> DEFINE c == <<Fence>> \o m \o <<Fence>>
  <2>2. m \in Seq(Letters)
    BY <1>1
  <2>3. c \in Seq(Letters)
    BY <1>4, <2>2, ConcatProperties
  <2> HIDE DEF c
  <2>4. pre \o c \o post \in Seq(Letters)
    BY <1>6, <2>3, ConcatProperties
  <2>5. QED
    BY <1>2, <2>1, <2>4 DEF c
<1>9. QED
  BY <1>5, <1>7, <1>8

\* The texts go on block by block.
LEMMA SourceAppended ==
  ASSUME NEW bs \in Seq(PlainBlocks), NEW b \in PlainBlocks
  PROVE  /\ SourceOf(bs) \in Seq(Letters) /\ WantedOf(bs) \in Seq(Atoms)
         /\ SourceOf(Append(bs, b)) = SourceOf(bs) \o Wrote(b, b.text)
         /\ WantedOf(Append(bs, b)) = WantedOf(bs) \o Wrote(b, Got(b))
         /\ SourceOf(<<>>) = <<>> /\ WantedOf(<<>>) = <<>>
<1> DEFINE g == [c \in PlainBlocks |-> Wrote(c, c.text)]
           h == [c \in PlainBlocks |-> Wrote(c, Got(c))]
           u == Append(bs, b)
<1>1. g \in [PlainBlocks -> Seq(Letters)] /\ h \in [PlainBlocks -> Seq(Atoms)]
  BY WroteTyped
<1>2. ASSUME NEW s \in Seq(PlainBlocks)
      PROVE  /\ SourceOf(s) = Mapped(g, s)
             /\ WantedOf(s) = Mapped(h, s)
  <2>1. \A i \in DOMAIN s : s[i] \in PlainBlocks
    OBVIOUS
  <2>2. \A c \in PlainBlocks : g[c] = Wrote(c, c.text) /\ h[c] = Wrote(c, Got(c))
    OBVIOUS
  <2> HIDE DEF g, h
  <2>3. [i \in DOMAIN s |-> g[s[i]]] = [i \in DOMAIN s |-> Wrote(s[i], s[i].text)]
    BY <2>1, <2>2
  <2>4. [i \in DOMAIN s |-> h[s[i]]] = [i \in DOMAIN s |-> Wrote(s[i], Got(s[i]))]
    BY <2>1, <2>2
  <2>5. QED
    BY <2>3, <2>4 DEF SourceOf, WantedOf, Mapped
<1>3. g[b] = Wrote(b, b.text) /\ h[b] = Wrote(b, Got(b))
  OBVIOUS
<1>4. u \in Seq(PlainBlocks)
  OBVIOUS
<1> HIDE DEF g, h
<1>5. Grows(Letters, g, bs, b) /\ Grows(Atoms, h, bs, b) /\ FlattenSeq(<<>>) = <<>>
  BY <1>1, MappedAppended
<1> HIDE DEF u
<1>7. SourceOf(<<>>) = <<>> /\ WantedOf(<<>>) = <<>>
  <2>1. SourceOf(<<>>) = FlattenSeq(<<>>) /\ WantedOf(<<>>) = FlattenSeq(<<>>)
    BY DEF SourceOf, WantedOf
  <2>2. QED
    BY <1>5, <2>1
<1>8. /\ SourceOf(bs) \in Seq(Letters) /\ WantedOf(bs) \in Seq(Atoms)
      /\ SourceOf(u) = SourceOf(bs) \o g[b] /\ WantedOf(u) = WantedOf(bs) \o h[b]
  BY <1>2, <1>4, <1>5 DEF Grows, u
<1>9. QED
  BY <1>3, <1>7, <1>8 DEF u

\* Text without code is translated and restored as it stands.
LEMMA RestoredMore ==
  ASSUME NEW m \in Nat, NEW B \in Seq(Seq(Atoms)), Len(B) = m,
         NEW x \in Seq(Fenced(PlainLetters, m)), NEW v \in Seq(PlainLetters)
  PROVE  /\ Translated(x) \in Seq(Fenced(Atoms, m)) /\ Translated(v) \in Seq(Atoms)
         /\ Restore(Translated(x \o v), B) = Restore(Translated(x), B) \o Translated(v)
<1> DEFINE S == Fenced(PlainLetters, m)
           K == Fenced(Atoms, m)
<1>1. \A a \in PlainLetters : Rendered(a) \in Atoms
  BY RenderedAs DEF PlainLetters, Letters
<1>2. \A a \in S : Rendered(a) \in K
  BY <1>1 DEF Fenced, Rendered
<1>3. Atoms \subseteq K /\ PlainLetters \subseteq S
  BY DEF Fenced
<1>4. Restorable(K, Atoms, B)
  BY FencedRestorable
<1>5. v \in Seq(S) /\ x \in Seq(S)
  BY <1>3, SeqMonotonic
<1> HIDE DEF S, K
<1>6. Translated(x) \in Seq(K) /\ Translated(x \o v) = Translated(x) \o Translated(v)
  <2>1. RendersInto(S, K)
    BY <1>2 DEF RendersInto
  <2>2. Translated(x) \in Seq(K) /\ Apiece(x, v)
    BY <1>5, <2>1, TranslatedJoined
  <2>3. QED
    BY <2>2 DEF Apiece
<1>7. Translated(v) \in Seq(Atoms)
  <2>1. RendersInto(PlainLetters, Atoms)
    BY <1>1 DEF RendersInto
  <2>2. QED
    BY <2>1, TranslatedJoined
<1>8. Restore(Translated(x) \o Translated(v), B) = Restore(Translated(x), B) \o Translated(v)
  <2> DEFINE p == Translated(x)
             q == Translated(v)
  <2>1. p \in Seq(K) /\ q \in Seq(Atoms)
    BY <1>6, <1>7
  <2> HIDE DEF p, q
  <2>2. Restore(p \o q, B) = Restore(p, B) \o q
    <3>1. Kept(p, q, B)
      BY <1>3, <1>4, <2>1, RestorePlain
    <3>2. QED
      BY <3>1 DEF Kept
  <2>3. QED
    BY <2>2 DEF p, q
<1>9. QED
  BY <1>6, <1>7, <1>8 DEF K

\* A key more and its block.
LEMMA RestoredKey ==
  ASSUME NEW m \in Nat, NEW B \in Seq(Seq(Atoms)), Len(B) = m, NEW c \in Seq(Atoms),
         NEW x \in Seq(Fenced(PlainLetters, m))
  PROVE  Restore(Translated(Append(x, CodeBlockKey(m))), Append(B, c)) = Restore(Translated(x), B) \o c
<1> DEFINE C == Append(B, c)
           key == CodeBlockKey(m)
           S == Fenced(PlainLetters, m + 1)
           K == Fenced(Atoms, m + 1)
           z == Translated(x)
<1>1. /\ C \in Seq(Seq(Atoms)) /\ Len(C) = m + 1 /\ (\A i \in 1..m : C[i] = B[i]) /\ C[m + 1] = c
  <2> DEFINE Y == Seq(Atoms)
  <2>1. B \in Seq(Y) /\ c \in Y
    OBVIOUS
  <2> HIDE DEF Y
  <2>2. /\ C \in Seq(Y) /\ Len(C) = m + 1 /\ (\A i \in 1..m : C[i] = B[i]) /\ C[m + 1] = c
    BY <2>1, Appended
  <2>3. QED
    BY <2>2 DEF Y
<1>2. key \in S /\ key \in K /\ Rendered(key) = key /\ key[1] = "CODE_BLOCK" /\ key[2] = m
  BY DEF CodeBlockKey, Fenced, Rendered
<1>3. x \in Seq(S) /\ z \in Seq(Fenced(Atoms, m)) /\ z \in Seq(K)
  <2>1. Fenced(PlainLetters, m) \subseteq S /\ Fenced(Atoms, m) \subseteq K
    BY DEF Fenced
  <2>2. <<>> \in Seq(PlainLetters)
    OBVIOUS
  <2>3. z \in Seq(Fenced(Atoms, m))
    BY <2>2, RestoredMore
  <2> HIDE DEF S, K, z
  <2>4. QED
    BY <2>1, <2>3, SeqMonotonic
<1>4. \A a \in S : Rendered(a) \in K
  <2>1. \A a \in PlainLetters : Rendered(a) \in Atoms
    BY RenderedAs DEF PlainLetters, Letters
  <2>2. QED
    BY <2>1 DEF Fenced, Rendered
<1>5. Restorable(K, Atoms, C)
  <2>1. Restorable(Fenced(Atoms, Len(C)), Atoms, C)
    BY <1>1, FencedRestorable
  <2>2. QED
    BY <1>1, <2>1
<1> HIDE DEF S, K, C, key
<1>6. Translated(Append(x, key)) = Append(z, key)
  <2> DEFINE o == <<key>>
  <2>1. o \in Seq(S) /\ Append(x, key) = x \o o
    BY <1>2, <1>3, AppendIsConcat
  <2>2. Translated(o) = o
    BY <1>2 DEF Translated, Rendered
  <2> HIDE DEF o
  <2>3. Translated(x \o o) = z \o o
    <3>1. RendersInto(S, K)
      BY <1>4 DEF RendersInto
    <3>2. Apiece(x, o)
      BY <1>3, <2>1, <3>1, TranslatedJoined
    <3>3. QED
      BY <2>2, <3>2 DEF Apiece
  <2>4. Append(z, key) = z \o o
    <3> HIDE DEF z
    <3>1. QED
      BY <1>2, <1>3, AppendIsConcat DEF o
  <2>5. QED
    BY <2>1, <2>3, <2>4
<1> HIDE DEF z
<1>7. Restore(Append(z, key), C) = Restore(z, C) \o Piece(key, C)
  BY <1>2, <1>3, <1>5, RestoreAppended
<1>8. Piece(key, C) = c
  BY <1>1, <1>2 DEF Piece
<1>9. Restore(z, C) = Restore(z, B)
  <2>1. ASSUME NEW i \in DOMAIN z PROVE Piece(z[i], C) = Piece(z[i], B)
    <3>1. z[i] \in Fenced(Atoms, m)
      BY <1>3
    <3>2. CASE z[i] \in Atoms
      <4>1. z[i][1] \notin {"CODE_BLOCK", "INLINE_CODE"}
        BY <3>2 DEF Atoms, MarkKinds, WordKinds
      <4>2. QED
        BY <4>1 DEF Piece
    <3>3. CASE z[i] \in {"CODE_BLOCK"} \X (0..(m - 1))
      <4>1. z[i][1] = "CODE_BLOCK" /\ z[i][2] + 1 \in 1..m
        BY <3>3
      <4>2. QED
        BY <1>1, <4>1 DEF Piece
    <3>4. QED
      BY <3>1, <3>2, <3>3 DEF Fenced
  <2>2. SamePieces(z, C, z, B)
    BY <2>1 DEF SamePieces
  <2>3. QED
    BY <2>2, RestoreSame
<1>10. QED
  BY <1>6, <1>7, <1>8, <1>9 DEF z, C, key

\* The scan has taken the text u and is outside of fences; what it has so far,
\* translated and restored, is w.
Taking(u, x, B, w) ==
    /\ u \in Seq(Letters) /\ w \in Seq(Atoms)
    /\ B \in Seq(Seq(Letters)) /\ x \in Seq(Fenced(PlainLetters, Len(B)))
    /\ Taken(u) = State(x, B, <<>>)
    /\ Restore(Translated(x), B) = w

\* What the scan has of a plain document is a text with its code stashed.
LEMMA FencedLetters ==
  ASSUME NEW B \in Seq(Seq(Letters))
  PROVE  /\ Len(B) \in Nat /\ B \in Seq(Seq(Atoms))
         /\ Fenced(PlainLetters, Len(B)) \subseteq Stashed(Letters)
         /\ \A x \in Seq(Fenced(PlainLetters, Len(B))) : x \in Seq(Stashed(Letters))
<1>1. Len(B) \in Nat
  OBVIOUS
<1>2. Seq(Letters) \subseteq Seq(Atoms)
  BY PlainAtoms, SeqMonotonic
<1>3. B \in Seq(Seq(Atoms))
  <2> DEFINE X == Seq(Letters)
             Y == Seq(Atoms)
  <2>1. B \in Seq(X) /\ X \subseteq Y
    BY <1>2
  <2> HIDE DEF X, Y
  <2>2. B \in Seq(Y)
    BY <2>1, SeqMonotonic
  <2>3. QED
    BY <2>2 DEF Y
<1>4. Fenced(PlainLetters, Len(B)) \subseteq Stashed(Letters)
  <2> DEFINE m == Len(B)
  <2>1. m \in Nat
    BY <1>1
  <2> HIDE DEF m
  <2>2. 0..(m - 1) \subseteq Nat
    BY <2>1
  <2>3. Fenced(PlainLetters, m) \subseteq Stashed(Letters)
    BY <2>2, PlainAtoms DEF Fenced, Stashed
  <2>4. QED
    BY <2>3 DEF m
<1> DEFINE S == Fenced(PlainLetters, Len(B))
<1> HIDE DEF S
<1>5. \A x \in Seq(S) : x \in Seq(Stashed(Letters))
  BY <1>4, SeqMonotonic DEF S
<1>6. QED
  BY <1>1, <1>3, <1>4, <1>5 DEF S

\* Text without code goes on in what the scan has.
LEMMA TakingPlain ==
  ASSUME NEW u, NEW x, NEW B, NEW w, Taking(u, x, B, w), NEW v \in Seq(PlainLetters)
  PROVE  Taking(u \o v, x \o v, B, w \o Translated(v))
<1> DEFINE m == Len(B)
           S == Fenced(PlainLetters, m)
<1>1. /\ u \in Seq(Letters) /\ w \in Seq(Atoms) /\ B \in Seq(Seq(Letters)) /\ x \in Seq(S)
      /\ Taken(u) = State(x, B, <<>>) /\ Restore(Translated(x), B) = w
  BY DEF Taking
<1>2. m \in Nat /\ B \in Seq(Seq(Atoms)) /\ x \in Seq(Stashed(Letters))
  BY <1>1, FencedLetters
<1>3. v \in Seq(Unfenced) /\ v \in Seq(Letters) /\ v \in Seq(S)
  <2>1. PlainLetters \subseteq Unfenced /\ PlainLetters \subseteq Letters /\ PlainLetters \subseteq S
    BY DEF PlainLetters, Unfenced, Fenced
  <2> HIDE DEF S
  <2>2. QED
    BY <2>1, SeqMonotonic
<1>4. Taken(u \o v) = State(x \o v, B, <<>>)
  BY <1>1, <1>2, <1>3, TakenPlain
<1>5. /\ Translated(v) \in Seq(Atoms)
      /\ Restore(Translated(x \o v), B) = w \o Translated(v)
  BY <1>1, <1>2, RestoredMore
<1> DEFINE y == x \o v
           z == Translated(v)
<1>6. y \in Seq(S)
  <2> HIDE DEF S
  <2>1. QED
    BY <1>1, <1>3, ConcatProperties
<1>7. u \o v \in Seq(Letters)
  BY <1>1, <1>3, ConcatProperties
<1>8. w \o z \in Seq(Atoms)
  <2> HIDE DEF z
  <2>1. z \in Seq(Atoms)
    BY <1>5 DEF z
  <2>2. QED
    BY <1>1, <2>1, ConcatProperties
<1>9. QED
  BY <1>1, <1>4, <1>5, <1>6, <1>7, <1>8 DEF Taking

\* A text between fences is one key more.
LEMMA TakingFence ==
  ASSUME NEW u, NEW x, NEW B, NEW w, Taking(u, x, B, w), NEW v \in Seq(Unfenced),
         NEW c, c = <<Fence>> \o v \o <<Fence>>
  PROVE  /\ c \in Seq(Letters)
         /\ Taking(u \o c, Append(x, CodeBlockKey(Len(B))), Append(B, c), w \o c)
<1> DEFINE m == Len(B)
           S == Fenced(PlainLetters, m)
           T == Fenced(PlainLetters, m + 1)
           key == CodeBlockKey(m)
           C == Append(B, c)
           y == Append(x, key)
<1>1. /\ u \in Seq(Letters) /\ w \in Seq(Atoms) /\ B \in Seq(Seq(Letters)) /\ x \in Seq(S)
      /\ Taken(u) = State(x, B, <<>>) /\ Restore(Translated(x), B) = w
  BY DEF Taking
<1>2. m \in Nat /\ B \in Seq(Seq(Atoms)) /\ x \in Seq(Stashed(Letters))
  BY <1>1, FencedLetters
<1>3. c \in Seq(Letters) /\ c \in Seq(Atoms)
  <2>1. v \in Seq(Letters) /\ <<Fence>> \in Seq(Letters)
    BY PlainAtoms, SeqMonotonic
  <2>2. c \in Seq(Letters)
    BY <2>1, ConcatProperties
  <2>3. QED
    BY <2>2, PlainAtoms, SeqMonotonic
<1>4. Taken(u \o c) = State(y, C, <<>>)
  BY <1>1, TakenFence
<1>5. Restore(Translated(y), C) = w \o c
  BY <1>1, <1>2, <1>3, RestoredKey
<1>6. C \in Seq(Seq(Letters)) /\ Len(C) = m + 1
  <2> DEFINE Y == Seq(Letters)
  <2>1. B \in Seq(Y) /\ c \in Y
    BY <1>1, <1>3
  <2> HIDE DEF Y
  <2>2. C \in Seq(Y) /\ Len(C) = m + 1
    BY <2>1, Appended
  <2>3. QED
    BY <2>2 DEF Y
<1>7. y \in Seq(T)
  <2>1. key \in T
    BY <1>2 DEF CodeBlockKey, Fenced
  <2>2. S \subseteq T
    BY <1>2 DEF Fenced
  <2> HIDE DEF S, T, key
  <2>3. x \in Seq(T)
    BY <1>1, <2>2, SeqMonotonic
  <2>4. QED
    BY <2>1, <2>3
<1>8. u \o c \in Seq(Letters) /\ w \o c \in Seq(Atoms)
  BY <1>1, <1>3, ConcatProperties
<1> HIDE DEF C, y
<1>9. y \in Seq(Fenced(PlainLetters, Len(C)))
  BY <1>6, <1>7
<1>10. Taking(u \o c, y, C, w \o c)
  BY <1>4, <1>5, <1>6, <1>8, <1>9 DEF Taking
<1>11. QED
  BY <1>3, <1>10 DEF C, y

\* The marks around a block are nothing to translate.
LEMMA MarksStay ==
  ASSUME NEW s \in Seq(PlainMarks)
  PROVE  /\ s \in Seq(PlainLetters) /\ s \in Seq(Letters) /\ s \in Seq(Atoms) /\ Translated(s) = s
         /\ \A i \in 1..Len(s) : ~Foreign(s[i])
<1>1. s \in Seq(PlainLetters) /\ s \in Seq(Letters) /\ s \in Seq(Atoms)
  BY PlainAtoms, SeqMonotonic
<1>2. \A i \in 1..Len(s) : s[i] \in PlainMarks
  OBVIOUS
<1>3. \A i \in 1..Len(s) : Rendered(s[i]) = s[i] /\ ~Foreign(s[i])
  BY <1>2, PlainAtoms
<1> DEFINE t == Translated(s)
           n == Len(s)
<1>4. /\ t \in Seq(PlainMarks) /\ Len(t) = n /\ \A i \in 1..n : t[i] = Rendered(s[i])
  BY <1>2, <1>3, TranslatedAt
<1> HIDE DEF t
<1>5. \A i \in 1..n : t[i] = s[i]
  BY <1>3, <1>4
<1>6. n \in Nat /\ Len(t) = n /\ Len(s) = n
  BY <1>4
<1>7. t = s
  <2> HIDE DEF n
  <2>1. QED
    BY <1>4, <1>5, <1>6, SeqEqual
<1>8. QED
  BY <1>1, <1>3, <1>7 DEF t

\* The key a behind the texts x and p, before q.
KeyPlaced(x, p, a, q) == Append(x \o p, a) \o q = x \o (p \o <<a>> \o q)
\* A key between marks is nothing for the walker.
LEMMA KeyAlone ==
  ASSUME NEW k, NEW K, NEW x \in Seq(K), NEW p \in Seq(K), NEW q \in Seq(K), CodeBlockKey(k) \in K
  PROVE  /\ KeyPlaced(x, p, CodeBlockKey(k), q)
         /\ <<CodeBlockKey(k)>> \in Seq(K)
         /\ \A i \in 1..Len(<<CodeBlockKey(k)>>) : ~Foreign(<<CodeBlockKey(k)>>[i])
<1> DEFINE key == CodeBlockKey(k)
           d == <<key>>
<1>1. key \in K /\ ~Foreign(key)
  BY DEF CodeBlockKey, Foreign
<1> HIDE DEF key
<1>2. d \in Seq(K) /\ \A i \in 1..Len(d) : ~Foreign(d[i])
  BY <1>1
<1>3. x \o p \in Seq(K)
  BY ConcatProperties
<1>4. Append(x \o p, key) = (x \o p) \o d
  <2> DEFINE z == x \o p
  <2>1. z \in Seq(K)
    BY <1>3
  <2> HIDE DEF z
  <2>2. Append(z, key) = z \o <<key>>
    BY <1>1, <2>1, AppendIsConcat
  <2>3. QED
    BY <2>2 DEF z
<1> HIDE DEF d
<1>5. x \o (p \o d \o q) = (((x \o p) \o d) \o q)
  <2>1. InTurn(x, p, d, q)
    BY <1>2, FourJoined
  <2>2. QED
    BY <2>1 DEF InTurn
<1>6. QED
  BY <1>2, <1>4, <1>5 DEF key, d, KeyPlaced

\* A block more: its part and the marks around it go on in what the scan has,
\* or the key of its code does.
LEMMA TakingBlock ==
  ASSUME NEW bs \in Seq(PlainBlocks), NEW b \in PlainBlocks,
         NEW u, NEW x, NEW B, NEW w, NEW r, Taking(u, x, B, w), Regions(r, x, bs)
  PROVE  \E y, C, q :
            /\ Taking(u \o Wrote(b, b.text), y, C, w \o Wrote(b, Got(b)))
            /\ Regions(q, y, Append(bs, b))
<1> DEFINE v == Wrote(b, b.text)
           g == Wrote(b, Got(b))
           d == Part(b)
<1>1. PICK pre \in Seq(PlainMarks), post \in Seq(PlainMarks) :
            \/ /\ v = pre \o d \o post
               /\ g = pre \o Translated(d) \o post
            \/ /\ d = <<>>
               /\ \E m \in Seq(Unfenced) :
                     /\ v = pre \o (<<Fence>> \o m \o <<Fence>>) \o post
                     /\ g = pre \o (<<Fence>> \o m \o <<Fence>>) \o post
  BY BlockParts
<1>2. /\ pre \in Seq(PlainLetters) /\ pre \in Seq(Letters) /\ pre \in Seq(Atoms) /\ Translated(pre) = pre
      /\ post \in Seq(PlainLetters) /\ post \in Seq(Letters) /\ post \in Seq(Atoms) /\ Translated(post) = post
      /\ \A i \in 1..Len(pre) : ~Foreign(pre[i])
      /\ \A i \in 1..Len(post) : ~Foreign(post[i])
  BY MarksStay
<1>3. \A c \in PlainBlocks : Part(c) \in Seq(PlainLetters) /\ Translated(Part(c)) \in Seq(Atoms)
  BY PlainParts
<1>4. /\ u \in Seq(Letters) /\ w \in Seq(Atoms) /\ B \in Seq(Seq(Letters))
      /\ x \in Seq(Fenced(PlainLetters, Len(B))) /\ Len(B) \in Nat
  BY FencedLetters DEF Taking
<1>5. ASSUME NEW K, PlainLetters \subseteq K, x \in Seq(K), NEW e \in Seq(K),
             e = d \/ (d = <<>> /\ \A i \in 1..Len(e) : ~Foreign(e[i]))
      PROVE  \E q : Regions(q, x \o (pre \o e \o post), Append(bs, b))
  <2>1. pre \in Seq(K) /\ post \in Seq(K) /\ \A c \in PlainBlocks : Part(c) \in Seq(K)
    BY <1>2, <1>3, <1>5, SeqMonotonic
  <2>2. QED
    BY <1>2, <1>5, <2>1, RegionsGrown
<1> HIDE DEF v, g, d
<1>6. CASE v = pre \o d \o post /\ g = pre \o Translated(d) \o post
  <2>1. d \in Seq(PlainLetters)
    BY <1>3 DEF d
  <2>2. v \in Seq(PlainLetters)
    BY <1>2, <1>6, <2>1, ConcatProperties
  <2>3. Translated(v) = g
    <3> DEFINE a == pre \o d
    <3>1. a \in Seq(PlainLetters)
      BY <1>2, <2>1, ConcatProperties
    <3>2. RendersInto(PlainLetters, Atoms)
      BY RenderedAs DEF PlainLetters, Letters, RendersInto
    <3>3. Translated(a) = pre \o Translated(d)
      <4>1. Apiece(pre, d)
        BY <1>2, <2>1, <3>2, TranslatedJoined
      <4>2. QED
        BY <1>2, <4>1 DEF Apiece
    <3> HIDE DEF a
    <3>4. Translated(a \o post) = Translated(a) \o post
      <4>1. Apiece(a, post)
        BY <1>2, <3>1, <3>2, TranslatedJoined
      <4>2. QED
        BY <1>2, <4>1 DEF Apiece
    <3>5. QED
      BY <1>6, <3>3, <3>4 DEF a
  <2>4. Taking(u \o v, x \o v, B, w \o g)
    BY <2>2, <2>3, TakingPlain
  <2>5. PICK q : Regions(q, x \o v, Append(bs, b))
    <3> DEFINE K == Fenced(PlainLetters, Len(B))
    <3>1. PlainLetters \subseteq K
      BY DEF Fenced
    <3> HIDE DEF K
    <3>2. d \in Seq(K)
      BY <2>1, <3>1, SeqMonotonic
    <3>3. x \in Seq(K)
      BY <1>4 DEF K
    <3>4. QED
      BY <1>5, <1>6, <3>1, <3>2, <3>3
  <2>6. QED
    BY <2>4, <2>5 DEF v, g
<1>7. CASE d = <<>> /\ \E m \in Seq(Unfenced) :
                          /\ v = pre \o (<<Fence>> \o m \o <<Fence>>) \o post
                          /\ g = pre \o (<<Fence>> \o m \o <<Fence>>) \o post
  <2>1. PICK m \in Seq(Unfenced) :
                 /\ v = pre \o (<<Fence>> \o m \o <<Fence>>) \o post
                 /\ g = pre \o (<<Fence>> \o m \o <<Fence>>) \o post
    BY <1>7
  <2> DEFINE c == <<Fence>> \o m \o <<Fence>>
             k == Len(B)
             key == CodeBlockKey(k)
             C == Append(B, c)
             y == Append(x \o pre, key) \o post
             K == Fenced(PlainLetters, k + 1)
  <2>2. v = pre \o c \o post /\ g = pre \o c \o post
    BY <2>1
  <2>3. Taking(u \o pre, x \o pre, B, w \o pre)
    BY <1>2, TakingPlain
  <2>4. c \in Seq(Letters) /\ Taking((u \o pre) \o c, Append(x \o pre, key), C, (w \o pre) \o c)
    BY <2>3, TakingFence
  <2>5. Taking(((u \o pre) \o c) \o post, y, C, ((w \o pre) \o c) \o post)
    BY <1>2, <2>4, TakingPlain
  <2> HIDE DEF c
  <2>6. u \o v = (((u \o pre) \o c) \o post)
    <3>1. InTurn(u, pre, c, post)
      BY <1>2, <1>4, <2>4, FourJoined
    <3>2. QED
      BY <2>2, <3>1 DEF InTurn
  <2>7. w \o g = (((w \o pre) \o c) \o post)
    <3>1. c \in Seq(Atoms)
      BY <2>4, PlainAtoms, SeqMonotonic
    <3>2. InTurn(w, pre, c, post)
      BY <1>2, <1>4, <3>1, FourJoined
    <3>3. QED
      BY <2>2, <3>2 DEF InTurn
  <2>8. Taking(u \o v, y, C, w \o g)
    BY <2>5, <2>6, <2>7
  <2>9. PICK q : Regions(q, y, Append(bs, b))
    <3> DEFINE e == <<key>>
    <3>1. key \in K
      BY <1>4 DEF Fenced, CodeBlockKey
    <3>2. PlainLetters \subseteq K /\ x \in Seq(K)
      <4>1. PlainLetters \subseteq K /\ Fenced(PlainLetters, k) \subseteq K
        BY <1>4 DEF Fenced
      <4> HIDE DEF K
      <4>2. QED
        BY <1>4, <4>1, SeqMonotonic
    <3> HIDE DEF K
    <3>3. pre \in Seq(K) /\ post \in Seq(K)
      BY <1>2, <3>2, SeqMonotonic
    <3>4. y = x \o (pre \o e \o post) /\ e \in Seq(K) /\ \A i \in 1..Len(e) : ~Foreign(e[i])
      <4>1. KeyPlaced(x, pre, key, post) /\ e \in Seq(K) /\ \A i \in 1..Len(e) : ~Foreign(e[i])
        BY <3>1, <3>2, <3>3, KeyAlone
      <4>2. QED
        BY <4>1 DEF KeyPlaced
    <3> HIDE DEF e, y
    <3>5. QED
      BY <1>5, <1>7, <3>2, <3>4
  <2>10. QED
    BY <2>8, <2>9 DEF v, g
<1>8. QED
  BY <1>1, <1>6, <1>7

\* Every plain document has a shape.
LEMMA Shaped ==
  ASSUME NEW blocks \in Seq(PlainBlocks)
  PROVE  \E x, B, r : Taking(SourceOf(blocks), x, B, WantedOf(blocks)) /\ Regions(r, x, blocks)
<1> DEFINE Has(bs) == \E x, B, r : Taking(SourceOf(bs), x, B, WantedOf(bs)) /\ Regions(r, x, bs)
           S == {bs \in Seq(PlainBlocks) : Has(bs)}
<1>1. ASSUME NEW bs \in S, NEW b \in PlainBlocks PROVE Append(bs, b) \in S
  <2>1. bs \in Seq(PlainBlocks) /\ Append(bs, b) \in Seq(PlainBlocks)
    OBVIOUS
  <2>2. PICK x, B, r : Taking(SourceOf(bs), x, B, WantedOf(bs)) /\ Regions(r, x, bs)
    OBVIOUS
  <2>3. /\ SourceOf(Append(bs, b)) = SourceOf(bs) \o Wrote(b, b.text)
        /\ WantedOf(Append(bs, b)) = WantedOf(bs) \o Wrote(b, Got(b))
    BY <2>1, SourceAppended
  <2>4. PICK y, C, q :
            /\ Taking(SourceOf(bs) \o Wrote(b, b.text), y, C, WantedOf(bs) \o Wrote(b, Got(b)))
            /\ Regions(q, y, Append(bs, b))
    BY <2>1, <2>2, TakingBlock
  <2>5. Taking(SourceOf(Append(bs, b)), y, C, WantedOf(Append(bs, b)))
    BY <2>3, <2>4
  <2>6. Has(Append(bs, b))
    BY <2>4, <2>5
  <2> HIDE DEF Has
  <2>7. QED
    BY <2>1, <2>6
<1>2. <<>> \in S
  <2> DEFINE none == <<>>
  <2>1. none \in Seq(PlainBlocks) /\ none \in Seq(Letters) /\ none \in Seq(Seq(Letters)) /\ none \in Seq(Atoms)
        /\ Len(none) = 0 /\ none \in Seq(Fenced(PlainLetters, Len(none)))
    OBVIOUS
  <2>2. Taken(none) = State(none, none, <<>>)
    <3>1. Taken(<<>>) = NoneTaken
      <4>1. \A a \in Letters : Taken(<<>>) = NoneTaken
        BY <2>1, PlainAtoms, TakenAppended
      <4>2. QED
        BY <4>1, PlainAtoms
    <3>2. QED
      BY <3>1 DEF NoneTaken, State
  <2>3. SourceOf(none) = none /\ WantedOf(none) = none
    <3>1. ASSUME NEW b \in PlainBlocks PROVE SourceOf(<<>>) = <<>> /\ WantedOf(<<>>) = <<>>
      BY <2>1, SourceAppended
    <3>2. SourceOf(<<>>) = FlattenSeq(<<>>) /\ WantedOf(<<>>) = FlattenSeq(<<>>)
      BY DEF SourceOf, WantedOf
    <3>3. FlattenSeq(<<>>) = <<>>
      <4> DEFINE o == <<>>
      <4>1. o \in Seq(Seq(Letters)) /\ Len(o) = 0
        OBVIOUS
      <4> HIDE DEF o
      <4>2. \E g \in [0..Len(o) -> Seq(Letters)] : g[0] = <<>> /\ FlattenSeq(o) = g[Len(o)]
        BY <4>1, Flattened
      <4>3. QED
        BY <4>1, <4>2 DEF o
    <3>4. QED
      BY <3>2, <3>3
  <2>4. Restore(Translated(none), none) = none
    <3>1. Translated(none) = none
      BY DEF Translated
    <3>2. Restore(none, none) = FlattenSeq(<<>>)
      BY DEF Restore
    <3>3. FlattenSeq(<<>>) = <<>>
      BY <2>3 DEF SourceOf
    <3>4. QED
      BY <3>1, <3>2, <3>3
  <2>5. Taking(SourceOf(none), none, none, WantedOf(none))
    BY <2>1, <2>2, <2>3, <2>4 DEF Taking
  <2>6. Regions(none, none, none)
    BY DEF Regions
  <2>7. Has(none)
    BY <2>5, <2>6
  <2> HIDE DEF Has
  <2>8. QED
    BY <2>1, <2>7 DEF none
<1>3. S = Seq(PlainBlocks)
  <2>1. S \in SUBSET Seq(PlainBlocks)
    OBVIOUS
  <2> HIDE DEF S
  <2>2. QED
    BY <1>1, <1>2, <2>1, AllTexts
<1>4. QED
  BY <1>3

\* Nothing is stashed of text without spans of code.
LEMMA NoSpans ==
  ASSUME NEW m \in Nat, NEW x \in Seq(Fenced(PlainLetters, m))
  PROVE  StashInline(x, m).text = x /\ StashInline(x, m).spans = <<>>
<1> DEFINE K == Fenced(PlainLetters, m)
           s == StashInline(x, m)
<1>1. \A a \in K : a[1] # "code"
  <2>1. \A k \in 0..(m - 1) : <<"CODE_BLOCK", k>>[1] # "code"
    OBVIOUS
  <2>2. QED
    BY <2>1 DEF Fenced, PlainLetters
<1>2. x \in Seq(K)
  OBVIOUS
<1> HIDE DEF K
<1>3. s \in InlineStates(K, {}) /\ Follows(s, x, m, Len(x))
  BY <1>1, <1>2, InlineStashed
<1> HIDE DEF s
<1>4. s.spans = <<>>
  <2>1. s.spans \in Seq({})
    BY <1>3 DEF InlineStates, Codes
  <2>2. s.spans # <<>> => s.spans[1] \in {}
    BY <2>1
  <2>3. QED
    BY <2>2
<1>5. s.text = x
  <2> DEFINE t == s.text
             J == K \cup ({"INLINE_CODE"} \X Nat)
  <2>1. t \in Seq(J) /\ x \in Seq(J) /\ Len(t) = Len(x)
    <3>1. t \in Seq(J) /\ Len(t) = Len(x)
      BY <1>3 DEF InlineStates, Follows
    <3>2. K \subseteq J
      OBVIOUS
    <3> HIDE DEF t, J
    <3>3. QED
      BY <1>2, <3>1, <3>2, SeqMonotonic
  <2>2. ASSUME NEW i \in 1..Len(x) PROVE t[i] = x[i]
    <3>1. x[i] \in K
      BY <1>2
    <3>2. KeyedAt(s, x, m, i) /\ x[i][1] # "code"
      BY <1>1, <1>3, <3>1 DEF Follows
    <3>3. QED
      BY <3>2 DEF KeyedAt
  <2> HIDE DEF t, J
  <2>3. t = x
    BY <2>1, <2>2, SeqEqual
  <2>4. QED
    BY <2>3 DEF t
<1>6. QED
  BY <1>4, <1>5 DEF s

\* What is stashed of a plain document: the blocks of code the scan has taken.
LEMMA StashShaped ==
  ASSUME NEW u, NEW x, NEW B, NEW w, Taking(u, x, B, w)
  PROVE  Stash(u).text = x /\ Stash(u).originals = B /\ Restore(Translated(x), B) = w
         /\ x \in Seq(Stashed(Letters))
<1> DEFINE m == Len(B)
           K == Fenced(PlainLetters, m)
           fences == StashFences(u)
<1>1. /\ B \in Seq(Seq(Letters)) /\ x \in Seq(K) /\ Taken(u) = State(x, B, <<>>)
      /\ Restore(Translated(x), B) = w
  BY DEF Taking
<1>2. m \in Nat /\ x \in Seq(Stashed(Letters))
  BY <1>1, FencedLetters
<1>3. fences = [text |-> Taken(u).text \o Taken(u).block, blocks |-> Taken(u).blocks]
  BY DEF StashFences, Taken, NoneTaken
<1>4. Taken(u).text = x /\ Taken(u).block = <<>> /\ Taken(u).blocks = B
  BY <1>1 DEF State
<1>5. x \o <<>> = x
  BY <1>1, ConcatEmptySeq
<1>6. fences.text = x /\ fences.blocks = B
  BY <1>3, <1>4, <1>5
<1> HIDE DEF fences
<1> DEFINE inline == StashInline(x, m)
<1>7. inline.text = x /\ inline.spans = <<>>
  BY <1>1, <1>2, NoSpans
<1> HIDE DEF inline
<1>8. Stash(u).text = inline.text /\ Stash(u).originals = B \o [i \in DOMAIN inline.spans |-> <<inline.spans[i]>>]
  BY <1>6 DEF Stash, fences, inline
<1>9. [i \in DOMAIN inline.spans |-> <<inline.spans[i]>>] = <<>>
  BY <1>7
<1>10. B \o <<>> = B
  <2> DEFINE Y == Seq(Letters)
  <2>1. B \in Seq(Y)
    BY <1>1
  <2> HIDE DEF Y
  <2>2. QED
    BY <2>1, ConcatEmptySeq
<1>11. QED
  BY <1>1, <1>2, <1>7, <1>8, <1>9, <1>10

-----------------------------------------------------------------------------
(* A plain document is translated in place. *)

\* Before a line are marks, and at the top of the document none.
MarksInv ==
    \A i \in 1..Len(input) :
        /\ input[i].first \in Seq(PlainMarks) /\ input[i].rest \in Seq(PlainMarks)
        /\ input[i].within = <<"root">> => input[i].first = <<>> /\ input[i].rest = <<>>

\* The containers around a line give it its marks.
LEMMA MarksPlain ==
  ASSUME nest \in Seq(Levels), nest[1].kind = "root", NEW first \in BOOLEAN
  PROVE  /\ Marks(first) \in Seq(PlainMarks)
         /\ Len(nest) = 1 => Marks(first) = <<>>
<1> DEFINE n == Len(nest)
           Of(level) == CASE level.kind = "quote" -> <<Mark(">")>>
                          [] level.kind = "item" ->
                               <<IF first /\ level.children = 0 THEN Mark("-") ELSE Indent>>
                          [] level.kind \notin {"quote", "item"} -> <<>>
           f == [i \in DOMAIN nest |-> Of(nest[i])]
           M == Seq(PlainMarks)
<1>1. n \in Nat /\ DOMAIN nest = 1..n
  BY LenProperties
<1>2. <<Mark(">")>> \in M /\ <<Mark("-")>> \in M /\ <<Indent>> \in M /\ <<>> \in M
  BY PlainAtoms
<1>3. Marks(first) = FlattenSeq(f)
  BY DEF Marks
<1>4. n = 1 => f[1] = <<>>
  BY <1>1
<1> HIDE DEF f, n, M
<1>5. ASSUME NEW level PROVE Of(level) \in M
  <2>1. CASE level.kind = "quote"
    BY <1>2, <2>1
  <2>2. CASE level.kind = "item"
    BY <1>2, <2>2
  <2>3. CASE level.kind \notin {"quote", "item"}
    BY <1>2, <2>3
  <2>4. QED
    BY <2>1, <2>2, <2>3
<1> HIDE DEF Of
<1>6. f \in [1..n -> M]
  BY <1>1, <1>5 DEF f
<1>7. FlattenSeq(f) \in M
  BY <1>1, <1>6, FlattenTyped DEF M
<1>8. n = 1 => FlattenSeq(f) = <<>>
  <2> HAVE n = 1
  <2>1. f \in Seq(Seq(PlainMarks)) /\ Len(f) = 1
    <3>1. f \in Seq(M)
      BY <1>1, <1>6, SeqDef
    <3>2. QED
      BY <1>6, <3>1, LenProperties DEF M
  <2>2. PICK g \in [0..Len(f) -> M] :
           /\ g[0] = <<>> /\ \A i \in 1..Len(f) : g[i] = g[i - 1] \o f[i]
           /\ FlattenSeq(f) = g[Len(f)]
    BY <2>1, Flattened DEF M
  <2>3. g[1] = g[0] \o f[1]
    <3>1. 1 \in 1..Len(f) /\ 1 - 1 = 0
      BY <2>1
    <3>2. g[1] = g[1 - 1] \o f[1]
      BY <2>2, <3>1
    <3>3. QED
      BY <3>1, <3>2
  <2>4. QED
    BY <1>4, <2>1, <2>2, <2>3
<1>9. QED
  BY <1>3, <1>7, <1>8 DEF n, M

\* So has a block more.
LEMMA MarksKept ==
  ASSUME DocumentInv, input \in Seq(SourceBlocks), MarksInv, NEW b \in Blocks, ParseBlock(b),
         input' \in Seq(SourceBlocks)
  PROVE  MarksInv'
<1> DEFINE within == [i \in DOMAIN nest |-> nest[i].kind]
           new == [kind |-> b.kind, text |-> b.text, atx |-> b.atx,
                   first |-> Marks(TRUE), rest |-> Marks(FALSE), within |-> within]
           m == Len(input)
<1>1. nest \in Seq(Levels) /\ nest[1].kind = "root"
  BY DEF DocumentInv, TypeInv, WalkInv
<1>2. /\ Marks(TRUE) \in Seq(PlainMarks) /\ Marks(FALSE) \in Seq(PlainMarks)
      /\ Len(nest) = 1 => Marks(TRUE) = <<>> /\ Marks(FALSE) = <<>>
  BY <1>1, MarksPlain
<1>3a. DOMAIN within = DOMAIN nest
  OBVIOUS
<1> HIDE DEF within
<1>3. within = <<"root">> => Len(nest) = 1
  <2> HAVE within = <<"root">>
  <2> DEFINE k == Len(nest)
  <2>1. DOMAIN within = 1..k /\ k \in Nat
    BY <1>1, <1>3a
  <2>2. DOMAIN <<"root">> = {1}
    OBVIOUS
  <2> HIDE DEF k
  <2>3. 1..k = {1}
    BY <2>1, <2>2
  <2>4. k = 1
    BY <2>1, <2>3
  <2>5. QED
    BY <2>4 DEF k
<1>4. input' = Append(input, new)
  BY DEF ParseBlock, within
<1>5. /\ new.first = Marks(TRUE) /\ new.rest = Marks(FALSE) /\ new.within = within
  OBVIOUS
<1> HIDE DEF new
<1>6. /\ m \in Nat /\ Len(input') = m + 1 /\ (\A i \in 1..m : input'[i] = input[i])
      /\ input'[m + 1] = new
  <2>1. IsSequence(input)
    BY DEF DocumentInv, TypeInv
  <2> DEFINE e == new
             X == {input[i] : i \in DOMAIN input} \cup {e}
  <2>2. input \in Seq(X)
    <3>1. {input[i] : i \in DOMAIN input} \subseteq X
      OBVIOUS
    <3> DEFINE Y == {input[i] : i \in DOMAIN input}
    <3>2. input \in Seq(Y) /\ Y \subseteq X
      BY <2>1 DEF IsSequence
    <3> HIDE DEF X, Y
    <3>3. QED
      BY <3>2, SeqMonotonic
  <2>3. e \in X
    OBVIOUS
  <2> HIDE DEF X
  <2>4. QED
    BY <1>4, <2>2, <2>3, Appended
<1> HIDE DEF m
<1>7. ASSUME NEW i \in 1..(m + 1)
      PROVE  /\ input'[i].first \in Seq(PlainMarks) /\ input'[i].rest \in Seq(PlainMarks)
             /\ input'[i].within = <<"root">> => input'[i].first = <<>> /\ input'[i].rest = <<>>
  <2>1. CASE i = m + 1
    BY <1>2, <1>3, <1>5, <1>6, <2>1
  <2>2. CASE i # m + 1
    <3>1. i \in 1..m
      BY <1>6, <2>2
    <3>2. QED
      BY <1>6, <3>1 DEF MarksInv, m
  <2>3. QED
    BY <2>1, <2>2
<1>8. QED
  BY <1>6, <1>7 DEF MarksInv

\* The blocks of a plain document.
LEMMA PlainInput ==
  ASSUME input \in Seq(SourceBlocks), MarksInv, Plain
  PROVE  input \in Seq(PlainBlocks)
<1> DEFINE n == Len(input)
<1>1. n \in Nat /\ DOMAIN input = 1..n /\ input \in [1..n -> SourceBlocks]
  OBVIOUS
<1>2. ASSUME NEW i \in 1..n PROVE input[i] \in PlainBlocks
  <2>1. input[i] \in SourceBlocks
    <3> HIDE DEF n
    <3>1. QED
      BY <1>1
  <2>2. /\ input[i].kind # "indented" /\ ~HasKind(input[i].text, "fence")
        /\ Translatable(input[i]) => ~HasKind(input[i].text, "code")
        /\ HasKind(input[i].text, "nl") => input[i].within = <<"root">>
    BY <1>1 DEF Plain
  <2>3. QED
    BY <2>1, <2>2 DEF PlainBlocks, MarksInv
<1> HIDE DEF n
<1>3. input \in [1..n -> PlainBlocks]
  BY <1>1, <1>2
<1>4. QED
  BY <1>1, <1>3, SeqDef

\* Its source and what is to become of it.
LEMMA SourceWritten ==
  /\ Source = SourceOf(input)
  /\ Emitted(LAMBDA b : IF Translatable(b) THEN Translated(b.text) ELSE b.text, input) = WantedOf(input)
<1>1. Source = SourceOf(input)
  BY DEF Source, Emitted, SourceOf, Wrote, Ended, LineOf
<1>2. Emitted(LAMBDA b : IF Translatable(b) THEN Translated(b.text) ELSE b.text, input) = WantedOf(input)
  BY DEF Emitted, WantedOf, Wrote, Ended, LineOf, Got
<1>3. QED
  BY <1>1, <1>2

\* The words of the rules are words the rules leave alone.
LEMMA BlocksSteady ==
  ASSUME input \in Seq(SourceBlocks), NEW r, NEW s, Regions(r, s, input)
  PROVE  Steady(s)
<1> SUFFICES ASSUME NEW p \in 1..Len(s) PROVE Rendered(Rendered(s[p])) = Rendered(s[p])
  BY DEF Steady
<1>1. CASE ~Foreign(s[p])
  BY <1>1, RenderedAs
<1>2. CASE Foreign(s[p])
  <2>1. PICK i \in 1..Len(input) : r[i] <= p /\ p < r[i] + Len(Part(input[i]))
    BY <1>2 DEF Regions
  <2> DEFINE w == Part(input[i])
             j == p - r[i] + 1
  <2>2. input[i] \in SourceBlocks
    OBVIOUS
  <2>3. PICK b \in Blocks : input[i].text = b.text
    BY <2>2 DEF SourceBlocks, SourceTexts
  <2>4. w = b.text \/ w = <<>>
    BY <2>3 DEF Part
  <2>5. Lies(w, s, r[i]) /\ b.text \in Seq(Atoms) /\ Len(w) \in Nat
    BY <2>4, DocumentAssumption DEF Regions
  <2>6. j \in 1..Len(w) /\ r[i] + j - 1 = p
    BY <2>1, <2>5 DEF Lies
  <2> HIDE DEF j
  <2>7. s[p] = w[j]
    BY <2>5, <2>6 DEF Lies
  <2>8. w = b.text
    BY <2>4, <2>6
  <2>9. j \in DOMAIN b.text
    BY <2>5, <2>6, <2>8
  <2>10. s[p] = b.text[j]
    BY <2>7, <2>8
  <2> HIDE DEF w
  <2>11. CASE s[p][1] = "cjk"
    <3>1. Rendered(s[p]) = Rule(s[p]) /\ Rule(s[p]) \in Terms
      BY <2>9, <2>10, <2>11, DocumentAssumption DEF Rendered
    <3>2. LET a == Rule(s[p]) IN a[1] = "cjk" => Rule(a) = a
      BY <2>9, <2>10, <2>11, RuleAssumption
    <3>3. Rule(s[p])[1] # "full"
      BY <3>1 DEF Terms
    <3>4. QED
      BY <3>1, <3>2, <3>3 DEF Rendered
  <2>12. CASE s[p][1] = "full"
    BY <2>12 DEF Rendered, Half
  <2>13. QED
    BY <1>2, <2>11, <2>12 DEF Foreign
<1>3. QED
  BY <1>1, <1>2

\* What the translation of a plain document rests on: every block has its
\* place in the stashed source, which translated and restored is what it is to
\* become.
PlainShape(r) ==
    LET s == Stash(Source) IN
    /\ Regions(r, s.text, input) /\ Steady(s.text) /\ s.text \in Seq(Stashed(Atoms))
    /\ Restore(Translated(s.text), s.originals) = WantedOf(input)
    /\ \A i \in 1..Len(input) :
         LET w == Part(input[i]) IN
         /\ w \in Seq(Stashed(Atoms)) /\ Translated(w) \in Seq(Stashed(Atoms)) /\ Len(w) \in Nat
         /\ \A j \in DOMAIN w : w[j][1] # "code"

\* Every plain document rests on it.
LEMMA PlainShaped ==
  ASSUME input \in Seq(SourceBlocks), MarksInv, Plain
  PROVE  \E r : PlainShape(r)
<1> DEFINE s == Stash(Source)
<1>1. input \in Seq(PlainBlocks)
  BY PlainInput
<1>2. PICK x, B, r : Taking(SourceOf(input), x, B, WantedOf(input)) /\ Regions(r, x, input)
  BY <1>1, Shaped
<1>3. /\ s.text = x /\ s.originals = B /\ Restore(Translated(x), B) = WantedOf(input)
      /\ x \in Seq(Stashed(Letters))
  BY <1>2, SourceWritten, StashShaped
<1>4. Steady(x)
  BY <1>2, BlocksSteady
<1>5. x \in Seq(Stashed(Atoms))
  <2>1. Stashed(Letters) \subseteq Stashed(Atoms)
    BY PlainAtoms DEF Stashed
  <2>2. QED
    BY <1>3, <2>1, SeqMonotonic
<1>6. ASSUME NEW i \in 1..Len(input), NEW w, w = Part(input[i])
      PROVE  /\ w \in Seq(Stashed(Atoms)) /\ Translated(w) \in Seq(Stashed(Atoms)) /\ Len(w) \in Nat
             /\ \A j \in DOMAIN w : w[j][1] # "code"
  <2>1. input[i] \in PlainBlocks
    BY <1>1
  <2>2. w \in Seq(PlainLetters) /\ Translated(w) \in Seq(Atoms)
    BY <1>6, <2>1, PlainParts
  <2>3. PlainLetters \subseteq Stashed(Atoms) /\ Atoms \subseteq Stashed(Atoms)
    BY PlainAtoms DEF Stashed
  <2>4. w \in Seq(Stashed(Atoms)) /\ Translated(w) \in Seq(Stashed(Atoms))
    BY <2>2, <2>3, SeqMonotonic
  <2>5. \A a \in PlainLetters : a[1] # "code"
    BY DEF PlainLetters
  <2>6. QED
    BY <2>2, <2>4, <2>5
<1> HIDE DEF s
<1>7. PlainShape(r)
  BY <1>2, <1>3, <1>4, <1>5, <1>6 DEF PlainShape, s
<1>8. QED
  BY <1>7

\* While a plain document is translated its leaves so far are, each at its
\* place; then all of it.
PlainInv ==
    /\ MarksInv
    /\ phase = "translate" /\ Plain =>
         \E r : PlainShape(r) /\ Turned(text, Stash(Source).text, Done(r))
    /\ phase = "restore" /\ Leaves # {} /\ Plain => text = Translated(Stash(Source).text)
    /\ PlainTranslatedInPlace

\* None of this changes when the document and its map do not.
LEMMA PlainStays ==
  ASSUME UNCHANGED <<input, nodes>>, MarksInv
  PROVE  /\ MarksInv' /\ Plain' = Plain
         /\ \A r : PlainShape(r)' = PlainShape(r)
         /\ \A r : next' = next => Done(r)' = Done(r)
<1>1. MarksInv' /\ Plain' = Plain
  BY DEF MarksInv, Plain, HasKind, Translatable
<1>2. Source' = Source /\ Stash(Source)' = Stash(Source) /\ Leaves' = Leaves
  BY SourceStays
<1>3. ASSUME NEW r PROVE PlainShape(r)' = PlainShape(r)
  BY <1>2 DEF PlainShape
<1>4. ASSUME NEW r, next' = next PROVE Done(r)' = Done(r)
  BY <1>2, <1>4 DEF Done, Place
<1>5. QED
  BY <1>1, <1>3, <1>4

\* The translation starts with no leaf done.
LEMMA PlainStarts ==
  ASSUME DocumentInv, LeafInv, TextInv, PlainInv, EndOfDocument
  PROVE  PlainInv'
<1>1. /\ UNCHANGED <<input, nodes>> /\ phase = "parse" /\ phase' = "translate" /\ next' = next
      /\ text' = Stash(Source).text
  BY DEF EndOfDocument, document, smap
<1>2. /\ MarksInv /\ MarksInv' /\ Plain' = Plain /\ Stash(Source)' = Stash(Source)
      /\ \A r : PlainShape(r)' = PlainShape(r)
      /\ \A r : Done(r)' = Done(r)
  BY <1>1, PlainStays, SourceStays DEF PlainInv
<1>3. ASSUME Plain
      PROVE  \E r : PlainShape(r) /\ Turned(Stash(Source).text, Stash(Source).text, Done(r))
  <2>1. PICK r : PlainShape(r)
    BY <1>2, <1>3, PlainShaped DEF TextInv
  <2>2. next = 1 /\ Leaves \subseteq Nat \ {0}
    <3>1. next = 1 /\ nodes \in Seq(NodeRecords)
      BY <1>1 DEF LeafInv, PhaseInv, DocumentInv, TypeInv
    <3>2. Leaves \subseteq DOMAIN nodes
      BY DEF Leaves
    <3>3. QED
      BY <3>1, <3>2
  <2>3. {m \in Leaves : m < next} = {}
    <3>1. \A m \in Nat \ {0} : ~(m < 1)
      OBVIOUS
    <3>2. QED
      BY <2>2, <3>1
  <2>4. Done(r) = {}
    BY <2>3 DEF Done
  <2>5. Turned(Stash(Source).text, Stash(Source).text, {})
    BY DEF Turned
  <2>6. QED
    BY <2>1, <2>4, <2>5
<1>4. Plain' => \E r : PlainShape(r)' /\ Turned(text', Stash(Source)'.text, Done(r)')
  BY <1>1, <1>2, <1>3
<1>5. QED
  BY <1>1, <1>2, <1>4 DEF PlainInv, PlainTranslatedInPlace

\* A leaf is translated at its place.
LEMMA PlainGoesOn ==
  ASSUME DocumentInv, LeafInv, TextInv, PlainInv, TranslateLeaf
  PROVE  PlainInv'
<1>1. PICK k \in Leaves : IsNext(k, Leaves) /\ text' = Placed(nodes[k]) /\ next' = k + 1
  BY DEF TranslateLeaf
<1>2. UNCHANGED <<input, nodes>> /\ phase = "translate" /\ phase' = "translate"
  BY DEF TranslateLeaf, document, smap
<1>3. /\ MarksInv /\ MarksInv' /\ Plain' = Plain /\ Stash(Source)' = Stash(Source)
      /\ \A r : PlainShape(r)' = PlainShape(r)
      /\ Leaves' = Leaves
  BY <1>2, PlainStays, SourceStays DEF PlainInv
<1>4. /\ input \in Seq(SourceBlocks) /\ Len(input) \in Nat /\ text \in Seq(Stashed(Atoms))
  BY <1>1, <1>2 DEF TextInv
<1>5. Leaves \subseteq Nat /\ next \in Nat
  <2>1. nodes \in Seq(NodeRecords) /\ next \in 1..(Len(nodes) + 1)
    BY DEF DocumentInv, TypeInv
  <2>2. Leaves \subseteq DOMAIN nodes
    BY DEF Leaves
  <2>3. QED
    BY <2>1, <2>2
<1>6. ASSUME Plain
      PROVE  \E r : PlainShape(r)' /\ Turned(text', Stash(Source)'.text, Done(r)')
  <2>1. PICK r : PlainShape(r) /\ Turned(text, Stash(Source).text, Done(r))
    BY <1>2, <1>6 DEF PlainInv
  <2> DEFINE s == Stash(Source).text
             S == Stashed(Atoms)
             b == nodes[k].block
  <2>2. LeavesInOrder
    BY <1>2, <1>4, <1>6, ClosedLeaves
  <2>3. /\ Regions(r, s, input) /\ Steady(s) /\ s \in Seq(S)
        /\ \A i \in 1..Len(input) : Len(Part(input[i])) \in Nat
    BY <2>1 DEF PlainShape
  <2>4. b \in 1..Len(input) /\ nodes[k].text = Part(input[b])
    BY <1>1, <2>2 DEF LeavesInOrder
  <2>5. /\ nodes[k].text \in Seq(S) /\ Translated(nodes[k].text) \in Seq(S)
        /\ \A i \in DOMAIN nodes[k].text : nodes[k].text[i][1] # "code"
    BY <2>1, <2>4 DEF PlainShape
  <2>6. Turned(text, s, Done(r)) /\ text \in Seq(S)
    BY <1>4, <2>1
  <2> HIDE DEF s, S
  <2>7. Turned(Placed(nodes[k]), s, Done(r) \cup Place(r, nodes[k].block))
    BY <1>1, <1>4, <1>5, <2>2, <2>3, <2>5, <2>6, LeafInPlace
  <2>8. Done(r)' = Done(r) \cup Place(r, nodes[k].block)
    <3>1. {m \in Leaves : m < next'} = {m \in Leaves : m < next} \cup {k}
      <4>1. ASSUME NEW m \in Leaves PROVE m < k + 1 <=> (m < next \/ m = k)
        <5>1. k >= next /\ (m >= next => k <= m)
          BY <1>1 DEF IsNext
        <5>2. m \in Nat /\ k \in Nat /\ next \in Nat
          BY <1>5
        <5>3. QED
          BY <5>1, <5>2
      <4>2. QED
        BY <1>1, <4>1
    <3>2. Done(r)' = UNION {Place(r, nodes[n].block) : n \in {m \in Leaves : m < next'}}
      BY <1>2, <1>3 DEF Done, Place
    <3>3. QED
      BY <3>1, <3>2 DEF Done
  <2>9. PlainShape(r)' /\ Stash(Source)'.text = s
    BY <1>3, <2>1 DEF s
  <2>10. Turned(text', Stash(Source)'.text, Done(r)')
    BY <1>1, <2>7, <2>8, <2>9
  <2>11. QED
    BY <2>9, <2>10
<1>7. QED
  BY <1>2, <1>3, <1>6 DEF PlainInv, PlainTranslatedInPlace

\* Then everything is translated.
LEMMA PlainEnds ==
  ASSUME DocumentInv, LeafInv, TextInv, PlainInv, LeavesDone \/ TranslateWhole
  PROVE  PlainInv'
<1>1. UNCHANGED <<input, nodes>> /\ phase = "translate" /\ phase' = "restore"
  BY DEF LeavesDone, TranslateWhole, document, smap
<1>2. MarksInv /\ MarksInv' /\ Plain' = Plain /\ Stash(Source)' = Stash(Source)
  BY <1>1, PlainStays, SourceStays DEF PlainInv
<1>3. CASE TranslateWhole
  <2>1. Leaves' = {}
    BY <1>1, <1>3, SourceStays DEF TranslateWhole
  <2>2. QED
    BY <1>1, <1>2, <2>1 DEF PlainInv, PlainTranslatedInPlace
<1>4. CASE LeavesDone
  <2>1. Leaves # {} /\ input \in Seq(SourceBlocks) /\ Len(input) \in Nat
        /\ text \in Seq(Stashed(Atoms))
    BY <1>1, <1>4 DEF LeavesDone, TextInv
  <2>2. ASSUME Plain PROVE text' = Translated(Stash(Source).text)
    <3>1. PICK r : PlainShape(r) /\ Turned(text, Stash(Source).text, Done(r))
      BY <1>1, <2>2 DEF PlainInv
    <3>2. LeavesInOrder
      BY <1>1, <2>1, <2>2, ClosedLeaves
    <3> DEFINE s == Stash(Source).text
    <3>3. /\ Regions(r, s, input) /\ s \in Seq(Stashed(Atoms))
          /\ \A i \in 1..Len(input) : Len(Part(input[i])) \in Nat
      BY <3>1 DEF PlainShape
    <3>4. Turned(text, s, Done(r))
      BY <3>1
    <3> HIDE DEF s
    <3>5. NoNext(Leaves) /\ text' = text
      BY <1>4 DEF LeavesDone
    <3>6. text = Translated(s)
      BY <2>1, <3>2, <3>3, <3>4, <3>5, AllInPlace
    <3>7. QED
      BY <3>5, <3>6 DEF s
  <2>3. QED
    BY <1>1, <1>2, <2>2 DEF PlainInv, PlainTranslatedInPlace
<1>5. QED
  BY <1>3, <1>4

\* And the code is back.
LEMMA PlainRestored ==
  ASSUME TextInv, PlainInv, RestoreCode
  PROVE  PlainInv'
<1>1. /\ UNCHANGED <<input, nodes>> /\ phase = "restore" /\ phase' = "rewrite"
      /\ text' = Restore(text, originals)
  BY DEF RestoreCode, document, smap
<1>2. MarksInv /\ MarksInv' /\ Plain' = Plain
  BY <1>1, PlainStays DEF PlainInv
<1>0. Leaves' = Leaves
  BY <1>1, SourceStays
<1>8. CASE Leaves = {}
  BY <1>0, <1>1, <1>2, <1>8 DEF PlainInv, PlainTranslatedInPlace
<1> SUFFICES ASSUME Leaves # {} PROVE PlainInv'
  BY <1>8
<1>3. input \in Seq(SourceBlocks) /\ originals = Stash(Source).originals
  BY <1>1 DEF TextInv
<1> DEFINE wanted == Emitted(LAMBDA b : IF Translatable(b) THEN Translated(b.text) ELSE b.text, input)
<1>4. ASSUME Plain PROVE text' = wanted
  <2>1. PICK r : PlainShape(r)
    BY <1>2, <1>3, <1>4, PlainShaped
  <2>2. Restore(Translated(Stash(Source).text), Stash(Source).originals) = WantedOf(input)
    BY <2>1 DEF PlainShape
  <2>3. text = Translated(Stash(Source).text)
    BY <1>1, <1>4 DEF PlainInv
  <2>4. wanted = WantedOf(input)
    BY SourceWritten
  <2> HIDE DEF wanted
  <2>5. QED
    BY <1>1, <1>3, <2>2, <2>3, <2>4
<1>5. wanted' = wanted
  BY <1>1 DEF Emitted, LinesOf, Translatable, Translated, Rendered
<1>6. Plain' => text' = wanted'
  BY <1>2, <1>4, <1>5
<1>7. QED
  BY <1>1, <1>2, <1>6 DEF PlainInv, PlainTranslatedInPlace

\* PlainInv holds before every step.
THEOREM PlainInvariant == Spec => []PlainInv
<1>1. Init => PlainInv
  <2> SUFFICES ASSUME Init PROVE PlainInv
    OBVIOUS
  <2>1. phase = "parse" /\ Len(input) = 0
    BY DEF Init
  <2>2. MarksInv
    BY <2>1 DEF MarksInv
  <2>3. QED
    BY <2>1, <2>2 DEF PlainInv, PlainTranslatedInPlace
<1>2. DocumentInv /\ LeafInv /\ TextInv /\ TextInv' /\ PlainInv /\ [Next]_vars => PlainInv'
  <2> SUFFICES ASSUME DocumentInv, LeafInv, TextInv, TextInv', PlainInv, [Next]_vars PROVE PlainInv'
    OBVIOUS
  <2>1. ASSUME NEW b \in Blocks, ParseBlock(b) PROVE PlainInv'
    <3>1. input \in Seq(SourceBlocks) /\ input' \in Seq(SourceBlocks) /\ MarksInv
      BY DEF TextInv, PlainInv
    <3>2. MarksInv'
      BY <2>1, <3>1, MarksKept
    <3>3. phase' = "parse"
      BY <2>1 DEF ParseBlock
    <3>4. QED
      BY <3>2, <3>3 DEF PlainInv, PlainTranslatedInPlace
  <2>2. CASE (\E c \in Containers : Open(c)) \/ Close
    <3>1. input' = input /\ phase' = "parse"
      BY <2>2 DEF Open, Close
    <3>2. MarksInv'
      BY <3>1 DEF PlainInv, MarksInv
    <3>3. QED
      BY <3>1, <3>2 DEF PlainInv, PlainTranslatedInPlace
  <2>3. CASE EndOfDocument
    BY <2>3, PlainStarts
  <2>4. CASE TranslateLeaf
    BY <2>4, PlainGoesOn
  <2>5. CASE LeavesDone \/ TranslateWhole
    BY <2>5, PlainEnds
  <2>6. CASE RestoreCode
    BY <2>6, PlainRestored
  <2>7. CASE NormalizeAnchors \/ BindHeading \/ RewriteAnchors
    <3>1. input' = input /\ phase' \in {"bind", "done"}
      BY <2>7 DEF NormalizeAnchors, BindHeading, RewriteAnchors, document
    <3>2. MarksInv'
      BY <3>1 DEF PlainInv, MarksInv
    <3>3. QED
      BY <3>1, <3>2 DEF PlainInv, PlainTranslatedInPlace
  <2>8. CASE UNCHANGED vars
    <3>1. UNCHANGED <<input, nodes, phase, text, next>>
      BY <2>8 DEF vars, document, smap
    <3>2. /\ MarksInv' /\ Plain' = Plain /\ Stash(Source)' = Stash(Source)
          /\ \A r : PlainShape(r)' = PlainShape(r)
          /\ \A r : Done(r)' = Done(r)
      BY <3>1, PlainStays, SourceStays DEF PlainInv
    <3> DEFINE wanted == Emitted(LAMBDA b : IF Translatable(b) THEN Translated(b.text) ELSE b.text, input)
    <3>3. wanted' = wanted
      BY <3>1 DEF Emitted, LinesOf, Translatable, Translated, Rendered
    <3>4. phase' = "translate" /\ Plain' =>
             \E r : PlainShape(r)' /\ Turned(text', Stash(Source)'.text, Done(r)')
      BY <3>1, <3>2 DEF PlainInv
    <3>0. Leaves' = Leaves
      BY <3>1, SourceStays
    <3>5. phase' = "restore" /\ Leaves' # {} /\ Plain' => text' = Translated(Stash(Source)'.text)
      BY <3>0, <3>1, <3>2 DEF PlainInv, Translated
    <3>6. phase' = "rewrite" /\ Leaves' # {} /\ Plain' => text' = wanted'
      BY <3>0, <3>1, <3>2, <3>3 DEF PlainInv, PlainTranslatedInPlace
    <3>7. QED
      BY <3>2, <3>4, <3>5, <3>6 DEF PlainInv, PlainTranslatedInPlace
  <2>9. QED
    BY <2>1, <2>2, <2>3, <2>4, <2>5, <2>6, <2>7, <2>8 DEF Next
<1>3. QED
  BY <1>1, <1>2, DocumentInvariant, LeafInvariant, TextInvariant, PTL DEF Spec

\* Of a plain document, whatever its blocks, its containers and its words,
\* every leaf is translated in its place and nothing else is changed, although
\* the place is searched for.
THEOREM PlainInPlace == Spec => []PlainTranslatedInPlace
<1>1. PlainInv => PlainTranslatedInPlace
  BY DEF PlainInv
<1>2. QED
  BY <1>1, PlainInvariant, PTL
=============================================================================
