--------------------------- MODULE MCDocumentText ---------------------------
EXTENDS DocumentTextProps

Link(n) == <<LinkTo, Cjk(n), LinkEnd>>
Block(kind, t) == [kind |-> kind, text |-> t, atx |-> TRUE]

\* Words 1 and 2 translate alike, word 3 is unknown to the rules.
MCRule(w) == CASE w[2] = 1 -> En(1) [] w[2] = 2 -> En(1) [] OTHER -> w

MCBlocks ==
    {Block("heading", <<Cjk(1)>>), Block("heading", <<Cjk(2)>>),
     Block("heading", <<Cjk(1), Num(1)>>), Block("heading", <<Cjk(3)>>),
     Block("heading", <<Cjk(1), Full(1), Cjk(3)>>),
     [Block("heading", <<Cjk(3), Full(1), Cjk(1)>>) EXCEPT !.atx = FALSE],
     Block("paragraph", <<Cjk(1)>>),
     Block("paragraph", <<Num(1), Full(0), Cjk(3), Nl, Num(2), Stop, Cjk(1)>>),
     Block("paragraph", Link(1) \o <<LinkTo, Cjk(1), Cjk(3), LinkEnd>>), Block("paragraph", <<Cjk(1), Code(1), Code(2)>>),
     Block("row", <<Code(3)>>), Block("row", <<Cjk(3), Cjk(2)>>),
     Block("fence", <<Cjk(1), Nl, Hash, Cjk(2)>>), Block("fence", Link(1)),
     Block("indented", <<Cjk(1)>>), Block("hr", <<>>)}
=============================================================================
