------------------------- MODULE MCFindingsRegister -------------------------
EXTENDS FindingsRegisterProps

As(word, as) == [word |-> word, as |-> as]
Text(cites, marker) == [cites |-> cites, marker |-> marker]

\* An issue of the round with a plain severity whose title and detail cite
\* nothing, then what differs.
Plainest(track, n, level) ==
    [form |-> "own", header |-> "colon", n |-> n, track |-> track, mention |-> 0,
     title |-> Text(0, FALSE), detail |-> Text(0, FALSE), severity |-> Plain(level),
     label |-> "previous", status |-> {"persistent"}, type |-> Plain("issue")]
Root(level) == [Plainest("r", 1, level) EXCEPT !.form = "root"]
Bare(n) == [Plainest("d", n, "WARNING") EXCEPT !.header = "bare", !.title = Text(1, FALSE)]
Probe == [Plainest("d", 0, "INFO") EXCEPT !.form = "none", !.header = "dash",
                                         !.title = Text(0, TRUE)]

MCFindings ==
    {Root("INFO"),
     [Root("INFO") EXCEPT !.severity = As("BLOCKING", "more")],
     [Plainest("a", 1, "BLOCKING") EXCEPT !.title = Text(1, FALSE)],
     [Plainest("b", 1, "INFO") EXCEPT !.title = Text(0, TRUE), !.status = {"fixed", "verified"},
        !.severity = As("WARNING", "glued"), !.type = As("positive_verification", "more")],
     [Plainest("a", 2, "WARNING") EXCEPT !.detail = Text(1, FALSE), !.label = "older",
        !.status = {"new", "new-regression"}],
     [Plainest("c", 3, "INFO") EXCEPT !.form = "other_round", !.label = "none",
        !.severity = As("other", "plain"), !.detail = Text(0, TRUE), !.type = As("issue", "case")]}

\* The track r comes first, and no track gives two findings one id.
\* Then files whose headers do not give their titles: a dash, no prefix, with
\* the id written elsewhere or not, before a probe or another finding.
MCTrackFiles ==
    {<<f>> : f \in MCFindings}
    \cup {s \in MCFindings \X MCFindings : s[1].track # s[2].track}
    \cup {s \in MCFindings \X MCFindings \X MCFindings :
            s[1].track # s[2].track /\ s[2].track # s[3].track /\ s[1].track # s[3].track}
    \cup {<<Root("INFO"), Bare(1)>>, <<Root("INFO"), Bare(1), Bare(2)>>,
          <<Root("INFO"), Bare(1), Probe>>,
          <<Probe, [Bare(1) EXCEPT !.mention = 1], Bare(2)>>,
          <<Root("INFO"), [Bare(1) EXCEPT !.header = "dash"], Bare(2)>>,
          <<Bare(1), [Bare(2) EXCEPT !.header = "dash", !.mention = 1]>>,
          <<[Root("INFO") EXCEPT !.track = "d"], [Bare(2) EXCEPT !.mention = 1]>>}
=============================================================================
