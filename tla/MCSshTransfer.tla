---------------------------- MODULE MCSshTransfer ----------------------------
EXTENDS SshTransferProps, SequencesExt

\* Options in any order, also where a value is missing or is a flag itself.
MCOptions ==
    {Glued("p", Num(2222)), Glued("p", Name("x")), Flag("p"), Word(Num(23)),
     Glued("o", Opt("SendEnv", <<"A">>)), Flag("o"),
     Word(Opt("sendenv", <<"A", "B">>)), Glued("l", Name("bob")), Flag("i"),
     Word(Name("")), Verbose(1), Standalone("q")}

MCTails ==
    {<<>>,
     <<Word(Host(None, "h", "plain", 0))>>,
     <<Word(Host("git", "h", "port", 24)), Word(Command("ok"))>>,
     <<Word(Host(None, "h", "badport", 0)), Word(Command("open"))>>,
     <<Word(Host(None, "", "plain", 0)), Word(Command("ok"))>>,
     <<Word(Host(None, "h", "plain", 0)), Word(Command("empty"))>>,
     <<Word(Host("ann", "h", "plain", 0)), Word(Name("a")), Flag("p")>>}

MCArgvs == {o \o t : o \in BoundedSeq(MCOptions, 3), t \in MCTails}

\* A single well-formed list, for the runs about the transfer alone.
MCOneArgv == {<<Word(Host("git", "h", "plain", 0)), Word(Command("ok"))>>}

MCLocalEnv == {"A", "B"}
MCOutBlocks == [s \in Streams |-> IF s = "stdout" THEN 2 ELSE 1]
=============================================================================
