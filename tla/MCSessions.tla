----------------------------- MODULE MCSessions -----------------------------
EXTENDS SessionsProps

Lv(spelt, level) == [spelt |-> spelt, level |-> level]

MCConfigs ==
    {[complete |-> TRUE, level |-> Lv("full", "L2_PROFESSIONAL"), outside |-> {}],
     [complete |-> TRUE, level |-> Lv("full", "L3_STRICT"), outside |-> {"audit_trace"}]}

MCOverrides == {Lv("none", ""), Lv("alias", "L4_FORENSIC"), Lv("full", "L3_STRICT"),
                Lv("other", "l3_strict")}

\* The last one is a command without --lang.
MCPairs == {[sep |-> "-", src |-> "zh", tgt |-> "en"], [sep |-> "", src |-> "zh", tgt |-> ""],
            [sep |-> "none", src |-> "", tgt |-> ""]}

Case(level, zero, readable) == [level |-> level, zero_blocking |-> zero, readable |-> readable]

MCSuites ==
    {<<Case("L3_STRICT", TRUE, TRUE), Case("L2_PROFESSIONAL", TRUE, TRUE)>>,
     <<Case("L2_PROFESSIONAL", FALSE, FALSE)>>,
     <<Case("L2_PROFESSIONAL", TRUE, FALSE)>>}
=============================================================================
