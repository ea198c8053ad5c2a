-------------------------- MODULE MCModuleRegistry --------------------------
EXTENDS ModuleRegistryProps

Dir(s, t, p, u, g) == [src |-> s, tgt |-> t, pad |-> p, upper |-> u, tight |-> g]
Language(n, d) == [name |-> n, kind |-> "language", direction |-> d,
                   complete |-> TRUE, style |-> "profile"]

MCLangs == {"zh", "en", "fr", "de"}

\* Two modules of one direction that differ in case, two in outer blanks, one
\* with a tight arrow and a name in use, a domain module, and the ones register
\* refuses.
MCModules ==
    {ZHEN,
     Language("zh2", Dir("zh", "en", FALSE, FALSE, FALSE)),
     Language("fr", Dir("fr", "en", TRUE, TRUE, FALSE)),
     Language("fr2", Dir("fr", "en", FALSE, TRUE, FALSE)),
     Language("fr", Dir("fr", "de", FALSE, FALSE, TRUE)),
     Language("nowhere", NoDirection),
     [Language("style", NoDirection) EXCEPT !.kind = "domain"],
     [Language("bare", Dir("fr", "de", FALSE, TRUE, FALSE)) EXCEPT !.style = "none"]}

MCValues ==
    {[sep |-> "-", src |-> "zh", tgt |-> "en"],
     [sep |-> "->", src |-> "fr", tgt |-> "en"],
     [sep |-> "-", src |-> "fr", tgt |-> "de"],
     [sep |-> "", src |-> "fr", tgt |-> ""]}
=============================================================================
