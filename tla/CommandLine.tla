---------------------------- MODULE CommandLine -----------------------------
(* What the command line (tra_cli.py) and the configuration (config.py) make *)
(* of the values a user types.  A value is a record of what the conversions  *)
(* look at: a level's spelling, the separator and sides of a language pair,  *)
(* whether a path resolves inside the base directory.                        *)
EXTENDS Integers

\* A text without an arrow, or the empty one, has no source language.
NoDirection == [src |-> "", tgt |-> "", pad |-> FALSE, upper |-> FALSE, tight |-> FALSE]

\* A --lang value is refused without a separator or with an empty side, and is
\* otherwise written in upper case with blanks around the arrow.
NormalizePair(v) ==
    IF v.sep = "" \/ v.src = "" \/ v.tgt = "" THEN NoDirection
    ELSE [src |-> v.src, tgt |-> v.tgt, pad |-> FALSE, upper |-> TRUE, tight |-> FALSE]

\* Only a --lang value is normalised and can be refused: without one, or with
\* an empty one, the pair of the configuration is used as it is written there.
\* The separator "none" says that there is none to look at.
PairRefused(v) == v.sep # "none" /\ NormalizePair(v) = NoDirection

BadLevel == "bad"

\* The full name exactly, or L1..L4 in any case and with outer blanks.
ResolveLevel(v) == IF v.spelt \in {"full", "alias"} THEN v.level ELSE BadLevel

PathFields == {"cache_directory", "compilation_dir", "audit_trace"}

\* from_yaml: the required keys are there, the level is spelt in full, and no
\* path leaves base_dir.
ConfigLoads(c) ==
    /\ c.complete
    /\ c.level.spelt = "full"
    /\ \A f \in PathFields : f \notin c.outside

\* The level a command runs at: the override if there is one.
EffectiveLevel(c, override) ==
    IF override.spelt = "none" THEN c.level.level ELSE ResolveLevel(override)
=============================================================================
