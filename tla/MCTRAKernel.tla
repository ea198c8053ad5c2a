---------------------------- MODULE MCTRAKernel -----------------------------
(* Instances of TRAKernel for TLC: one issue of each interesting subsystem  *)
(* and the configurations and documents a run is to cover.                  *)
EXTENDS TRAKernelProps, TLC

CONSTANTS fence, entity, term

\* Two issues repair_segment has no rewrite for and one it has.
SmallIssues == {fence, entity, term}
SmallSubsystem == (fence :> "structural") @@ (entity :> "entity") @@ (term :> "terminology")

\* One level without the gate and the forensic one with it (L1 takes the
\* branches of L2, and L3 those of L4 with two artifacts less); no retry
\* budget and one with room to spare; both flags.
KernelConfigs == [level : {"L2_PROFESSIONAL", "L4_FORENSIC"},
                  repair_max_retries : {0, 2},
                  interactive : BOOLEAN, force_unrecoverable : BOOLEAN]

\* For termination: no budget, one that is used up by the first attempt and
\* one with room to spare, each with and without a reviewer.
LoopConfigs == [level : {"L2_PROFESSIONAL", "L4_FORENSIC"},
                repair_max_retries : {0, 1, 2},
                interactive : BOOLEAN, force_unrecoverable : BOOLEAN]

AllRequests == [malformed : BOOLEAN, fenced : BOOLEAN, linked : BOOLEAN, llm : BOOLEAN]

KernelRequests == {r \in AllRequests : r.malformed => r.llm /\ r.linked /\ r.fenced}

\* A document that cannot be analysed, a plain one for the rules, and one with
\* code and links for a callback.
LoopRequests == {r \in AllRequests : /\ r.fenced = r.llm /\ r.linked = r.llm
                                     /\ r.malformed => r.llm}

NoRaise == {}
AllRaise == {"BUILD_GLOSSARY", "BUILD_ENTITY_TABLE", "VERIFY_OUTPUT"}
=============================================================================
