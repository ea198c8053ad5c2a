--------------------------- MODULE MCSegmentCache ---------------------------
(* Instances of SegmentCache for TLC.                                       *)
EXTENDS SegmentCacheProps, TLC

CONSTANTS p1, p2, s1, s2, t1, t2, zh_en, plugin, other, m1, a1, become, hold

\* Two modules with the same mappings in another order, and one with fewer.
OrderedMappings ==
  [m \in Modules |-> IF m = zh_en THEN <<become, hold>>
                     ELSE IF m = plugin THEN <<hold, become>> ELSE <<hold>>]

\* One source whose tokens differ with the rules and with the order of the
\* mappings, one that leaves none.
OneSource  == {s1}
TwoSources == {s1, s2}
UnknownTokens ==
  [left \in Sources \X Modules \X {OrderedMappings[m] : m \in Modules} |->
     IF left[1] = s2 THEN <<>>
     ELSE IF left[2] = zh_en /\ left[3][1] = hold THEN <<t1, t2>> ELSE <<t2>>]

\* Without a cache only one kernel: it meets no other.
FewKernels == {k \in Configurations : k.cached \/ (k.module = plugin /\ ~k.llm)}

\* Two interchangeable processes.
Interchangeable == Permutations({p1, p2})
=============================================================================
