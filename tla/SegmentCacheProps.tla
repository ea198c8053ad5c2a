-------------------------- MODULE SegmentCacheProps --------------------------
(***************************************************************************)
(* What the cache must not change about a run, and what the documents say   *)
(* of it that the code does not keep.                                      *)
(***************************************************************************)
EXTENDS SegmentCache

Records == {Translated(id, d) : id \in EvidenceIds, d \in BOOLEAN}
             \cup {UnknownTerm(t) : t \in Tokens}

Results == [source : Sources, translation : Translations]

\* Every variable has the type of the Python value it stands for.
TypeOK ==
  /\ kernel \in [Processes -> Kernels]
  /\ pending \in [Processes -> SUBSET Sources]
  /\ store \in [Keys -> SUBSET Entries]
  /\ \A key \in Keys : \A e, f \in store[key] : e = f
  /\ audit \in [Processes -> Seq(Records)]
  /\ register \in [Processes -> SUBSET Tokens]
  /\ evidence \in [Processes -> SUBSET EvidenceIds]
  /\ results \in [Processes -> Seq(Results)]

-----------------------------------------------------------------------------
(* What holds. *)

RuleBased(p) == ~kernel[p].llm

\* The glossary under which the rules of a run without LLM work, and those a
\* key does not tell from it.
OwnGlossary(p) == Glossary[kernel[p].module]
SameMappings(content) == {g \in Glossaries : SetOf(g) = content}

\* A run without LLM gets for every segment what the rules make of it under the
\* mappings of its own glossary, in the order of some module that has the same,
\* whoever stored the entry it hit, whatever LLM or module that process used, and
\* whatever was deleted in between (cache.py: identical context).
RuleOutputsSound ==
  \A p \in Processes : RuleBased(p) =>
    \A i \in 1..Len(results[p]) : \E g \in SameMappings(SetOf(OwnGlossary(p))) :
      results[p][i].translation = RuleTranslate(results[p][i].source, DefaultModule, g)

\* The tokens the rule path leaves in a text it made.
UnknownIn(translation) == Unknown[<<translation.source, DefaultModule, translation.glossary>>]

\* The invariant behind it: what is stored under a key of the rule path is what
\* the rule path makes of its source under a glossary with the mappings of the
\* key, with the side effects of doing so.
RuleEntriesSound ==
  \A s \in Sources, content \in Contents : \A entry \in store[<<s, content, "rule-based">>] :
    \E g \in SameMappings(content) :
      LET target == RuleTranslate(s, DefaultModule, g) IN
      entry = EntryOf(target, "rule-based", UnknownIn(target))

\* Where a trail notes a token, and which results have it among their unknowns.
RecordsOfTerm(seq, t) == {i \in 1..Len(seq) : seq[i] = UnknownTerm(t)}
ResultsWithTerm(seq, t) ==
  {i \in 1..Len(seq) : t \in SetOf(UnknownIn(seq[i].translation))}

\* Each token left unknown in a text a rule-based run got is on its trail, once
\* per segment, hit or miss (TRA-A7-001: warm runs lost these records).
UnknownTermsOnTrail ==
  \A p \in Processes : RuleBased(p) =>
    \A t \in Tokens :
      Cardinality(RecordsOfTerm(audit[p], t)) = Cardinality(ResultsWithTerm(results[p], t))

\* Where a trail notes a translation, and the how manieth of them is at k.
RecordsOf(seq) == {k \in 1..Len(seq) : seq[k].isa = "TRANSLATE_SEGMENT"}
Rank(seq, k) == Cardinality({j \in RecordsOf(seq) : j <= k})

\* The i-th TRANSLATE_SEGMENT record is that of the i-th result and cites the
\* evidence of exactly that text (TRA-015: a degraded call left two records).
OneRecordPerResult ==
  \A p \in Processes :
    /\ Cardinality(RecordsOf(audit[p])) = Len(results[p])
    /\ \A k \in RecordsOf(audit[p]) : \A id \in audit[p][k].chain :
         id.target = results[p][Rank(audit[p], k)].translation

\* The inductive invariant behind the first, and what the trails add to it: an
\* entry cites the evidence of its own text, whoever stored it.
CacheInv == TypeOK /\ RuleEntriesSound /\ RuleOutputsSound
EntriesCite ==
  \A key \in Keys : \A entry \in store[key] : entry.id.target = entry.translation

-----------------------------------------------------------------------------
(* What is said of the cache and the translation and is not so. *)

\* translate_segment: identical context gives byte-identical output.  Without LLM
\* it would be what the rules make of the segment under the run's own glossary.
RuleOutputsReproducible ==
  \A p \in Processes : RuleBased(p) =>
    \A i \in 1..Len(results[p]) :
      results[p][i].translation
        = RuleTranslate(results[p][i].source, DefaultModule, OwnGlossary(p))

\* It is when no two modules have the same mappings in another order.
OrderTold == \A g, h \in Glossaries : SetOf(g) = SetOf(h) => g = h

\* TRA-SPECIFICATION.md: an unknown term is added to unresolved_ambiguities.
UnknownTermsNoted ==
  \A p \in Processes : RuleBased(p) =>
    \A i \in 1..Len(results[p]) :
      SetOf(UnknownIn(results[p][i].translation)) \subseteq register[p]

\* _log_unknown_cjk: each token it notes gets an audit record.
NotedTermsRecorded ==
  \A p \in Processes : \A t \in register[p] :
    \E i \in 1..Len(audit[p]) : audit[p][i] = UnknownTerm(t)

\* The comment of TRA-015: the record of a degraded segment says so.
DegradationFlagged ==
  \A p \in Processes : kernel[p].llm =>
    \A i \in 1..Len(audit[p]) : \A id \in audit[p][i].chain :
      id.basis = "degraded" => audit[p][i].degraded

\* diagnostics.py: two runs of identical source leave identical trails.
TrailReproducible ==
  \A p, q \in Processes :
    /\ kernel[p] = kernel[q] /\ RuleBased(p)
    /\ results[p] = results[q]
    => audit[p] = audit[q]

\* diagnostics.py: every decision on the trail is traceable to its evidence.
EvidenceResolves ==
  \A p \in Processes : \A i \in 1..Len(audit[p]) : audit[p][i].chain \subseteq evidence[p]

\* tra-prototype/README.md: the model identity feeds the cache key.
ModelFeedsKey ==
  \A p \in Processes : \A i \in 1..Len(results[p]) :
    results[p][i].translation.by \in Models => results[p][i].translation.by = kernel[p].model

\* SKILL.md: the selected module is read by every ISA function.
SelectedModuleTranslates ==
  \A p \in Processes : \A i \in 1..Len(results[p]) :
    results[p][i].translation.by \in Modules => results[p][i].translation.by = kernel[p].module

\* The same of two runs with the same configuration, with or without LLM.
IdenticalOutput ==
  \A p, q \in Processes :
    kernel[p] = kernel[q] /\ kernel[p].cached =>
      \A i \in 1..Len(results[p]), j \in 1..Len(results[q]) :
        results[p][i].source = results[q][j].source =>
          results[p][i].translation = results[q][j].translation
=============================================================================
