-------------------------- MODULE SegmentCacheProofs --------------------------
(***************************************************************************)
(* Theorems about SegmentCache for every number of processes, segments,     *)
(* modules and models and every behaviour of the LLM.                      *)
(***************************************************************************)
EXTENDS SegmentCacheProps, SequenceTheorems, FiniteSetTheorems, TLAPS

-----------------------------------------------------------------------------
(* Types of what a call computes. *)

LEMMA TranslationTypes ==
  /\ \A s \in Sources, m \in Modules, g \in Glossaries : RuleTranslate(s, m, g) \in Translations
  /\ \A s \in Sources, m \in Models, g \in Glossaries, a \in Answers :
       LLMTranslate(s, m, g, a) \in Translations
  BY DEF RuleTranslate, LLMTranslate, Translations

LEMMA UnknownTypes ==
  ASSUME NEW s \in Sources, NEW m \in Modules, NEW g \in Glossaries
  PROVE  /\ Unknown[<<s, m, g>>] \in Seq(Tokens)
         /\ SetOf(Unknown[<<s, m, g>>]) \subseteq Tokens
<1>1. Unknown[<<s, m, g>>] \in Seq(Tokens)
  BY CacheAssumption
<1>2. QED
  BY <1>1 DEF SetOf

\* The glossary of a kernel, and what the rule path makes under it.
LEMMA KernelTypes ==
  ASSUME NEW k \in Kernels
  PROVE  /\ k.module \in Modules /\ k.model \in Models
         /\ Glossary[k.module] \in Glossaries
         /\ Glossary[k.module] \in SameMappings(SetOf(Glossary[k.module]))
<1>1. k \in Configurations
  BY CacheAssumption
<1>2. k.module \in Modules /\ k.model \in Models
  BY <1>1 DEF Configurations
<1>3. QED
  BY <1>2 DEF Glossaries, SameMappings

LEMMA RuleTexts ==
  ASSUME NEW s, NEW g
  PROVE  UnknownIn(RuleTranslate(s, DefaultModule, g)) = Unknown[<<s, DefaultModule, g>>]
  BY DEF UnknownIn, RuleTranslate

LEMMA RecordTypes ==
  /\ \A id \in EvidenceIds, d \in BOOLEAN : Translated(id, d) \in Records
  /\ \A id \in EvidenceIds, d \in BOOLEAN : <<Translated(id, d)>> \in Seq(Records)
  /\ \A tokens \in Seq(Tokens) : UnknownTerms(tokens) \in Seq(Records)
<1>1. \A id \in EvidenceIds, d \in BOOLEAN : Translated(id, d) \in Records
  BY DEF Records
<1>2. ASSUME NEW tokens \in Seq(Tokens)
      PROVE  UnknownTerms(tokens) \in Seq(Records)
  <2>1. Len(tokens) \in Nat /\ \A i \in 1..Len(tokens) : UnknownTerm(tokens[i]) \in Records
    BY DEF Records
  <2>2. \A i \in 1..Len(tokens) : UnknownTerms(tokens)[i] \in Records
    BY <2>1 DEF UnknownTerms
  <2>3. UnknownTerms(tokens) \in [1..Len(tokens) -> Records]
    BY <2>1 DEF UnknownTerms
  <2>4. QED
    BY <2>1, <2>3
<1>3. QED
  BY <1>1, <1>2

LEMMA KeyTypes == \A k \in Kernels, s \in Sources : KeyOf(k, s) \in Keys
<1> SUFFICES ASSUME NEW k \in Kernels, NEW s \in Sources PROVE KeyOf(k, s) \in Keys
  OBVIOUS
<1>1. SetOf(Glossary[k.module]) \in Contents
  BY KernelTypes DEF Contents
<1>2. QED
  BY <1>1 DEF KeyOf, Keys

\* The keys of the rule path belong to kernels without LLM, and only to them.
LEMMA RuleKeys ==
  \A k, s, r, c : KeyOf(k, s) = <<r, c, "rule-based">>
                    <=> s = r /\ SetOf(Glossary[k.module]) = c /\ ~k.llm
  BY DEF KeyOf

-----------------------------------------------------------------------------
(* The invariant. *)

\* An entry of the rule path for s, a result of it, under some glossary in question.
IsRuleEntry(entry, s, g) ==
  LET target == RuleTranslate(s, DefaultModule, g) IN
  entry = EntryOf(target, "rule-based", UnknownIn(target))

IsRuleOutput(p, result) ==
  \E g \in SameMappings(SetOf(OwnGlossary(p))) :
    result.translation = RuleTranslate(result.source, DefaultModule, g)

\* What a kernel without LLM finds in the cache.
LEMMA StoredByRules ==
  ASSUME TypeOK, RuleEntriesSound, NEW p \in Processes, RuleBased(p), NEW s \in Sources,
         NEW entry \in store[KeyOf(kernel[p], s)]
  PROVE  \E g \in SameMappings(SetOf(OwnGlossary(p))) : IsRuleEntry(entry, s, g)
<1>1. KeyOf(kernel[p], s) = <<s, SetOf(OwnGlossary(p)), "rule-based">>
  BY RuleKeys, Zenon DEF RuleBased, OwnGlossary
<1>2. SetOf(OwnGlossary(p)) \in Contents
  BY KernelTypes DEF TypeOK, OwnGlossary, Contents
<1>3. QED
  BY <1>1, <1>2 DEF RuleEntriesSound, IsRuleEntry

LEMMA CacheInit == Init => CacheInv
  BY DEF Init, CacheInv, TypeOK, RuleEntriesSound, RuleOutputsSound, Keys

\* A completed miss keeps the invariant if what it stores and returns is well
\* typed and, without LLM, is what the rules make of the source.
LEMMA CompleteStep ==
  ASSUME CacheInv, NEW p \in Processes, NEW s \in Sources, NEW target \in Translations,
         NEW basis \in Bases, NEW before \in Seq(Records), NEW effects \in Seq(Tokens),
         Complete(p, s, target, basis, before, effects),
         register' \in [Processes -> SUBSET Tokens],
         RuleBased(p) =>
           /\ target = RuleTranslate(s, DefaultModule, OwnGlossary(p))
           /\ basis = "rule-based"
           /\ effects = UnknownIn(target)
  PROVE  CacheInv'
<1> USE DEF CacheInv
<1> DEFINE id == EvidenceId(target, basis)
           entry == EntryOf(target, basis, effects)
           key == KeyOf(kernel[p], s)
<1>1. id \in EvidenceIds /\ entry \in Entries
  BY DEF EvidenceId, EvidenceIds, EntryOf, Entries
<1>2. key \in Keys
  BY KeyTypes DEF TypeOK
<1>3. kernel' = kernel
  BY DEF Complete
<1>4. /\ store' \in [Keys -> SUBSET Entries]
      /\ \A k \in Keys : store'[k] = store[k] \/ (k = key /\ store'[k] = {entry})
  BY <1>1, <1>2 DEF Complete, Set, TypeOK
<1>5. TypeOK'
  <2>1. kernel' \in [Processes -> Kernels] /\ register' \in [Processes -> SUBSET Tokens]
    BY <1>3 DEF TypeOK
  <2>2. pending' \in [Processes -> SUBSET Sources]
    BY DEF Complete, TypeOK
  <2>3. evidence' \in [Processes -> SUBSET EvidenceIds]
    BY <1>1 DEF Complete, TypeOK
  <2>4. audit' \in [Processes -> Seq(Records)]
    <3>1. <<Translated(id, basis = "degraded")>> \in Seq(Records)
      BY <1>1, RecordTypes
    <3>2. audit[p] \o before \o <<Translated(id, basis = "degraded")>> \in Seq(Records)
      BY <3>1, ConcatProperties DEF TypeOK
    <3>3. QED
      BY <3>2 DEF Complete, TypeOK
  <2>5. results' \in [Processes -> Seq(Results)]
    <3>1. [source |-> s, translation |-> target] \in Results
      BY DEF Results
    <3>2. QED
      BY <3>1 DEF Complete, Returns, TypeOK
  <2>6. \A k \in Keys : \A e, f \in store'[k] : e = f
    BY <1>4 DEF TypeOK
  <2>7. QED
    BY <1>4, <2>1, <2>2, <2>3, <2>4, <2>5, <2>6 DEF TypeOK
<1>6. RuleEntriesSound'
  <2> SUFFICES ASSUME NEW r \in Sources, NEW c \in Contents,
                      NEW e \in store'[<<r, c, "rule-based">>]
               PROVE  \E g \in SameMappings(c) : IsRuleEntry(e, r, g)
    BY DEF RuleEntriesSound, IsRuleEntry
  <2>1. <<r, c, "rule-based">> \in Keys
    BY DEF Keys
  <2>2. CASE store'[<<r, c, "rule-based">>] = store[<<r, c, "rule-based">>]
    BY <2>2 DEF RuleEntriesSound, IsRuleEntry
  <2>3. CASE <<r, c, "rule-based">> = key /\ store'[<<r, c, "rule-based">>] = {entry}
    <3>1. s = r /\ SetOf(OwnGlossary(p)) = c /\ ~kernel[p].llm
      <4>1. KeyOf(kernel[p], s) = <<r, c, "rule-based">>
        BY <2>3
      <4>2. QED
        BY <4>1, RuleKeys, Zenon DEF OwnGlossary
    <3>2. IsRuleEntry(e, r, OwnGlossary(p))
      BY <2>3, <3>1 DEF RuleBased, IsRuleEntry
    <3>3. OwnGlossary(p) \in SameMappings(c)
      BY <3>1, KernelTypes DEF OwnGlossary, TypeOK
    <3>4. QED
      BY <3>2, <3>3
  <2>4. QED
    BY <1>4, <2>1, <2>2, <2>3
<1>7. RuleOutputsSound'
  <2> SUFFICES ASSUME NEW q \in Processes, ~kernel[q].llm, NEW i \in 1..Len(results'[q])
               PROVE  IsRuleOutput(q, results'[q][i])
    BY <1>3 DEF RuleOutputsSound, RuleBased, IsRuleOutput, OwnGlossary
  <2>1. CASE q = p /\ i = Len(results[p]) + 1
    <3>1. results'[q][i] = [source |-> s, translation |-> target]
      BY <2>1 DEF Complete, Returns, TypeOK
    <3>2. OwnGlossary(p) \in SameMappings(SetOf(OwnGlossary(p)))
      BY KernelTypes DEF OwnGlossary, TypeOK
    <3>3. QED
      BY <2>1, <3>1, <3>2 DEF RuleBased, IsRuleOutput
  <2>2. CASE ~(q = p /\ i = Len(results[p]) + 1)
    <3>1. i \in 1..Len(results[q]) /\ results'[q][i] = results[q][i]
      BY <2>2 DEF Complete, Returns, TypeOK
    <3>2. QED
      BY <3>1 DEF RuleOutputsSound, RuleBased, IsRuleOutput
  <2>3. QED
    BY <2>1, <2>2
<1>8. QED
  BY <1>5, <1>6, <1>7

LEMMA HitStep ==
  ASSUME CacheInv, NEW p \in Processes, NEW s \in Sources, Hit(p, s)
  PROVE  CacheInv'
<1> USE DEF CacheInv
<1> DEFINE key == KeyOf(kernel[p], s)
<1>1. PICK entry \in Get(p, s) :
        /\ audit' = [audit EXCEPT ![p] =
                       @ \o <<Translated(entry.id, FALSE)>> \o UnknownTerms(entry.effects)]
        /\ Returns(p, s, entry.translation)
  BY DEF Hit
<1>2. key \in Keys /\ entry \in store[key]
  BY <1>1, KeyTypes DEF Get, TypeOK
<1>3. entry \in Entries
  BY <1>2 DEF TypeOK
<1>4. UNCHANGED <<kernel, pending, store, register, evidence>>
  BY DEF Hit
<1>5. TypeOK'
  <2>1. audit' \in [Processes -> Seq(Records)]
    <3>1. /\ <<Translated(entry.id, FALSE)>> \in Seq(Records)
          /\ UnknownTerms(entry.effects) \in Seq(Records)
      BY <1>3, RecordTypes DEF Entries
    <3>2. audit[p] \o <<Translated(entry.id, FALSE)>> \o UnknownTerms(entry.effects)
            \in Seq(Records)
      BY <3>1, ConcatProperties DEF TypeOK
    <3>3. QED
      BY <1>1, <3>2 DEF TypeOK
  <2>2. results' \in [Processes -> Seq(Results)]
    <3>1. [source |-> s, translation |-> entry.translation] \in Results
      BY <1>3 DEF Results, Entries
    <3>2. QED
      BY <1>1, <3>1 DEF Returns, TypeOK
  <2>3. QED
    BY <1>4, <2>1, <2>2 DEF TypeOK
<1>6. RuleEntriesSound'
  BY <1>4 DEF RuleEntriesSound
<1>7. ~kernel[p].llm => IsRuleOutput(p, [source |-> s, translation |-> entry.translation])
  <2> SUFFICES ASSUME ~kernel[p].llm
               PROVE  IsRuleOutput(p, [source |-> s, translation |-> entry.translation])
    OBVIOUS
  <2>1. PICK g \in SameMappings(SetOf(OwnGlossary(p))) : IsRuleEntry(entry, s, g)
    BY <1>2, StoredByRules DEF RuleBased
  <2>2. entry.translation = RuleTranslate(s, DefaultModule, g)
    BY <2>1 DEF IsRuleEntry, EntryOf
  <2>3. QED
    BY <2>1, <2>2 DEF IsRuleOutput
<1>8. RuleOutputsSound'
  <2> SUFFICES ASSUME NEW q \in Processes, ~kernel[q].llm, NEW i \in 1..Len(results'[q])
               PROVE  IsRuleOutput(q, results'[q][i])
    BY <1>4 DEF RuleOutputsSound, RuleBased, IsRuleOutput, OwnGlossary
  <2>1. CASE q = p /\ i = Len(results[p]) + 1
    <3>1. results'[q][i] = [source |-> s, translation |-> entry.translation]
      BY <1>1, <2>1 DEF Returns, TypeOK
    <3>2. QED
      BY <1>7, <2>1, <3>1
  <2>2. CASE ~(q = p /\ i = Len(results[p]) + 1)
    <3>1. i \in 1..Len(results[q]) /\ results'[q][i] = results[q][i]
      BY <1>1, <2>2 DEF Returns, TypeOK
    <3>2. QED
      BY <3>1 DEF RuleOutputsSound, RuleBased, IsRuleOutput
  <2>3. QED
    BY <2>1, <2>2
<1>9. QED
  BY <1>5, <1>6, <1>8

LEMMA CacheStep == CacheInv /\ [Next]_vars => CacheInv'
<1> SUFFICES ASSUME CacheInv, [Next]_vars PROVE CacheInv'
  OBVIOUS
<1> USE DEF CacheInv
<1>1. CASE UNCHANGED vars
  BY <1>1 DEF vars, TypeOK, RuleEntriesSound, RuleOutputsSound, RuleBased, OwnGlossary
<1>2. CASE \E p \in Processes : Boot(p)
  <2>1. PICK p \in Processes : Boot(p)
    BY <1>2
  <2>2. TypeOK'
    BY <2>1 DEF Boot, TypeOK
  <2>3. RuleEntriesSound'
    BY <2>1 DEF Boot, RuleEntriesSound
  <2>4. RuleOutputsSound'
    <3> SUFFICES ASSUME NEW q \in Processes, RuleBased(q)', NEW i \in 1..Len(results'[q])
                 PROVE  IsRuleOutput(q, results[q][i])'
      BY DEF RuleOutputsSound, IsRuleOutput
    <3>1. q # p
      BY <2>1 DEF Boot, TypeOK
    <3>2. kernel'[q] = kernel[q] /\ results'[q] = results[q]
      BY <2>1, <3>1 DEF Boot, TypeOK
    <3>3. IsRuleOutput(q, results[q][i])
      BY <3>2 DEF RuleOutputsSound, RuleBased, IsRuleOutput
    <3>4. QED
      BY <3>2, <3>3 DEF IsRuleOutput, OwnGlossary
  <2>5. QED
    BY <2>2, <2>3, <2>4
<1>3. CASE \E p \in Processes, s \in Sources : Hit(p, s)
  BY <1>3, HitStep
<1>4. CASE \E p \in Processes, s \in Sources : Miss(p, s)
  <2>1. PICK p \in Processes, s \in Sources : Miss(p, s)
    BY <1>4
  <2>2. UNCHANGED <<kernel, store, audit, register, evidence, results>>
    BY <2>1 DEF Miss, local
  <2>3. pending' \in [Processes -> SUBSET Sources]
    BY <2>1 DEF Miss, TypeOK
  <2>4. TypeOK'
    BY <2>2, <2>3 DEF TypeOK
  <2>5. RuleEntriesSound' /\ RuleOutputsSound'
    BY <2>2 DEF RuleEntriesSound, RuleOutputsSound, RuleBased, OwnGlossary
  <2>6. QED
    BY <2>4, <2>5
<1>5. CASE \E p \in Processes : TranslateByRule(p)
  <2>0. PICK p \in Processes : TranslateByRule(p)
    BY <1>5
  <2>1. PICK s \in pending[p] :
          LET unknown == Unknown[<<s, DefaultModule, OwnGlossary(p)>>] IN
          /\ register' = [register EXCEPT ![p] = @ \cup SetOf(unknown)]
          /\ Complete(p, s, RuleTranslate(s, DefaultModule, OwnGlossary(p)), "rule-based",
                      UnknownTerms(unknown), unknown)
    BY <2>0 DEF TranslateByRule, OwnGlossary
  <2>2. s \in Sources /\ DefaultModule \in Modules /\ OwnGlossary(p) \in Glossaries
    BY CacheAssumption, KernelTypes DEF TypeOK, OwnGlossary
  <2>3. register' \in [Processes -> SUBSET Tokens]
    BY <2>1, <2>2, UnknownTypes DEF TypeOK
  <2>4. "rule-based" \in Bases
    BY DEF Bases
  <2>5. QED
    BY <2>1, <2>2, <2>3, <2>4, CompleteStep, TranslationTypes, UnknownTypes, RecordTypes,
       RuleTexts
<1>6. CASE \E p \in Processes : TranslateByLLM(p)
  <2>0. PICK p \in Processes : TranslateByLLM(p)
    BY <1>6
  <2>1. PICK s \in pending[p], a \in Answers :
          /\ kernel[p].llm /\ UNCHANGED register
          /\ Complete(p, s, LLMTranslate(s, kernel[p].model, OwnGlossary(p), a),
                      "LLM decision", <<>>, <<>>)
    BY <2>0 DEF TranslateByLLM, OwnGlossary
  <2>2. /\ s \in Sources /\ kernel[p].model \in Models /\ OwnGlossary(p) \in Glossaries
        /\ register \in [Processes -> SUBSET Tokens]
    BY KernelTypes DEF TypeOK, OwnGlossary
  <2>3. "LLM decision" \in Bases /\ <<>> \in Seq(Records) /\ <<>> \in Seq(Tokens)
    BY DEF Bases
  <2>4. QED
    BY <2>1, <2>2, <2>3, CompleteStep, TranslationTypes DEF RuleBased
<1>7. CASE \E p \in Processes : Degrade(p)
  <2>0. PICK p \in Processes : Degrade(p)
    BY <1>7
  <2>1. PICK s \in pending[p] :
          LET m == kernel[p].module IN
          /\ kernel[p].llm
          /\ register' = [register EXCEPT ![p] = @ \cup SetOf(Unknown[<<s, m, Glossary[m]>>])]
          /\ Complete(p, s, RuleTranslate(s, m, Glossary[m]), "degraded", <<>>, <<>>)
    BY <2>0 DEF Degrade
  <2>2. /\ s \in Sources /\ kernel[p].module \in Modules
        /\ Glossary[kernel[p].module] \in Glossaries
    BY KernelTypes DEF TypeOK
  <2>3. register' \in [Processes -> SUBSET Tokens]
    BY <2>1, <2>2, UnknownTypes DEF TypeOK
  <2>4. "degraded" \in Bases /\ <<>> \in Seq(Records) /\ <<>> \in Seq(Tokens)
    BY DEF Bases
  <2>5. QED
    BY <2>1, <2>2, <2>3, <2>4, CompleteStep, TranslationTypes DEF RuleBased
<1>8. CASE \E p \in Processes : ConflictRaised(p)
  <2>1. PICK p \in Processes : ConflictRaised(p)
    BY <1>8
  <2>2. UNCHANGED <<kernel, store, audit, register, evidence, results>>
    BY <2>1 DEF ConflictRaised, local
  <2>3. pending' \in [Processes -> SUBSET Sources]
    BY <2>1 DEF ConflictRaised, TypeOK
  <2>4. TypeOK'
    BY <2>2, <2>3 DEF TypeOK
  <2>5. RuleEntriesSound' /\ RuleOutputsSound'
    BY <2>2 DEF RuleEntriesSound, RuleOutputsSound, RuleBased, OwnGlossary
  <2>6. QED
    BY <2>4, <2>5
<1>9. CASE Clear \/ \E key \in Keys : Delete(key)
  <2>1. /\ UNCHANGED <<kernel, pending, local>>
        /\ store' \in [Keys -> SUBSET Entries]
        /\ \A key \in Keys : store'[key] = {} \/ store'[key] = store[key]
    BY <1>9 DEF Clear, Delete, TypeOK
  <2>2. TypeOK'
    BY <2>1 DEF local, TypeOK
  <2>3. RuleEntriesSound'
    <3>1. \A s \in Sources, content \in Contents : <<s, content, "rule-based">> \in Keys
      BY DEF Keys
    <3>2. QED
      BY <2>1, <3>1 DEF RuleEntriesSound
  <2>4. RuleOutputsSound'
    BY <2>1 DEF local, RuleOutputsSound, RuleBased, OwnGlossary
  <2>5. QED
    BY <2>2, <2>3, <2>4
<1>10. QED
  BY <1>1, <1>2, <1>3, <1>4, <1>5, <1>6, <1>7, <1>8, <1>9 DEF Next

-----------------------------------------------------------------------------
\* Entries of the rule path are those of the rule path, whoever wrote them.
THEOREM CacheInvariant == Spec => []CacheInv
  BY CacheInit, CacheStep, PTL DEF Spec

\* The variables keep their types; no key has two entries (cache.py).
THEOREM CacheTypes == Spec => []TypeOK
<1>1. CacheInv => TypeOK
  BY DEF CacheInv
<1>2. QED
  BY <1>1, CacheInvariant, PTL

\* What is stored under a key of the rule path is what the rules make of its
\* source under a glossary with the mappings of the key, with the side effects of
\* doing so, whoever stored it.
THEOREM EntriesSound == Spec => []RuleEntriesSound
<1>1. CacheInv => RuleEntriesSound
  BY DEF CacheInv
<1>2. QED
  BY <1>1, CacheInvariant, PTL

\* A run without LLM gets what the rules make of each segment under its own
\* mappings, in the order of some module, whatever the cache went through.
THEOREM OutputsSound == Spec => []RuleOutputsSound
<1>1. CacheInv => RuleOutputsSound
  BY DEF CacheInv
<1>2. QED
  BY <1>1, CacheInvariant, PTL

\* It is reproducible, whatever the cache went through, if no two modules have the
\* same mappings in another order: what the key forgets is the order alone.
THEOREM Reproducible ==
  ASSUME OrderTold
  PROVE  Spec => []RuleOutputsReproducible
<1>1. CacheInv => RuleOutputsReproducible
  <2> SUFFICES ASSUME CacheInv, NEW p \in Processes, RuleBased(p), NEW i \in 1..Len(results[p])
               PROVE  results[p][i].translation
                        = RuleTranslate(results[p][i].source, DefaultModule, OwnGlossary(p))
    BY DEF RuleOutputsReproducible
  <2>1. PICK g \in SameMappings(SetOf(OwnGlossary(p))) :
          results[p][i].translation = RuleTranslate(results[p][i].source, DefaultModule, g)
    BY DEF CacheInv, RuleOutputsSound
  <2>2. OwnGlossary(p) \in Glossaries
    BY KernelTypes DEF CacheInv, TypeOK, OwnGlossary
  <2>3. g = OwnGlossary(p)
    BY <2>1, <2>2 DEF OrderTold, SameMappings
  <2>4. QED
    BY <2>1, <2>3
<1>2. QED
  BY <1>1, CacheInvariant, PTL
-----------------------------------------------------------------------------
(* The trails. *)

\* A token is noted at one place of b, at none of them; b notes each token the
\* rules leave in a text once and no other.
OnlyAt(b, t, k) == \A j \in 1..Len(b) : b[j] = UnknownTerm(t) <=> j = k
Without(b, t) == \A j \in 1..Len(b) : b[j] # UnknownTerm(t)
Notes(b, target) ==
  \A t \in Tokens : IF t \in SetOf(UnknownIn(target))
                      THEN \E i \in 1..Len(b) : OnlyAt(b, t, i) ELSE Without(b, t)

LEMMA ConcatFacts ==
  ASSUME NEW S, NEW a \in Seq(S), NEW b \in Seq(S)
  PROVE  /\ a \o b \in Seq(S) /\ Len(a \o b) = Len(a) + Len(b)
         /\ Len(a) \in Nat /\ Len(b) \in Nat
         /\ \A i \in 1..Len(a) : (a \o b)[i] = a[i]
         /\ \A k \in 1..Len(b) : (a \o b)[Len(a) + k] = b[k]
         /\ \A i \in 1..(Len(a) + Len(b)) :
               i \in 1..Len(a) \/ \E k \in 1..Len(b) : i = Len(a) + k
<1>1. /\ a \o b \in Seq(S) /\ Len(a \o b) = Len(a) + Len(b)
      /\ Len(a) \in Nat /\ Len(b) \in Nat
  BY ConcatProperties
<1>2. \A i \in 1..Len(a) : (a \o b)[i] = a[i]
  OBVIOUS
<1>3. \A k \in 1..Len(b) : (a \o b)[Len(a) + k] = b[k]
  OBVIOUS
<1>4. ASSUME NEW i \in 1..(Len(a) + Len(b)), i \notin 1..Len(a)
      PROVE  \E k \in 1..Len(b) : i = Len(a) + k
  <2>1. i - Len(a) \in 1..Len(b) /\ i = Len(a) + (i - Len(a))
    BY <1>1, <1>4
  <2>2. QED
    BY <2>1
<1>5. QED
  BY <1>1, <1>2, <1>3, <1>4

LEMMA TrailsAssociative ==
  \A a, b, c \in Seq(Records) : (a \o b) \o c = a \o (b \o c)
  BY ConcatAssociative

\* A set of positions is finite.
LEMMA PositionsFinite ==
  ASSUME NEW n \in Nat, NEW P \in SUBSET (1..n)
  PROVE  IsFiniteSet(P) /\ Cardinality(P) \in Nat
<1>1. IsFiniteSet(1..n)
  BY FS_Interval
<1>2. QED
  BY <1>1, FS_Subset, FS_CardinalityType

\* A position behind all others counts one more.
LEMMA OneMore ==
  ASSUME NEW n \in Nat, NEW P \in SUBSET (1..n), NEW k, k \notin 1..n
  PROVE  Cardinality(P \cup {k}) = Cardinality(P) + 1
BY PositionsFinite, FS_AddElement

LEMMA TermsDiffer ==
  /\ \A t, u : UnknownTerm(t) = UnknownTerm(u) => t = u
  /\ \A t : UnknownTerm(t).isa # "TRANSLATE_SEGMENT"
  /\ \A id, d : Translated(id, d).isa = "TRANSLATE_SEGMENT" /\ Translated(id, d).chain = {id}
  /\ \A t, id, d : Translated(id, d) # UnknownTerm(t)
<1>1. ASSUME NEW t, NEW u, UnknownTerm(t) = UnknownTerm(u) PROVE t = u
  <2>1. UnknownTerm(t).token = {t} /\ UnknownTerm(u).token = {u}
    BY DEF UnknownTerm
  <2>2. QED
    BY <1>1, <2>1
<1>2. /\ \A t : UnknownTerm(t).isa = "EXCEPTION_HANDLER"
      /\ \A id, d : Translated(id, d).isa = "TRANSLATE_SEGMENT" /\ Translated(id, d).chain = {id}
  BY DEF UnknownTerm, Translated
<1>3. QED
  BY <1>1, <1>2

LEMMA UnknownDiffers ==
  ASSUME NEW target \in Translations
  PROVE  /\ UnknownIn(target) \in Seq(Tokens)
         /\ \A i, j \in DOMAIN UnknownIn(target) :
              i # j => UnknownIn(target)[i] # UnknownIn(target)[j]
<1>1. <<target.source, DefaultModule, target.glossary>> \in Sources \X Modules \X Glossaries
  BY CacheAssumption DEF Translations
<1>2. QED
  BY <1>1, CacheAssumption DEF UnknownIn

\* The records of the tokens the rules leave in a text note each of them once.
LEMMA TermsNoted ==
  ASSUME NEW target \in Translations
  PROVE  Notes(UnknownTerms(UnknownIn(target)), target)
<1> DEFINE tokens == UnknownIn(target)
           b == UnknownTerms(tokens)
<1>1. /\ tokens \in Seq(Tokens)
      /\ \A i, j \in DOMAIN tokens : i # j => tokens[i] # tokens[j]
  BY UnknownDiffers
<1> HIDE DEF tokens
<1>2. /\ Len(tokens) \in Nat /\ DOMAIN tokens = 1..Len(tokens) /\ Len(b) = Len(tokens)
      /\ \A i \in 1..Len(tokens) : b[i] = UnknownTerm(tokens[i])
  BY <1>1 DEF UnknownTerms
<1>3. ASSUME NEW t \in SetOf(tokens) PROVE \E k \in 1..Len(b) : OnlyAt(b, t, k)
  <2>1. PICK k \in 1..Len(tokens) : tokens[k] = t
    BY DEF SetOf
  <2>2. \A j \in 1..Len(tokens) : tokens[j] = t <=> j = k
    BY <1>1, <1>2, <2>1
  <2>3. \A j \in 1..Len(b) : b[j] = UnknownTerm(t) <=> j = k
    BY <1>2, <2>2, TermsDiffer
  <2>4. k \in 1..Len(b) /\ OnlyAt(b, t, k)
    BY <1>2, <2>3 DEF OnlyAt
  <2>5. QED
    BY <2>4
<1>4. ASSUME NEW t, t \notin SetOf(tokens) PROVE Without(b, t)
  <2>1. \A j \in 1..Len(tokens) : tokens[j] # t
    BY <1>4 DEF SetOf
  <2>2. \A j \in 1..Len(b) : b[j] # UnknownTerm(t)
    BY <1>2, <2>1, TermsDiffer
  <2>3. QED
    BY <2>2 DEF Without
<1>5. QED
  BY <1>3, <1>4 DEF Notes, tokens

\* The record of the translation, behind or before them, notes no token.
LEMMA NotesAppend ==
  ASSUME NEW target, NEW b \in Seq(Records), NEW rec \in Records,
         \A t : rec # UnknownTerm(t), Notes(b, target)
  PROVE  Notes(Append(b, rec), target)
<1> DEFINE c == Append(b, rec)
<1>1. /\ Len(b) \in Nat /\ Len(c) = Len(b) + 1 /\ c[Len(b) + 1] = rec
      /\ \A j \in 1..Len(b) : c[j] = b[j] /\ j \in 1..Len(c) /\ j # Len(b) + 1
      /\ \A j \in 1..Len(c) : j = Len(b) + 1 \/ j \in 1..Len(b)
  OBVIOUS
<1> HIDE DEF c
<1>2. ASSUME NEW t, NEW k \in 1..Len(b), OnlyAt(b, t, k) PROVE k \in 1..Len(c) /\ OnlyAt(c, t, k)
  BY <1>1, <1>2 DEF OnlyAt
<1>3. ASSUME NEW t, Without(b, t) PROVE Without(c, t)
  BY <1>1, <1>3 DEF Without
<1>4. QED
  BY <1>2, <1>3 DEF Notes, c

LEMMA NotesPrepend ==
  ASSUME NEW target, NEW b \in Seq(Records), NEW rec \in Records,
         \A t : rec # UnknownTerm(t), Notes(b, target)
  PROVE  Notes(<<rec>> \o b, target)
<1> DEFINE c == <<rec>> \o b
<1>1. /\ Len(b) \in Nat /\ Len(c) = Len(b) + 1 /\ c[1] = rec
      /\ \A j \in 1..Len(b) : c[j + 1] = b[j] /\ j + 1 \in 1..Len(c) /\ j + 1 # 1
      /\ \A j \in 1..Len(c) : j = 1 \/ (j - 1 \in 1..Len(b) /\ (j - 1) + 1 = j)
  OBVIOUS
<1> HIDE DEF c
<1>2. ASSUME NEW t, NEW k \in 1..Len(b), OnlyAt(b, t, k)
      PROVE  k + 1 \in 1..Len(c) /\ OnlyAt(c, t, k + 1)
  <2>1. \A j \in 1..Len(c) : c[j] = UnknownTerm(t) <=> j = k + 1
    <3> SUFFICES ASSUME NEW j \in 1..Len(c) PROVE c[j] = UnknownTerm(t) <=> j = k + 1
      OBVIOUS
    <3>1. CASE j = 1
      BY <1>1, <3>1
    <3>2. CASE j - 1 \in 1..Len(b) /\ (j - 1) + 1 = j
      <4>1. c[j] = b[j - 1]
        BY <1>1, <3>2
      <4>2. b[j - 1] = UnknownTerm(t) <=> j - 1 = k
        BY <1>2, <3>2 DEF OnlyAt
      <4>3. QED
        BY <3>2, <4>1, <4>2
    <3>3. QED
      BY <1>1, <3>1, <3>2
  <2>2. QED
    BY <1>1, <2>1 DEF OnlyAt
<1>3. ASSUME NEW t, Without(b, t) PROVE Without(c, t)
  <2> SUFFICES ASSUME NEW j \in 1..Len(c) PROVE c[j] # UnknownTerm(t)
    BY DEF Without
  <2>1. CASE j = 1
    BY <1>1, <2>1
  <2>2. CASE j - 1 \in 1..Len(b) /\ (j - 1) + 1 = j
    BY <1>1, <1>3, <2>2 DEF Without
  <2>3. QED
    BY <1>1, <2>1, <2>2
<1>4. QED
  BY <1>2, <1>3 DEF Notes, c

\* What a call appends to the trail and to the results of a kernel.
LEMMA TailTerms ==
  ASSUME NEW a \in Seq(Records), NEW b \in Seq(Records), NEW t
  PROVE  \A i : i \in RecordsOfTerm(a \o b, t) <=>
           i \in RecordsOfTerm(a, t) \/ \E k \in 1..Len(b) : i = Len(a) + k /\ b[k] = UnknownTerm(t)
<1>1. /\ Len(a \o b) = Len(a) + Len(b) /\ Len(a) \in Nat /\ Len(b) \in Nat
      /\ \A i \in 1..Len(a) : (a \o b)[i] = a[i]
      /\ \A k \in 1..Len(b) : (a \o b)[Len(a) + k] = b[k]
      /\ \A i \in 1..(Len(a) + Len(b)) :
            i \in 1..Len(a) \/ \E k \in 1..Len(b) : i = Len(a) + k
  BY ConcatFacts
<1>2. RecordsOfTerm(a, t) = {i \in 1..Len(a) : a[i] = UnknownTerm(t)}
  BY DEF RecordsOfTerm
<1>3. \A i : i \in RecordsOfTerm(a \o b, t) <=>
        i \in RecordsOfTerm(a, t) \/ \E k \in 1..Len(b) : i = Len(a) + k /\ b[k] = UnknownTerm(t)
  <2>1. \A i : i \in RecordsOfTerm(a \o b, t) <=>
                 i \in 1..(Len(a) + Len(b)) /\ (a \o b)[i] = UnknownTerm(t)
    BY <1>1 DEF RecordsOfTerm
  <2>2. \A i \in 1..Len(a) : i \in 1..(Len(a) + Len(b))
    BY <1>1
  <2>3. \A k \in 1..Len(b) : Len(a) + k \in 1..(Len(a) + Len(b))
    BY <1>1
  <2>4. ASSUME NEW i \in RecordsOfTerm(a \o b, t)
        PROVE  i \in RecordsOfTerm(a, t)
                 \/ \E k \in 1..Len(b) : i = Len(a) + k /\ b[k] = UnknownTerm(t)
    <3>1. i \in 1..(Len(a) + Len(b)) /\ (a \o b)[i] = UnknownTerm(t)
      BY <2>1, <2>4
    <3>2. CASE i \in 1..Len(a)
      BY <1>1, <1>2, <3>1, <3>2
    <3>3. CASE \E k \in 1..Len(b) : i = Len(a) + k
      BY <1>1, <3>1, <3>3
    <3>4. QED
      BY <1>1, <3>1, <3>2, <3>3
  <2>5. \A i \in RecordsOfTerm(a, t) : i \in RecordsOfTerm(a \o b, t)
    BY <1>1, <1>2, <2>1, <2>2
  <2>6. \A k \in 1..Len(b) : b[k] = UnknownTerm(t) => Len(a) + k \in RecordsOfTerm(a \o b, t)
    BY <1>1, <2>1, <2>3
  <2>7. QED
    BY <2>4, <2>5, <2>6
<1>4. QED
  BY <1>3

LEMMA TailOneTerm ==
  ASSUME NEW a \in Seq(Records), NEW b \in Seq(Records), NEW t, NEW k \in 1..Len(b),
         OnlyAt(b, t, k)
  PROVE  Cardinality(RecordsOfTerm(a \o b, t)) = Cardinality(RecordsOfTerm(a, t)) + 1
<1>1. \A i : i \in RecordsOfTerm(a \o b, t) <=>
        i \in RecordsOfTerm(a, t) \/ \E j \in 1..Len(b) : i = Len(a) + j /\ b[j] = UnknownTerm(t)
  BY TailTerms
<1>2. RecordsOfTerm(a \o b, t) = RecordsOfTerm(a, t) \cup {Len(a) + k}
  BY <1>1 DEF OnlyAt
<1>3. RecordsOfTerm(a, t) \in SUBSET (1..Len(a)) /\ Len(a) \in Nat /\ Len(b) \in Nat
  BY DEF RecordsOfTerm
<1>4. Len(a) + k \notin 1..Len(a)
  BY <1>3
<1>5. Cardinality(RecordsOfTerm(a, t) \cup {Len(a) + k}) = Cardinality(RecordsOfTerm(a, t)) + 1
  BY <1>3, <1>4, OneMore, Zenon
<1>6. QED
  BY <1>2, <1>5

LEMMA TailNoTerm ==
  ASSUME NEW a \in Seq(Records), NEW b \in Seq(Records), NEW t,
         Without(b, t)
  PROVE  RecordsOfTerm(a \o b, t) = RecordsOfTerm(a, t)
<1>1. \A i : i \in RecordsOfTerm(a \o b, t) <=>
        i \in RecordsOfTerm(a, t) \/ \E j \in 1..Len(b) : i = Len(a) + j /\ b[j] = UnknownTerm(t)
  BY TailTerms
<1>2. QED
  BY <1>1 DEF Without

LEMMA TailRecord ==
  ASSUME NEW a \in Seq(Records), NEW b \in Seq(Records), NEW k \in 1..Len(b),
         \A j \in 1..Len(b) : b[j].isa = "TRANSLATE_SEGMENT" <=> j = k
  PROVE  /\ RecordsOf(a \o b) = RecordsOf(a) \cup {Len(a) + k}
         /\ Cardinality(RecordsOf(a \o b)) = Cardinality(RecordsOf(a)) + 1
         /\ \A i \in RecordsOf(a) : Rank(a \o b, i) = Rank(a, i)
         /\ Rank(a \o b, Len(a) + k) = Cardinality(RecordsOf(a)) + 1
<1>1. /\ Len(a \o b) = Len(a) + Len(b) /\ Len(a) \in Nat /\ Len(b) \in Nat
      /\ \A i \in 1..Len(a) : (a \o b)[i] = a[i]
      /\ \A j \in 1..Len(b) : (a \o b)[Len(a) + j] = b[j]
      /\ \A i \in 1..(Len(a) + Len(b)) :
            i \in 1..Len(a) \/ \E j \in 1..Len(b) : i = Len(a) + j
  BY ConcatFacts
<1>2. RecordsOf(a) \in SUBSET (1..Len(a)) /\ Len(a) + k \notin 1..Len(a)
  BY <1>1 DEF RecordsOf
<1>3. RecordsOf(a \o b) = RecordsOf(a) \cup {Len(a) + k}
  <2>1. \A i : i \in RecordsOf(a \o b) <=>
                 i \in 1..(Len(a) + Len(b)) /\ (a \o b)[i].isa = "TRANSLATE_SEGMENT"
    BY <1>1 DEF RecordsOf
  <2>2. \A i \in 1..Len(a) : i \in 1..(Len(a) + Len(b))
    BY <1>1
  <2>3. \A j \in 1..Len(b) : Len(a) + j \in 1..(Len(a) + Len(b))
    BY <1>1
  <2>4. RecordsOf(a) = {i \in 1..Len(a) : a[i].isa = "TRANSLATE_SEGMENT"}
    BY DEF RecordsOf
  <2>5. ASSUME NEW i \in RecordsOf(a \o b) PROVE i \in RecordsOf(a) \cup {Len(a) + k}
    <3>1. i \in 1..(Len(a) + Len(b)) /\ (a \o b)[i].isa = "TRANSLATE_SEGMENT"
      BY <2>1, <2>5
    <3>2. CASE i \in 1..Len(a)
      BY <1>1, <2>4, <3>1, <3>2
    <3>3. CASE \E j \in 1..Len(b) : i = Len(a) + j
      BY <1>1, <3>1, <3>3
    <3>4. QED
      BY <1>1, <3>1, <3>2, <3>3
  <2>6. \A i \in RecordsOf(a) : i \in RecordsOf(a \o b)
    BY <1>1, <2>1, <2>2, <2>4
  <2>7. Len(a) + k \in RecordsOf(a \o b)
    BY <1>1, <2>1, <2>3
  <2>8. QED
    BY <2>5, <2>6, <2>7
<1>4. Cardinality(RecordsOf(a \o b)) = Cardinality(RecordsOf(a)) + 1
  <2>1. Cardinality(RecordsOf(a) \cup {Len(a) + k}) = Cardinality(RecordsOf(a)) + 1
    BY <1>1, <1>2, OneMore, Zenon
  <2>2. QED
    BY <1>3, <2>1
<1>5. ASSUME NEW i \in RecordsOf(a) PROVE Rank(a \o b, i) = Rank(a, i)
  <2>1. i \in 1..Len(a) /\ ~(Len(a) + k <= i)
    BY <1>1, <1>2
  <2>2. {j \in RecordsOf(a \o b) : j <= i} = {j \in RecordsOf(a) : j <= i}
    BY <1>3, <2>1
  <2>3. QED
    BY <2>2 DEF Rank
<1>6. Rank(a \o b, Len(a) + k) = Cardinality(RecordsOf(a)) + 1
  <2>1. \A j \in RecordsOf(a) : j <= Len(a) + k
    BY <1>1, <1>2
  <2>2. Len(a) + k <= Len(a) + k
    BY <1>1
  <2>3. {j \in RecordsOf(a \o b) : j <= Len(a) + k} = RecordsOf(a \o b)
    BY <1>3, <2>1, <2>2
  <2>4. QED
    BY <1>4, <2>3 DEF Rank
<1>7. QED
  BY <1>3, <1>4, <1>5, <1>6

LEMMA TailResult ==
  ASSUME NEW r \in Seq(Results), NEW x \in Results, NEW t
  PROVE  LET more == Cardinality(ResultsWithTerm(Append(r, x), t))
             before == Cardinality(ResultsWithTerm(r, t))
         IN IF t \in SetOf(UnknownIn(x.translation))
              THEN more = before + 1 ELSE more = before
<1>1. /\ Len(r) \in Nat /\ Len(Append(r, x)) = Len(r) + 1
      /\ Append(r, x)[Len(r) + 1] = x
      /\ \A i \in 1..Len(r) : Append(r, x)[i] = r[i]
  OBVIOUS
<1>2. 1..(Len(r) + 1) = 1..Len(r) \cup {Len(r) + 1} /\ Len(r) + 1 \notin 1..Len(r)
  BY <1>1
<1>3. ResultsWithTerm(r, t) \in SUBSET (1..Len(r))
  BY DEF ResultsWithTerm
<1>4. ResultsWithTerm(Append(r, x), t)
        = IF t \in SetOf(UnknownIn(x.translation))
            THEN ResultsWithTerm(r, t) \cup {Len(r) + 1} ELSE ResultsWithTerm(r, t)
  BY <1>1, <1>2 DEF ResultsWithTerm
<1>5. QED
  BY <1>1, <1>2, <1>3, <1>4, OneMore


\* The two properties of the trails, with what a hit needs of the store.
TrailInv == CacheInv /\ EntriesCite /\ UnknownTermsOnTrail /\ OneRecordPerResult

\* A call that returns keeps them if what it appends to the trail has one record
\* of the translation, which cites the text returned, and, without LLM, one
\* record for each token the rules leave and no other.
LEMMA CallStep ==
  ASSUME CacheInv, UnknownTermsOnTrail, OneRecordPerResult,
         NEW p \in Processes, NEW s \in Sources, NEW target \in Translations,
         NEW b \in Seq(Records), NEW k \in 1..Len(b),
         kernel' = kernel,
         audit' = [audit EXCEPT ![p] = @ \o b],
         Returns(p, s, target),
         \A j \in 1..Len(b) : b[j].isa = "TRANSLATE_SEGMENT" <=> j = k,
         \A id \in b[k].chain : id.target = target,
         RuleBased(p) => Notes(b, target)
  PROVE  UnknownTermsOnTrail' /\ OneRecordPerResult'
<1> DEFINE x == [source |-> s, translation |-> target]
           a == audit[p]
           r == results[p]
<1>1. a \in Seq(Records) /\ r \in Seq(Results) /\ x \in Results
  BY DEF CacheInv, TypeOK, Results
<1>2. /\ audit'[p] = a \o b /\ results'[p] = Append(r, x)
      /\ \A q \in Processes : q # p => audit'[q] = audit[q] /\ results'[q] = results[q]
  BY DEF Returns, CacheInv, TypeOK
<1>3. ASSUME NEW q \in Processes, RuleBased(q)', NEW t \in Tokens
      PROVE  Cardinality(RecordsOfTerm(audit'[q], t)) = Cardinality(ResultsWithTerm(results'[q], t))
  <2>1. RuleBased(q)
    BY <1>3 DEF RuleBased
  <2>2. Cardinality(RecordsOfTerm(audit[q], t)) = Cardinality(ResultsWithTerm(results[q], t))
    BY <2>1 DEF UnknownTermsOnTrail
  <2>3. CASE q # p
    BY <1>2, <2>2, <2>3
  <2>4. CASE q = p
    <3>2. CASE t \in SetOf(UnknownIn(target))
      <4>1. PICK i \in 1..Len(b) : OnlyAt(b, t, i)
        BY <2>1, <2>4, <3>2 DEF Notes
      <4>2. Cardinality(RecordsOfTerm(a \o b, t)) = Cardinality(RecordsOfTerm(a, t)) + 1
        BY <1>1, <4>1, TailOneTerm
      <4>3. Cardinality(ResultsWithTerm(Append(r, x), t)) = Cardinality(ResultsWithTerm(r, t)) + 1
        BY <1>1, <3>2, TailResult
      <4>4. QED
        BY <1>2, <2>2, <2>4, <4>2, <4>3
    <3>3. CASE t \notin SetOf(UnknownIn(target))
      <4>0. Without(b, t)
        BY <2>1, <2>4, <3>3 DEF Notes
      <4>1. RecordsOfTerm(a \o b, t) = RecordsOfTerm(a, t)
        BY <1>1, <4>0, TailNoTerm
      <4>2. Cardinality(ResultsWithTerm(Append(r, x), t)) = Cardinality(ResultsWithTerm(r, t))
        BY <1>1, <3>3, TailResult
      <4>3. QED
        BY <1>2, <2>2, <2>4, <4>1, <4>2
    <3>4. QED
      BY <3>2, <3>3
  <2>5. QED
    BY <2>3, <2>4
<1>4. UnknownTermsOnTrail'
  BY <1>3 DEF UnknownTermsOnTrail
<1>5. ASSUME NEW q \in Processes
      PROVE  /\ Cardinality(RecordsOf(audit'[q])) = Len(results'[q])
             /\ \A i \in RecordsOf(audit'[q]) : \A id \in audit'[q][i].chain :
                  id.target = results'[q][Rank(audit'[q], i)].translation
  <2>1. /\ Cardinality(RecordsOf(audit[q])) = Len(results[q])
        /\ \A i \in RecordsOf(audit[q]) : \A id \in audit[q][i].chain :
             id.target = results[q][Rank(audit[q], i)].translation
    BY DEF OneRecordPerResult
  <2>2. CASE q # p
    BY <1>2, <2>1, <2>2
  <2>3. CASE q = p
    <3>1. /\ RecordsOf(a \o b) = RecordsOf(a) \cup {Len(a) + k}
          /\ Cardinality(RecordsOf(a \o b)) = Cardinality(RecordsOf(a)) + 1
          /\ \A i \in RecordsOf(a) : Rank(a \o b, i) = Rank(a, i)
          /\ Rank(a \o b, Len(a) + k) = Cardinality(RecordsOf(a)) + 1
      BY <1>1, TailRecord
    <3>2. Len(Append(r, x)) = Len(r) + 1 /\ Append(r, x)[Len(r) + 1] = x
          /\ \A i \in 1..Len(r) : Append(r, x)[i] = r[i]
      BY <1>1
    <3>3. ASSUME NEW i \in RecordsOf(a), NEW id \in (a \o b)[i].chain
          PROVE  id.target = Append(r, x)[Rank(a \o b, i)].translation
      <4>1. i \in 1..Len(a) /\ (a \o b)[i] = a[i]
        BY <1>1, ConcatFacts DEF RecordsOf
      <4>2. Rank(a, i) \in 1..Len(r)
        <5>1. RecordsOf(a) \in SUBSET (1..Len(a)) /\ Len(a) \in Nat
          BY <1>1 DEF RecordsOf
        <5>2. /\ {j \in RecordsOf(a) : j <= i} \in SUBSET RecordsOf(a)
              /\ i \in {j \in RecordsOf(a) : j <= i}
          BY <4>1
        <5>3. IsFiniteSet(RecordsOf(a)) /\ IsFiniteSet({j \in RecordsOf(a) : j <= i})
          BY <5>1, <5>2, PositionsFinite, FS_Subset
        <5>4. /\ Cardinality({j \in RecordsOf(a) : j <= i}) <= Cardinality(RecordsOf(a))
              /\ Cardinality({j \in RecordsOf(a) : j <= i}) # 0
              /\ Cardinality({j \in RecordsOf(a) : j <= i}) \in Nat
          BY <5>2, <5>3, FS_Subset, FS_EmptySet, FS_CardinalityType
        <5>5. QED
          BY <1>1, <2>1, <2>3, <5>4 DEF Rank
      <4>3. id.target = r[Rank(a, i)].translation
        BY <2>1, <2>3, <3>3, <4>1
      <4>4. QED
        BY <3>1, <3>2, <4>2, <4>3
    <3>4. ASSUME NEW id \in (a \o b)[Len(a) + k].chain
          PROVE  id.target = Append(r, x)[Rank(a \o b, Len(a) + k)].translation
      <4>1. (a \o b)[Len(a) + k] = b[k]
        BY <1>1, ConcatFacts
      <4>2. id.target = target
        BY <3>4, <4>1
      <4>3. Rank(a \o b, Len(a) + k) = Len(r) + 1
        BY <2>1, <2>3, <3>1
      <4>4. QED
        BY <3>2, <4>2, <4>3
    <3>5. Cardinality(RecordsOf(a \o b)) = Len(Append(r, x))
      BY <2>1, <2>3, <3>1, <3>2
    <3>6. ASSUME NEW i \in RecordsOf(a \o b), NEW id \in (a \o b)[i].chain
          PROVE  id.target = Append(r, x)[Rank(a \o b, i)].translation
      <4>1. CASE i \in RecordsOf(a)
        BY <3>3, <3>6, <4>1
      <4>2. CASE i = Len(a) + k
        BY <3>4, <3>6, <4>2
      <4>3. QED
        BY <3>1, <4>1, <4>2
    <3>7. audit'[q] = a \o b /\ results'[q] = Append(r, x)
      BY <1>2, <2>3
    <3>8. QED
      BY <3>5, <3>6, <3>7, Zenon
  <2>4. QED
    BY <2>2, <2>3
<1>6. OneRecordPerResult'
  BY <1>5 DEF OneRecordPerResult
<1>7. QED
  BY <1>4, <1>6


\* A call of another process, a deleted entry: what the trails say is as before.
LEMMA TrailsUntouched ==
  ASSUME TrailInv, UNCHANGED <<kernel, audit, results>>,
         \A key \in Keys : store'[key] \subseteq store[key]
  PROVE  EntriesCite' /\ UnknownTermsOnTrail' /\ OneRecordPerResult'
<1>1. EntriesCite'
  BY DEF TrailInv, EntriesCite
<1>2. UnknownTermsOnTrail'
  BY DEF TrailInv, UnknownTermsOnTrail, RuleBased
<1>3. OneRecordPerResult'
  BY DEF TrailInv, OneRecordPerResult
<1>4. QED
  BY <1>1, <1>2, <1>3

LEMMA TrailInit == Init => TrailInv
<1> SUFFICES ASSUME Init PROVE TrailInv
  OBVIOUS
<1>1. CacheInv /\ EntriesCite
  BY CacheInit DEF Init, EntriesCite
<1>2. /\ \A t : RecordsOfTerm(<<>>, t) = {} /\ ResultsWithTerm(<<>>, t) = {}
      /\ RecordsOf(<<>>) = {}
  BY DEF RecordsOfTerm, ResultsWithTerm, RecordsOf
<1>3. \A p \in Processes : audit[p] = <<>> /\ results[p] = <<>>
  BY DEF Init
<1>4. UnknownTermsOnTrail
  BY <1>2, <1>3 DEF UnknownTermsOnTrail
<1>5. OneRecordPerResult
  BY <1>2, <1>3, FS_EmptySet DEF OneRecordPerResult
<1>6. QED
  BY <1>1, <1>4, <1>5 DEF TrailInv

LEMMA BootTrail ==
  ASSUME TrailInv, NEW p \in Processes, Boot(p)
  PROVE  EntriesCite' /\ UnknownTermsOnTrail' /\ OneRecordPerResult'
<1>1. /\ \A t : RecordsOfTerm(<<>>, t) = {} /\ ResultsWithTerm(<<>>, t) = {}
      /\ RecordsOf(<<>>) = {}
  BY DEF RecordsOfTerm, ResultsWithTerm, RecordsOf
<1>2. /\ audit'[p] = <<>> /\ results'[p] = <<>> /\ store' = store
      /\ \A q \in Processes : q # p =>
           audit'[q] = audit[q] /\ results'[q] = results[q] /\ kernel'[q] = kernel[q]
  BY DEF Boot, TrailInv, CacheInv, TypeOK
<1>3. EntriesCite'
  BY <1>2 DEF TrailInv, EntriesCite
<1>4. UnknownTermsOnTrail'
  <2> SUFFICES ASSUME NEW q \in Processes, RuleBased(q)', NEW t \in Tokens
               PROVE  Cardinality(RecordsOfTerm(audit'[q], t))
                        = Cardinality(ResultsWithTerm(results'[q], t))
    BY DEF UnknownTermsOnTrail
  <2>1. CASE q = p
    BY <1>1, <1>2, <2>1
  <2>2. CASE q # p
    BY <1>2, <2>2 DEF TrailInv, UnknownTermsOnTrail, RuleBased
  <2>3. QED
    BY <2>1, <2>2
<1>5. OneRecordPerResult'
  <2> SUFFICES ASSUME NEW q \in Processes
               PROVE  /\ Cardinality(RecordsOf(audit'[q])) = Len(results'[q])
                      /\ \A i \in RecordsOf(audit'[q]) : \A id \in audit'[q][i].chain :
                           id.target = results'[q][Rank(audit'[q], i)].translation
    BY DEF OneRecordPerResult
  <2>1. CASE q = p
    BY <1>1, <1>2, <2>1, FS_EmptySet
  <2>2. CASE q # p
    BY <1>2, <2>2 DEF TrailInv, OneRecordPerResult
  <2>3. QED
    BY <2>1, <2>2
<1>6. QED
  BY <1>3, <1>4, <1>5

\* A completed miss: `before` and then the record of the translation.
LEMMA CompleteTrail ==
  ASSUME TrailInv, NEW p \in Processes, NEW s \in Sources, NEW target \in Translations,
         NEW basis \in Bases, NEW before \in Seq(Records), NEW effects \in Seq(Tokens),
         Complete(p, s, target, basis, before, effects),
         \A j \in 1..Len(before) : before[j].isa # "TRANSLATE_SEGMENT",
         RuleBased(p) => before = UnknownTerms(UnknownIn(target))
  PROVE  EntriesCite' /\ UnknownTermsOnTrail' /\ OneRecordPerResult'
<1> DEFINE id == EvidenceId(target, basis)
           rec == Translated(id, basis = "degraded")
           b == Append(before, rec)
<1>1. id \in EvidenceIds /\ id.target = target
  BY DEF EvidenceId, EvidenceIds
<1>2. rec \in Records /\ rec.isa = "TRANSLATE_SEGMENT" /\ rec.chain = {id}
  <2>1. (basis = "degraded") \in BOOLEAN
    OBVIOUS
  <2>2. rec \in Records
    BY <1>1, <2>1, RecordTypes, Zenon
  <2>3. QED
    BY <2>2, TermsDiffer, Zenon
<1>3. \A t : rec # UnknownTerm(t)
  BY TermsDiffer
<1> HIDE DEF rec, id
<1>4. /\ b \in Seq(Records) /\ Len(b) = Len(before) + 1 /\ Len(before) \in Nat
      /\ b[Len(b)] = rec /\ Len(b) \in 1..Len(b)
      /\ \A j \in 1..Len(before) : b[j] = before[j]
      /\ \A j \in 1..Len(b) : j = Len(b) \/ j \in 1..Len(before)
      /\ Len(b) \notin 1..Len(before)
      /\ \A j \in 1..Len(before) : j \in 1..Len(b) /\ j # Len(b)
  BY <1>2
<1>5. audit' = [audit EXCEPT ![p] = @ \o b]
  <2>1. audit[p] \in Seq(Records)
    BY DEF TrailInv, CacheInv, TypeOK
  <2>2. audit[p] \o before \o <<rec>> = audit[p] \o b
    <3>1. b = before \o <<rec>> /\ <<rec>> \in Seq(Records)
      BY <1>2, AppendIsConcat
    <3>2. (audit[p] \o before) \o <<rec>> = audit[p] \o (before \o <<rec>>)
      BY <2>1, <3>1, TrailsAssociative
    <3>3. QED
      BY <3>1, <3>2
  <2>3. QED
    BY <2>2 DEF Complete, rec, id
<1> HIDE DEF b
<1>6. \A j \in 1..Len(b) : b[j].isa = "TRANSLATE_SEGMENT" <=> j = Len(b)
  BY <1>2, <1>4
<1>7. \A i \in b[Len(b)].chain : i.target = target
  BY <1>1, <1>2, <1>4
<1>8. RuleBased(p) => Notes(b, target)
  BY <1>2, <1>3, TermsNoted, NotesAppend DEF b
<1>9. UnknownTermsOnTrail' /\ OneRecordPerResult'
  <2>1. kernel' = kernel /\ Returns(p, s, target)
    BY DEF Complete
  <2>2. RuleBased(p) => Notes(b, target)
    BY <1>8
  <2>3. CacheInv /\ UnknownTermsOnTrail /\ OneRecordPerResult
    BY DEF TrailInv
  <2>4. b \in Seq(Records) /\ Len(b) \in 1..Len(b)
    BY <1>4
  <2>5. QED
    BY <1>5, <1>6, <1>7, <2>1, <2>2, <2>3, <2>4, CallStep
<1>10. EntriesCite'
  <2>1. EntryOf(target, basis, effects).id.target = EntryOf(target, basis, effects).translation
    BY DEF EntryOf, EvidenceId
  <2>2. \A key \in Keys :
          store'[key] = store[key] \/ store'[key] = {EntryOf(target, basis, effects)}
    BY DEF Complete, Set, TrailInv, CacheInv, TypeOK
  <2>3. QED
    BY <2>1, <2>2 DEF EntriesCite, TrailInv
<1>11. QED
  BY <1>9, <1>10

\* A hit: the record of the translation and then the stored side effects.
LEMMA HitTrail ==
  ASSUME TrailInv, NEW p \in Processes, NEW s \in Sources, Hit(p, s)
  PROVE  EntriesCite' /\ UnknownTermsOnTrail' /\ OneRecordPerResult'
<1>1. PICK entry \in Get(p, s) :
        /\ audit' = [audit EXCEPT ![p] =
                       @ \o <<Translated(entry.id, FALSE)>> \o UnknownTerms(entry.effects)]
        /\ Returns(p, s, entry.translation)
  BY DEF Hit
<1> DEFINE key == KeyOf(kernel[p], s)
           rec == Translated(entry.id, FALSE)
           effects == UnknownTerms(entry.effects)
           b == <<rec>> \o effects
<1>2. key \in Keys /\ entry \in store[key] /\ entry \in Entries
  BY <1>1, KeyTypes DEF Get, TrailInv, CacheInv, TypeOK
<1>3. entry.id \in EvidenceIds /\ entry.id.target = entry.translation
      /\ entry.translation \in Translations /\ entry.effects \in Seq(Tokens)
  BY <1>2 DEF TrailInv, EntriesCite, Entries
<1>4. /\ rec \in Records /\ rec.isa = "TRANSLATE_SEGMENT" /\ rec.chain = {entry.id}
      /\ \A t : rec # UnknownTerm(t)
  <2>1. rec \in Records
    BY <1>3, RecordTypes
  <2>2. QED
    BY <2>1, TermsDiffer, Zenon
<1> HIDE DEF rec
<1>5. /\ effects \in Seq(Records) /\ Len(effects) \in Nat
      /\ \A j \in 1..Len(effects) : effects[j].isa # "TRANSLATE_SEGMENT"
  <2>1. effects \in Seq(Records) /\ Len(effects) \in Nat
    BY <1>3, RecordTypes
  <2>2. \A j \in 1..Len(effects) : \E t : effects[j] = UnknownTerm(t)
    BY <1>3 DEF UnknownTerms
  <2>3. QED
    BY <2>1, <2>2, TermsDiffer
<1>6. audit' = [audit EXCEPT ![p] = @ \o b]
  <2>1. audit[p] \in Seq(Records) /\ <<rec>> \in Seq(Records)
    BY <1>4 DEF TrailInv, CacheInv, TypeOK
  <2>2. (audit[p] \o <<rec>>) \o effects = audit[p] \o (<<rec>> \o effects)
    BY <1>5, <2>1, TrailsAssociative
  <2>3. QED
    BY <1>1, <2>2 DEF rec
<1>7. /\ b \in Seq(Records) /\ Len(b) = Len(effects) + 1 /\ b[1] = rec /\ 1 \in 1..Len(b)
      /\ \A j \in 1..Len(effects) : b[j + 1] = effects[j]
      /\ \A j \in 1..Len(b) : j = 1 \/ \E h \in 1..Len(effects) : j = h + 1
      /\ \A h \in 1..Len(effects) : h + 1 \in 1..Len(b) /\ h + 1 # 1
  <2>1. <<rec>> \in Seq(Records) /\ Len(<<rec>>) = 1 /\ <<rec>>[1] = rec
    BY <1>4
  <2>2. /\ b \in Seq(Records) /\ Len(b) = 1 + Len(effects)
        /\ \A i \in 1..1 : b[i] = <<rec>>[i]
        /\ \A h \in 1..Len(effects) : b[1 + h] = effects[h]
        /\ \A i \in 1..(1 + Len(effects)) : i \in 1..1 \/ \E h \in 1..Len(effects) : i = 1 + h
    BY <1>5, <2>1, ConcatFacts
  <2>3. QED
    <3>1. 1 \in 1..1
      OBVIOUS
    <3>2. QED
      BY <1>5, <2>1, <2>2, <3>1
<1> HIDE DEF b
<1>8. \A j \in 1..Len(b) : b[j].isa = "TRANSLATE_SEGMENT" <=> j = 1
  BY <1>4, <1>5, <1>7
<1>9. \A i \in b[1].chain : i.target = entry.translation
  BY <1>3, <1>4, <1>7
<1>10. ASSUME RuleBased(p) PROVE Notes(b, entry.translation)
  <2>1. entry.effects = UnknownIn(entry.translation)
    <3>1. \E g : IsRuleEntry(entry, s, g)
      BY <1>2, <1>10, StoredByRules DEF TrailInv, CacheInv
    <3>2. QED
      BY <3>1 DEF IsRuleEntry, EntryOf
  <2>2. Notes(effects, entry.translation)
    BY <1>3, <2>1, TermsNoted
  <2>3. QED
    BY <1>4, <1>5, <2>2, NotesPrepend DEF b
<1>11. UnknownTermsOnTrail' /\ OneRecordPerResult'
  <2>1. kernel' = kernel /\ Returns(p, s, entry.translation)
    BY <1>1 DEF Hit
  <2>2. RuleBased(p) => Notes(b, entry.translation)
    BY <1>10
  <2>3. CacheInv /\ UnknownTermsOnTrail /\ OneRecordPerResult
    BY DEF TrailInv
  <2>4. b \in Seq(Records) /\ 1 \in 1..Len(b) /\ entry.translation \in Translations
    BY <1>3, <1>7
  <2>5. QED
    BY <1>6, <1>8, <1>9, <2>1, <2>2, <2>3, <2>4, CallStep
<1>12. EntriesCite'
  BY DEF Hit, EntriesCite, TrailInv
<1>13. QED
  BY <1>11, <1>12

LEMMA TrailStep == TrailInv /\ [Next]_vars => TrailInv'
<1> SUFFICES ASSUME TrailInv, [Next]_vars
             PROVE  EntriesCite' /\ UnknownTermsOnTrail' /\ OneRecordPerResult'
  BY CacheStep DEF TrailInv
<1>1. CASE UNCHANGED vars
  BY <1>1, TrailsUntouched DEF vars
<1>2. CASE \E p \in Processes : Boot(p)
  BY <1>2, BootTrail
<1>3. CASE \E p \in Processes, s \in Sources : Hit(p, s)
  BY <1>3, HitTrail
<1>4. CASE \E p \in Processes, s \in Sources : Miss(p, s)
  BY <1>4, TrailsUntouched DEF Miss, local
<1>5. CASE \E p \in Processes : TranslateByRule(p)
  <2>1. PICK p \in Processes : TranslateByRule(p)
    BY <1>5
  <2>2. PICK s \in pending[p] :
          LET unknown == Unknown[<<s, DefaultModule, OwnGlossary(p)>>] IN
          Complete(p, s, RuleTranslate(s, DefaultModule, OwnGlossary(p)), "rule-based",
                   UnknownTerms(unknown), unknown)
    BY <2>1 DEF TranslateByRule, OwnGlossary
  <2>3. /\ s \in Sources /\ DefaultModule \in Modules /\ "rule-based" \in Bases
        /\ OwnGlossary(p) \in Glossaries
    BY CacheAssumption, KernelTypes DEF TrailInv, CacheInv, TypeOK, Bases, OwnGlossary
  <2> DEFINE unknown == Unknown[<<s, DefaultModule, OwnGlossary(p)>>]
  <2>4. \A j \in 1..Len(UnknownTerms(unknown)) :
          UnknownTerms(unknown)[j].isa # "TRANSLATE_SEGMENT"
    <3>1. unknown \in Seq(Tokens)
      BY <2>3, UnknownTypes
    <3>2. QED
      BY <3>1, TermsDiffer DEF UnknownTerms
  <2>5. QED
    BY <2>2, <2>3, <2>4, CompleteTrail, TranslationTypes, UnknownTypes, RecordTypes, RuleTexts
<1>6. CASE \E p \in Processes : TranslateByLLM(p)
  <2>1. PICK p \in Processes : TranslateByLLM(p)
    BY <1>6
  <2>2. PICK s \in pending[p], a \in Answers :
          /\ kernel[p].llm
          /\ Complete(p, s, LLMTranslate(s, kernel[p].model, OwnGlossary(p), a),
                      "LLM decision", <<>>, <<>>)
    BY <2>1 DEF TranslateByLLM, OwnGlossary
  <2>3. s \in Sources /\ kernel[p].model \in Models /\ OwnGlossary(p) \in Glossaries
    BY KernelTypes DEF TrailInv, CacheInv, TypeOK, OwnGlossary
  <2>4. /\ "LLM decision" \in Bases /\ <<>> \in Seq(Records) /\ <<>> \in Seq(Tokens)
        /\ 1..Len(<<>>) = {}
    BY DEF Bases
  <2>5. QED
    BY <2>2, <2>3, <2>4, CompleteTrail, TranslationTypes DEF RuleBased
<1>7. CASE \E p \in Processes : Degrade(p)
  <2>1. PICK p \in Processes : Degrade(p)
    BY <1>7
  <2>2. PICK s \in pending[p] :
          /\ kernel[p].llm
          /\ Complete(p, s, RuleTranslate(s, kernel[p].module, OwnGlossary(p)),
                      "degraded", <<>>, <<>>)
    BY <2>1 DEF Degrade, OwnGlossary
  <2>3. s \in Sources /\ kernel[p].module \in Modules /\ OwnGlossary(p) \in Glossaries
    BY KernelTypes DEF TrailInv, CacheInv, TypeOK, OwnGlossary
  <2>4. /\ "degraded" \in Bases /\ <<>> \in Seq(Records) /\ <<>> \in Seq(Tokens)
        /\ 1..Len(<<>>) = {}
    BY DEF Bases
  <2>5. QED
    BY <2>2, <2>3, <2>4, CompleteTrail, TranslationTypes DEF RuleBased
<1>8. CASE \E p \in Processes : ConflictRaised(p)
  BY <1>8, TrailsUntouched DEF ConflictRaised, local
<1>9. CASE Clear \/ \E key \in Keys : Delete(key)
  <2>1. UNCHANGED <<kernel, audit, results>>
    BY <1>9 DEF Clear, Delete, local
  <2>2. \A key \in Keys : store'[key] \subseteq store[key]
    BY <1>9 DEF Clear, Delete, TrailInv, CacheInv, TypeOK
  <2>3. QED
    BY <2>1, <2>2, TrailsUntouched
<1>10. QED
  BY <1>1, <1>2, <1>3, <1>4, <1>5, <1>6, <1>7, <1>8, <1>9 DEF Next

THEOREM TrailInvariant == Spec => []TrailInv
  BY TrailInit, TrailStep, PTL DEF Spec

\* A run without LLM notes each token the rules leave unknown once per segment,
\* whether it translated the segment or found it in the cache.
THEOREM TermsOnTrail == Spec => []UnknownTermsOnTrail
<1>1. TrailInv => UnknownTermsOnTrail
  BY DEF TrailInv
<1>2. QED
  BY <1>1, TrailInvariant, PTL

\* A trail has one record per result, in their order, and each cites the
\* evidence of the text its call returned.
THEOREM OneRecord == Spec => []OneRecordPerResult
<1>1. TrailInv => OneRecordPerResult
  BY DEF TrailInv
<1>2. QED
  BY <1>1, TrailInvariant, PTL

=============================================================================
