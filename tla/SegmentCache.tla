---------------------------- MODULE SegmentCache ----------------------------
(***************************************************************************)
(* TRANSLATE_SEGMENT over the translation cache of tra/cache.py.  Several   *)
(* processes, each running one kernel at a time, share a cache directory;   *)
(* a process may be killed and start a new kernel at any moment, and        *)
(* `tra cache-clear` may delete entries between any two of its steps.       *)
(*                                                                         *)
(* A source stands for a segment together with the entity table it is       *)
(* translated under: both are hashed into the key, and the table is used as *)
(* a set only.  The glossary is a sequence of mappings: the key hashes the  *)
(* set of them, the rules apply them one after the other.                   *)
(*                                                                         *)
(* An operator named X_<fault> is not used by the specification: it is X   *)
(* with a plausible bug, for the properties to find.                       *)
(***************************************************************************)
EXTENDS Naturals, Sequences, FiniteSets

CONSTANTS Processes,
          Sources,
          Tokens,         \* the CJK tokens that can stay unknown
          Mappings,       \* what a glossary maps: a source term with its target
          Modules,        \* the language modules a kernel can have selected
          Glossary,       \* the glossary of each module, in the order of its mappings
          DefaultModule,  \* isa._MODULE
          Models,         \* model identities of the configuration
          Kernels,        \* how a kernel may be configured
          Answers,        \* what an LLM callback may return
          Unknown,        \* the tokens a module's rules and a glossary leave of a source
          MaxCalls        \* bound: segments per kernel

RuleAnswer == "rule-based"

Glossaries == {Glossary[m] : m \in Modules}

\* A kernel: the module it selected, its configured model, whether run() was
\* given llm_translate, whether cache.enabled is set.
Configurations == [module : Modules, model : Models, llm : BOOLEAN, cached : BOOLEAN]

\* _log_unknown_cjk returns each unknown token once.
ASSUME CacheAssumption ==
  /\ DefaultModule \in Modules
  /\ RuleAnswer \notin Answers
  /\ Glossary \in [Modules -> Seq(Mappings)]
  /\ Unknown \in [Sources \X Modules \X Glossaries -> Seq(Tokens)]
  /\ \A left \in Sources \X Modules \X Glossaries : \A i, j \in DOMAIN Unknown[left] :
       i # j => Unknown[left][i] # Unknown[left][j]
  /\ Kernels \subseteq Configurations
  /\ MaxCalls \in Nat

VARIABLES kernel,    \* the kernel each process runs
          pending,   \* the source it looked up in vain and is translating
          store,     \* the shared cache: at most one entry per key
          audit,     \* the kernel's AuditTrail._buffer
          register,  \* the tokens noted in ctx.unresolved_ambiguities
          evidence,  \* the kernel's EvidenceRegistry
          results    \* the TranslationResults it got

vars == <<kernel, pending, store, audit, register, evidence, results>>
local == <<audit, register, evidence, results>>

-----------------------------------------------------------------------------
SetOf(seq) == {seq[i] : i \in 1..Len(seq)}

\* Fault: a key without the endpoint.
KeyOf_endpointless(k, s) == <<s, SetOf(Glossary[k.module]), "rule-based">>

\* CacheKeyContext.key(): _hash_set forgets the order of the glossary, which is
\* the selected module's; model_endpoint only tells the two paths apart and
\* model_version is a literal.  Neither the configured model nor the module is in it.
KeyOf(k, s) == <<s, SetOf(Glossary[k.module]), IF k.llm THEN "llm" ELSE "rule-based">>
Contents == {SetOf(g) : g \in Glossaries}
Keys == Sources \X Contents \X {"llm", "rule-based"}

\* What _rule_translate and the LLM callback make of a source under a glossary.
\* The mappings are applied in their order, each to what the ones before it left:
\* of two orders of mappings that overlap each makes its own text.
RuleTranslate(s, m, g) == [source |-> s, by |-> m, glossary |-> g, answer |-> RuleAnswer]
LLMTranslate(s, model, g, a) == [source |-> s, by |-> model, glossary |-> g, answer |-> a]
Translations == [source : Sources, by : Modules \cup Models, glossary : Glossaries,
                 answer : Answers \cup {RuleAnswer}]

\* The content-addressed id of the evidence for a translation.
Bases == {"rule-based", "LLM decision", "degraded"}
EvidenceId(target, basis) == [target |-> target, basis |-> basis]
EvidenceIds == [target : Translations, basis : Bases]

\* A TranslationResult: `effects` are the tokens of audit_side_effects.
Entries == [translation : Translations, id : EvidenceIds, effects : Seq(Tokens)]
EntryOf(target, basis, effects) ==
  [translation |-> target, id |-> EvidenceId(target, basis), effects |-> effects]

\* Audit records; `token` and `chain` hold at most one element.
Translated(id, degraded) ==
  [isa |-> "TRANSLATE_SEGMENT", token |-> {}, chain |-> {id}, degraded |-> degraded]
UnknownTerm(t) ==
  [isa |-> "EXCEPTION_HANDLER", token |-> {t}, chain |-> {}, degraded |-> FALSE]
UnknownTerms(tokens) == [i \in 1..Len(tokens) |-> UnknownTerm(tokens[i])]

-----------------------------------------------------------------------------
Init ==
  /\ kernel \in [Processes -> Kernels]
  /\ pending = [p \in Processes |-> {}]
  /\ store = [key \in Keys |-> {}]
  /\ audit = [p \in Processes |-> <<>>]
  /\ register = [p \in Processes |-> {}]
  /\ evidence = [p \in Processes |-> {}]
  /\ results = [p \in Processes |-> <<>>]

\* A process exits, or dies, and starts a new kernel on the same cache.
Boot(p) ==
  /\ \E k \in Kernels : kernel' = [kernel EXCEPT ![p] = k]
  /\ pending' = [pending EXCEPT ![p] = {}]
  /\ audit' = [audit EXCEPT ![p] = <<>>]
  /\ register' = [register EXCEPT ![p] = {}]
  /\ evidence' = [evidence EXCEPT ![p] = {}]
  /\ results' = [results EXCEPT ![p] = <<>>]
  /\ UNCHANGED store

\* TranslationCache.get and set.
Get(p, s) == IF kernel[p].cached THEN store[KeyOf(kernel[p], s)] ELSE {}

Set(p, s, entry) ==
  store' = IF kernel[p].cached THEN [store EXCEPT ![KeyOf(kernel[p], s)] = {entry}] ELSE store

MayCall(p) == pending[p] = {} /\ Len(results[p]) < MaxCalls

Returns(p, s, target) ==
  results' = [results EXCEPT ![p] = Append(@, [source |-> s, translation |-> target])]

\* Fault: the hit does not replay the side effects (TRA-A7-001).
Hit_silent(p, s) ==
  /\ MayCall(p)
  /\ \E entry \in Get(p, s) :
       /\ audit' = [audit EXCEPT ![p] = Append(@, Translated(entry.id, FALSE))]
       /\ Returns(p, s, entry.translation)
  /\ UNCHANGED <<kernel, pending, store, register, evidence>>

\* A hit: the record of the translation, then the stored side effects.
\* The register and the evidence of this kernel are not told.
Hit(p, s) ==
  /\ MayCall(p)
  /\ \E entry \in Get(p, s) :
       /\ audit' = [audit EXCEPT ![p] =
                      @ \o <<Translated(entry.id, FALSE)>> \o UnknownTerms(entry.effects)]
       /\ Returns(p, s, entry.translation)
  /\ UNCHANGED <<kernel, pending, store, register, evidence>>

\* A miss: other processes may act until the translation is stored.
Miss(p, s) ==
  /\ MayCall(p)
  /\ Get(p, s) = {}
  /\ pending' = [pending EXCEPT ![p] = {s}]
  /\ UNCHANGED <<kernel, store, local>>

\* What the three ways to complete a miss share: the new evidence, the entry,
\* the result and, appended after `before`, the record.
Complete(p, s, target, basis, before, effects) ==
  /\ evidence' = [evidence EXCEPT ![p] = @ \cup {EvidenceId(target, basis)}]
  /\ Set(p, s, EntryOf(target, basis, effects))
  /\ audit' = [audit EXCEPT ![p] =
                 @ \o before \o <<Translated(EvidenceId(target, basis), basis = "degraded")>>]
  /\ Returns(p, s, target)
  /\ pending' = [pending EXCEPT ![p] = {}]
  /\ UNCHANGED kernel

\* The rule path, which does not hand ctx.module on.
TranslateByRule(p) ==
  /\ ~kernel[p].llm
  /\ \E s \in pending[p] :
       LET g == Glossary[kernel[p].module]
           unknown == Unknown[<<s, DefaultModule, g>>] IN
       /\ register' = [register EXCEPT ![p] = @ \cup SetOf(unknown)]
       /\ Complete(p, s, RuleTranslate(s, DefaultModule, g), "rule-based",
                   UnknownTerms(unknown), unknown)

\* The callback returns a text without certainty drift.
TranslateByLLM(p) ==
  /\ kernel[p].llm
  /\ \E s \in pending[p], a \in Answers :
       Complete(p, s, LLMTranslate(s, kernel[p].model, Glossary[kernel[p].module], a),
                "LLM decision", <<>>, <<>>)
  /\ UNCHANGED register

\* Fault: the degraded call falls through to a second record (TRA-015).
Degrade_twice(p) ==
  /\ kernel[p].llm
  /\ \E s \in pending[p] :
       LET m == kernel[p].module
           target == RuleTranslate(s, m, Glossary[m])
           id == EvidenceId(target, "degraded") IN
       /\ register' = [register EXCEPT ![p] = @ \cup SetOf(Unknown[<<s, m, Glossary[m]>>])]
       /\ Complete(p, s, target, "degraded", <<Translated(id, TRUE)>>, <<>>)

\* The callback raises or returns nothing: the rule path with ctx.module.  The
\* unknown tokens are noted in the register and dropped, and the entry looks
\* like any other.
Degrade(p) ==
  /\ kernel[p].llm
  /\ \E s \in pending[p] :
       LET m == kernel[p].module IN
       /\ register' = [register EXCEPT ![p] = @ \cup SetOf(Unknown[<<s, m, Glossary[m]>>])]
       /\ Complete(p, s, RuleTranslate(s, m, Glossary[m]), "degraded", <<>>, <<>>)

\* The callback drifted: CertaintyConflict leaves before anything is stored.
ConflictRaised(p) ==
  /\ kernel[p].llm
  /\ pending[p] # {}
  /\ pending' = [pending EXCEPT ![p] = {}]
  /\ UNCHANGED <<kernel, store, local>>

\* invalidate(): clear() removes every entry; with a pattern the matching keys
\* are deleted one after the other.
Clear ==
  /\ store' = [key \in Keys |-> {}]
  /\ UNCHANGED <<kernel, pending, local>>

Delete(key) ==
  /\ store' = [store EXCEPT ![key] = {}]
  /\ UNCHANGED <<kernel, pending, local>>

Next ==
  \/ \E p \in Processes :
       \/ Boot(p)
       \/ \E s \in Sources : Hit(p, s) \/ Miss(p, s)
       \/ TranslateByRule(p) \/ TranslateByLLM(p) \/ Degrade(p) \/ ConflictRaised(p)
  \/ Clear
  \/ \E key \in Keys : Delete(key)

Spec == Init /\ [][Next]_vars
=============================================================================
