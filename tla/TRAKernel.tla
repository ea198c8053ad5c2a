----------------------------- MODULE TRAKernel ------------------------------
(***************************************************************************)
(* TRAKernel.run (tra/kernel.py) with the ISA instructions it drives       *)
(* (tra/isa.py), the EXCEPTION_HANDLER path (_recover), the repair loop    *)
(* and its human hand-off, the L3/L4 conformance gate, the audit flushes   *)
(* and the artifact export.                                                *)
(*                                                                         *)
(* The text of the candidate is abstracted to what the control flow tells  *)
(* apart: its hash (a version number), whether it is empty, and the set of *)
(* issues verify_output would report about it.  A step of this module is   *)
(* one ISA instruction together with the try/except around it and the      *)
(* lifecycle transition that follows.                                      *)
(*                                                                         *)
(* An operator named X_<fault> is not used by the specification: it is X   *)
(* with a plausible bug, kept to check that a property notices it.         *)
(***************************************************************************)
EXTENDS Integers, Sequences, Policy, Recovery

CONSTANTS
    Issues,          \* what verify_output can report
    Subsystem,       \* [Issues -> VerifiedSubsystems]
    FenceLoss,       \* the issue "Code fence count mismatch after translation"
    Forced,          \* the synthetic diagnostic of --force-unrecoverable
    Configs,         \* the bootstrap configurations considered
    Requests,        \* the documents and callbacks run() is called with
    MayRaise,        \* instructions a third-party language module makes raise
    MaxRuns          \* bound: calls of run() on one kernel object

ConformanceLevels == {"L1_BASIC", "L2_PROFESSIONAL", "L3_STRICT", "L4_FORENSIC"}

ASSUME IssuesAssumption ==
    /\ Subsystem \in [Issues -> VerifiedSubsystems]
    /\ FenceLoss \in Issues
    /\ Subsystem[FenceLoss] = "structural"
    /\ Forced \notin Issues

ASSUME ConfigsAssumption ==
    Configs \subseteq [level : ConformanceLevels, repair_max_retries : Int,
                       interactive : BOOLEAN, force_unrecoverable : BOOLEAN]

\* malformed: empty, or an unclosed fence; fenced: has a ``` block;
\* linked: has internal links; llm: an llm_translate callback is supplied.
ASSUME RequestsAssumption ==
    Requests \subseteq [malformed : BOOLEAN, fenced : BOOLEAN,
                        linked : BOOLEAN, llm : BOOLEAN]

ASSUME BoundsAssumption ==
    /\ MayRaise \subseteq {"BUILD_GLOSSARY", "BUILD_ENTITY_TABLE", "VERIFY_OUTPUT"}
    /\ MaxRuns \in Nat

VARIABLES
    cfg, req,        \* inputs, never changed
    pc,              \* the instruction run() executes next
    state,           \* TRAKernel.state
    execution_log,   \* ctx.execution_log
    target,          \* the candidate translation
    pending,         \* diagnostics queued for REPAIR_SEGMENT
    attempt,         \* of _repair_loop
    ambiguities,     \* kinds of notes in ctx.unresolved_ambiguities
    repair_history,  \* ctx.repair_history, as the diagnostics repaired
    audit,           \* AuditTrail._buffer
    flushed,         \* AuditTrail._flushed
    exported,        \* artifact files written, in the order of Artifacts
    outcome,         \* how run() ended
    runs             \* calls of run() so far

inputs == <<cfg, req>>
loop   == <<pending, attempt, repair_history>>
trail  == <<audit, flushed>>
vars   == <<cfg, req, pc, state, execution_log, target, pending, attempt,
            repair_history, ambiguities, audit, flushed, exported, outcome, runs>>

-----------------------------------------------------------------------------
(* The lifecycle. *)

KernelOrder == <<"BOOTSTRAP", "INITIALIZE_RUNTIME", "ANALYZE_DOCUMENT",
                 "BUILD_ARTIFACTS", "EXECUTE_TRANSLATION", "VERIFY_OUTPUT",
                 "REPAIR_IF_NEEDED", "AUDIT_DIAGNOSTICS", "EMIT_PAYLOAD">>

KernelIndex == [BOOTSTRAP |-> 0, INITIALIZE_RUNTIME |-> 1, ANALYZE_DOCUMENT |-> 2,
                BUILD_ARTIFACTS |-> 3, EXECUTE_TRANSLATION |-> 4, VERIFY_OUTPUT |-> 5,
                REPAIR_IF_NEEDED |-> 6, AUDIT_DIAGNOSTICS |-> 7, EMIT_PAYLOAD |-> 8]

KernelStates == DOMAIN KernelIndex

\* Fault: the guard lets a state follow itself (the defect of TRA-049).
LegalTransition_same_state(next) == KernelIndex[next] >= KernelIndex[state]

\* _transition raises unless the next state is strictly later.
LegalTransition(next) == KernelIndex[next] > KernelIndex[state]

Transition(next) ==
    /\ LegalTransition(next)
    /\ state' = next
    /\ execution_log' = Append(execution_log, next)

NoTransition == UNCHANGED <<state, execution_log>>

Strict == cfg.level \in {"L3_STRICT", "L4_FORENSIC"}

-----------------------------------------------------------------------------
(* Candidates and diagnostics. *)

Targets == [ver : Nat, empty : BOOLEAN, viol : SUBSET Issues]

NoTarget == [ver |-> 0, empty |-> TRUE, viol |-> {}]

Text(ver, V) == [ver |-> ver, empty |-> FALSE, viol |-> V]

Structural(V) == {i \in V : Subsystem[i] = "structural"}

\* An empty text cannot contain a source term or a forbidden target.
EmptyTextIssues == {i \in Issues : Subsystem[i] \notin {"terminology", "epistemic"}}

SubsystemOf(d) == IF d = Forced THEN "force_unrecoverable" ELSE Subsystem[d]

\* The two synthetic diagnostics of the kernel are created BLOCKING.
SeverityOf(d) == IF d = Forced THEN "BLOCKING" ELSE severity_of(Subsystem[d])

Blocking(D) == {d \in D : SeverityOf(d) = "BLOCKING"}

Worst(D) == IF Blocking(D) # {} THEN "BLOCKING"
            ELSE IF D # {} THEN "WARNING" ELSE "NONE"

\* _repair_loop puts BLOCKING before WARNING and keeps the order of
\* verify_output otherwise; the forced diagnostic was appended last.
QueueRank(d) == (IF SeverityOf(d) = "BLOCKING" THEN 0 ELSE 10)
                + (IF d = Forced THEN 9 ELSE VerifyRank[Subsystem[d]])

First(D) == {d \in D : \A e \in D : QueueRank(d) <= QueueRank(e)}

-----------------------------------------------------------------------------
(* Audit records. *)

Record(isa, code, flag, ver) == [isa |-> isa, code |-> code, flag |-> flag, ver |-> ver]

Done(isa)       == Record(isa, "OK", "NONE", 0)
Verified(t)     == Record("VERIFY_OUTPUT", "OK", Worst(t.viol), t.ver)
Repaired(t, d)  == Record("REPAIR_SEGMENT", "OK", SeverityOf(d), t.ver)
Handled(code)   == Record("EXCEPTION_HANDLER", code, route_exception[code].severity, 0)

\* build_entity_table passes no flags_raised for the token it found ambiguous.
AmbiguousToken == Record("EXCEPTION_HANDLER", "ENTITY_AMBIGUITY", "NONE", 0)

\* The record of a hand-off names the issue the loop gave up on, which tells it
\* from the record of an Unrecoverable raised by a callback.
GaveUp == Record("EXCEPTION_HANDLER", "UNRECOVERABLE: issue",
                 route_exception["UNRECOVERABLE"].severity, 0)

Noted(code) == IF route_exception[code].noted THEN {code} ELSE {}

\* _recover: the recovery note of an exception that names its term, and the
\* EXCEPTION_HANDLER record.
RecoverNoting(code, notes) ==
    /\ ambiguities' = ambiguities \cup notes
    /\ audit' = Append(audit, Handled(code))

Recover(code) == RecoverNoting(code, Noted(code))

\* Fault: off by one in the count of written records.
Flush_overcounts(buffer) == flushed' = Len(buffer) + 1

Flush(buffer) == flushed' = Len(buffer)

\* run() ends here.
Return(result) == pc' = "done" /\ outcome' = result

Artifacts ==
    <<"glossary.yaml", "entity_table.yaml", "structural_map.json",
      "style_profile.yaml", "execution_log.json", "repair_history.jsonl">>
    \o IF cfg.level = "L4_FORENSIC"
       THEN <<"evidence_trace.jsonl", "ambiguity_register.json">> ELSE <<>>
-----------------------------------------------------------------------------
(* The steps of run(). *)

Init ==
    /\ cfg \in Configs
    /\ req \in Requests
    /\ pc = "idle"
    /\ state = "BOOTSTRAP"
    /\ execution_log = <<>>
    /\ target = NoTarget
    /\ pending = {} /\ attempt = 1 /\ repair_history = <<>>
    /\ ambiguities = {}
    /\ audit = <<>> /\ flushed = 0
    /\ exported = 0
    /\ outcome = "running"
    /\ runs = 0

\* run() is called; on a kernel that already ran, the transition raises.
Run ==
    /\ pc \in {"idle", "done"}
    /\ outcome # "crashed"
    /\ runs < MaxRuns
    /\ runs' = runs + 1
    /\ \/ /\ Transition("INITIALIZE_RUNTIME")
          /\ pc' = "analyze"
          /\ outcome' = "running"
       \/ /\ ~LegalTransition("INITIALIZE_RUNTIME")
          /\ NoTransition
          /\ Return("raised")
    /\ UNCHANGED <<inputs, loop, trail, target, ambiguities, exported>>

AnalyzeDocument ==
    /\ pc = "analyze"
    /\ ~req.malformed
    /\ audit' = Append(audit, Done("ANALYZE_DOCUMENT"))
    /\ Transition("ANALYZE_DOCUMENT")
    /\ pc' = "glossary"
    /\ UNCHANGED <<inputs, loop, target, ambiguities, flushed, exported, outcome, runs>>

\* Fault: the EXCEPTION_HANDLER record is not persisted.
AnalyzeFails_unflushed ==
    /\ pc = "analyze"
    /\ req.malformed
    /\ Recover("BROKEN_MARKDOWN")
    /\ Return(IF Strict THEN "rejected" ELSE "empty")
    /\ NoTransition
    /\ UNCHANGED <<inputs, loop, target, flushed, exported, runs>>

\* Fault: the early return bypasses the gate (the defect of TRA-036).
AnalyzeFails_returns_empty ==
    /\ pc = "analyze"
    /\ req.malformed
    /\ Recover("BROKEN_MARKDOWN")
    /\ Flush(audit')
    /\ Return("empty")
    /\ NoTransition
    /\ UNCHANGED <<inputs, loop, target, exported, runs>>

\* BrokenMarkdown ends the run: an empty result, or a rejection at L3/L4.
AnalyzeFails ==
    /\ pc = "analyze"
    /\ req.malformed
    /\ Recover("BROKEN_MARKDOWN")
    /\ Flush(audit')
    /\ Return(IF Strict THEN "rejected" ELSE "empty")
    /\ NoTransition
    /\ UNCHANGED <<inputs, loop, target, exported, runs>>

BuildGlossary ==
    /\ pc = "glossary"
    /\ \/ /\ audit' = Append(audit, Done("BUILD_GLOSSARY"))
          /\ UNCHANGED ambiguities
       \/ /\ "BUILD_GLOSSARY" \in MayRaise
          /\ Recover("GLOSSARY_CONFLICT")
    /\ pc' = "entities"
    /\ NoTransition
    /\ UNCHANGED <<inputs, loop, target, flushed, exported, outcome, runs>>

\* An ambiguous token is recorded without raising; only a module's
\* entity_type_hint can make the instruction itself fail.
BuildEntityTable ==
    /\ pc = "entities"
    /\ \/ /\ audit' = Append(audit, Done("BUILD_ENTITY_TABLE"))
          /\ UNCHANGED ambiguities
       \/ /\ audit' = audit \o <<AmbiguousToken, Done("BUILD_ENTITY_TABLE")>>
          /\ ambiguities' = ambiguities \cup Noted("ENTITY_AMBIGUITY")
       \/ /\ "BUILD_ENTITY_TABLE" \in MayRaise
          /\ Recover("ENTITY_AMBIGUITY")
    /\ Transition("BUILD_ARTIFACTS")
    /\ pc' = "translate"
    /\ UNCHANGED <<inputs, loop, target, flushed, exported, outcome, runs>>

\* How an unknown term may show: the rule path notes and records it, a warm
\* cache only records it again, the degraded LLM path only notes it.
UnknownTermTraces ==
    {<<{}, <<>>>>} \cup
    IF req.llm THEN {<<Noted("UNKNOWN_TERM"), <<>>>>}
    ELSE {<<Noted("UNKNOWN_TERM"), <<Handled("UNKNOWN_TERM")>>>>,
          <<{}, <<Handled("UNKNOWN_TERM")>>>>}

ExecuteTranslation ==
    /\ pc = "translate"
    /\ \E V \in SUBSET Issues, unknown \in UnknownTermTraces :
          /\ target' = Text(target.ver + 1, V)
          /\ ambiguities' = ambiguities \cup unknown[1]
          /\ audit' = audit \o unknown[2] \o <<Done("TRANSLATE_SEGMENT")>>
    /\ Transition("EXECUTE_TRANSLATION")
    /\ pc' = "verify"
    /\ UNCHANGED <<inputs, loop, flushed, exported, outcome, runs>>

EmptyCandidate(ver) ==
    {[ver |-> ver, empty |-> TRUE, viol |-> V] :
        V \in {W \in SUBSET EmptyTextIssues : req.fenced => FenceLoss \in W}}

\* Fault: the exception is swallowed where it is caught.
TranslationRaises_swallowed ==
    /\ pc = "translate"
    /\ req.llm
    /\ target' \in EmptyCandidate(target.ver + 1)
    /\ Transition("EXECUTE_TRANSLATION")
    /\ pc' = "verify"
    /\ UNCHANGED <<inputs, loop, trail, ambiguities, exported, outcome, runs>>

\* The model drifted a certainty marker, or the callback raised a TRAException
\* of any class, with or without the term it is about: translate_segment lets
\* both through, and the candidate becomes "".
TranslationRaises ==
    /\ pc = "translate"
    /\ req.llm
    /\ \E code \in ExceptionCodes : \E notes \in {Noted(code), {}} :
          RecoverNoting(code, notes)
    /\ target' \in EmptyCandidate(target.ver + 1)
    /\ Transition("EXECUTE_TRANSLATION")
    /\ pc' = "verify"
    /\ UNCHANGED <<inputs, loop, flushed, exported, outcome, runs>>

ForcedDiagnostic == IF cfg.force_unrecoverable THEN {Forced} ELSE {}

VerifyOutput ==
    /\ pc = "verify"
    /\ \/ /\ audit' = Append(audit, Verified(target))
          /\ pending' = target.viol \cup ForcedDiagnostic
          /\ UNCHANGED ambiguities
       \/ /\ "VERIFY_OUTPUT" \in MayRaise
          /\ Recover("TRA_ERROR")
          /\ pending' = ForcedDiagnostic
    /\ Transition("VERIFY_OUTPUT")
    /\ pc' = "repair"
    /\ UNCHANGED <<inputs, target, attempt, repair_history, flushed,
                   exported, outcome, runs>>

-----------------------------------------------------------------------------
(* The repair loop. *)

LoopGuard == pending # {} /\ attempt <= cfg.repair_max_retries

\* Diagnostics repair_segment gives up on before touching the text.
GivesUp(d) == \/ SubsystemOf(d) = "force_unrecoverable"
              \/ SubsystemOf(d) = "structural" /\ attempt >= cfg.repair_max_retries

\* Only terminology and epistemic diagnostics have a rewrite: a substitution
\* inside lines, which keeps the structure and may change anything else.
Repairs(t, d) ==
    {t} \cup IF SubsystemOf(d) \in {"terminology", "epistemic"}
            THEN {Text(t.ver + 1, V) :
                     V \in {W \in SUBSET Issues : Structural(W) = Structural(t.viol)}}
            ELSE {}

\* Fault: only a BLOCKING the text did not have before is refused.
Accepts_old_issues(t) == Blocking(t.viol) \subseteq Blocking(target.viol)

\* repair_segment keeps a rewrite only if its verification raises no BLOCKING.
Accepts(t) == Blocking(t.viol) = {}

RepairSegment ==
    /\ pc = "repair" /\ LoopGuard
    /\ \E d \in First(pending) :
          /\ ~GivesUp(d)
          /\ \E t \in Repairs(target, d) :
                /\ Accepts(t)
                /\ target' = t
                /\ audit' = audit \o <<Verified(t), Repaired(t, d)>>
          /\ repair_history' = Append(repair_history, d)
    /\ pc' = "reverify"
    /\ NoTransition
    /\ UNCHANGED <<inputs, pending, attempt, ambiguities, flushed,
                   exported, outcome, runs>>

\* Fault: --interactive is not honoured.
HandOff_unattended(records) ==
    /\ ambiguities' = ambiguities \cup {"UNRECOVERABLE"}
    /\ audit' = audit \o records \o <<GaveUp>>
    /\ pc' = "anchors"

\* What follows the except Unrecoverable of the loop.
HandOff(records) ==
    /\ ambiguities' = ambiguities \cup {"UNRECOVERABLE"}
    /\ audit' = audit \o records \o <<GaveUp>>
    /\ pc' = IF cfg.interactive THEN "hitl" ELSE "anchors"

\* Fault: a diagnostic there is no repair for is skipped by a continue that
\* neither takes it from the queue nor counts the attempt.
RepairUnrecoverable_skips ==
    /\ pc = "repair" /\ LoopGuard
    /\ \E d \in First(pending) :
          \/ GivesUp(d) /\ UNCHANGED <<ambiguities, audit, pc>>
          \/ /\ ~GivesUp(d)
             /\ \E t \in Repairs(target, d) :
                   ~Accepts(t) /\ HandOff(<<Verified(t)>>)
    /\ NoTransition
    /\ UNCHANGED <<inputs, target, pending, attempt, repair_history, flushed,
                   exported, outcome, runs>>

RepairUnrecoverable ==
    /\ pc = "repair" /\ LoopGuard
    /\ \E d \in First(pending) :
          \/ GivesUp(d) /\ HandOff(<<>>)
          \/ /\ ~GivesUp(d)
             /\ \E t \in Repairs(target, d) :
                   ~Accepts(t) /\ HandOff(<<Verified(t)>>)
    /\ NoTransition
    /\ UNCHANGED <<inputs, target, pending, attempt, repair_history, flushed,
                   exported, outcome, runs>>

\* The loop only catches Unrecoverable: another TRAException raised by the
\* verification inside repair_segment leaves run().
RepairUncaught ==
    /\ pc = "repair" /\ LoopGuard
    /\ "VERIFY_OUTPUT" \in MayRaise
    /\ \E d \in First(pending) : ~GivesUp(d)
    /\ Return("raised")
    /\ NoTransition
    /\ UNCHANGED <<inputs, loop, trail, target, ambiguities, exported, runs>>

ReverifyOutput ==
    /\ pc = "reverify"
    /\ \/ /\ audit' = Append(audit, Verified(target))
          /\ pending' = target.viol
          /\ UNCHANGED ambiguities
       \/ /\ "VERIFY_OUTPUT" \in MayRaise
          /\ Recover("TRA_ERROR")
          /\ pending' = {}
    /\ attempt' = attempt + 1
    /\ pc' = "repair"
    /\ NoTransition
    /\ UNCHANGED <<inputs, target, repair_history, flushed, exported,
                   outcome, runs>>

\* accept and skip keep the candidate; override adopts any text, unverified.
ReviewDecision ==
    /\ pc = "hitl"
    /\ \/ UNCHANGED target
       \/ \E V \in SUBSET Issues : target' = Text(target.ver + 1, V)
       \/ \E V \in SUBSET EmptyTextIssues :
             target' = [ver |-> target.ver + 1, empty |-> TRUE, viol |-> V]
    /\ ambiguities' = ambiguities \cup {"HITL"}
    /\ pc' = "anchors"
    /\ NoTransition
    /\ UNCHANGED <<inputs, loop, trail, exported, outcome, runs>>

-----------------------------------------------------------------------------
(* Anchor rewriting, the gate, and emission. *)

\* rewrite_links drops the closing line of every fence it walks over, so a
\* fenced document loses its fence balance; only link targets change else.
Rewrites(t) ==
    {u \in {t} \cup {Text(t.ver + 1, V) : V \in SUBSET Issues} :
        /\ u # t => ~t.empty /\ (req.fenced \/ req.linked)
        /\ Structural(u.viol) \ {FenceLoss} = Structural(t.viol) \ {FenceLoss}
        /\ ~req.linked => u.viol \ Structural(u.viol) = t.viol \ Structural(t.viol)
        /\ ~req.fenced => (FenceLoss \in u.viol <=> FenceLoss \in t.viol)
        /\ req.fenced /\ ~t.empty /\ FenceLoss \notin t.viol => FenceLoss \in u.viol}

RewriteAnchors ==
    /\ pc = "anchors" \/ (pc = "repair" /\ ~LoopGuard)
    /\ Transition("REPAIR_IF_NEEDED")
    /\ target' \in Rewrites(target)
    /\ \/ UNCHANGED ambiguities
       \/ /\ req.linked /\ ~target.empty
          /\ ambiguities' = ambiguities \cup {"BROKEN_LINK"}
    /\ pc' = "gate"
    /\ UNCHANGED <<inputs, loop, trail, exported, outcome, runs>>

Conformant == Blocking(target.viol) = {} /\ "BROKEN_LINK" \notin ambiguities

\* L1 and L2 have no gate.
GateSkipped ==
    /\ pc = "gate"
    /\ ~Strict
    /\ pc' = "audit"
    /\ NoTransition
    /\ UNCHANGED <<inputs, loop, trail, target, ambiguities, exported, outcome, runs>>

\* Fault: the gate trusts the loop's diagnostics, which are older than the
\* anchor rewrite (the defect of TRA-037).
GatePasses_unverified ==
    /\ pc = "gate"
    /\ Strict
    /\ Blocking(pending) = {} /\ "BROKEN_LINK" \notin ambiguities
    /\ pc' = "audit"
    /\ NoTransition
    /\ UNCHANGED <<inputs, loop, trail, target, ambiguities, exported, outcome, runs>>

GatePasses ==
    /\ pc = "gate"
    /\ Strict
    /\ Conformant
    /\ audit' = Append(audit, Verified(target))
    /\ pc' = "audit"
    /\ NoTransition
    /\ UNCHANGED <<inputs, loop, target, ambiguities, flushed, exported, outcome, runs>>

GateRejects ==
    /\ pc = "gate"
    /\ Strict
    /\ \/ /\ ~Conformant
          /\ audit' = Append(audit, Verified(target))
          /\ UNCHANGED ambiguities
       \/ /\ "VERIFY_OUTPUT" \in MayRaise
          /\ Recover("TRA_ERROR")
    /\ Flush(audit')
    /\ Return("rejected")
    /\ NoTransition
    /\ UNCHANGED <<inputs, loop, target, exported, runs>>

\* Fault: the trail is left in memory.
AuditDiagnostics_unflushed ==
    /\ pc = "audit"
    /\ Transition("AUDIT_DIAGNOSTICS")
    /\ pc' = "emit"
    /\ UNCHANGED <<inputs, loop, trail, target, ambiguities, exported, outcome, runs>>

AuditDiagnostics ==
    /\ pc = "audit"
    /\ Transition("AUDIT_DIAGNOSTICS")
    /\ Flush(audit)
    /\ pc' = "emit"
    /\ UNCHANGED <<inputs, loop, target, ambiguities, audit, exported, outcome, runs>>

EmitPayload ==
    /\ pc = "emit"
    /\ Transition("EMIT_PAYLOAD")
    /\ pc' = "export"
    /\ UNCHANGED <<inputs, loop, trail, target, ambiguities, exported, outcome, runs>>

\* The next file of _export_artifacts, then of _export_forensics.
ExportArtifact ==
    /\ pc = "export"
    /\ exported' = exported + 1
    /\ IF exported' = Len(Artifacts) THEN Return("emitted")
                                     ELSE UNCHANGED <<pc, outcome>>
    /\ NoTransition
    /\ UNCHANGED <<inputs, loop, trail, target, ambiguities, runs>>

\* The process dies, is interrupted, or an error that is no TRAException
\* (an OSError, say) leaves run().  What is in memory is lost.
Crash ==
    /\ pc \notin {"idle", "done"}
    /\ Return("crashed")
    /\ NoTransition
    /\ UNCHANGED <<inputs, loop, trail, target, ambiguities, exported, runs>>

Pipeline ==
    \/ AnalyzeDocument \/ AnalyzeFails \/ BuildGlossary \/ BuildEntityTable
    \/ ExecuteTranslation \/ TranslationRaises \/ VerifyOutput
    \/ RepairSegment \/ RepairUnrecoverable \/ RepairUncaught \/ ReverifyOutput
    \/ ReviewDecision \/ RewriteAnchors
    \/ GateSkipped \/ GatePasses \/ GateRejects
    \/ AuditDiagnostics \/ EmitPayload \/ ExportArtifact

Next == Run \/ Pipeline \/ Crash

Spec == Init /\ [][Next]_vars

\* run() is sequential code: once called it keeps executing.  The fairness of
\* ReviewDecision assumes that the reviewer answers the prompt.
FairSpec == Spec /\ WF_vars(Pipeline)
=============================================================================
