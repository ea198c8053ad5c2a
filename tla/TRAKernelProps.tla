--------------------------- MODULE TRAKernelProps ---------------------------
(***************************************************************************)
(* What TRAKernel.run promises, and what its comments and documents say of *)
(* it that the code does not keep (the last section; each of those is the  *)
(* single property of a run that finds it violated).                       *)
(***************************************************************************)
EXTENDS TRAKernel

ProgramCounters == {"idle", "analyze", "glossary", "entities", "translate", "verify",
                    "repair", "reverify", "hitl", "anchors", "gate", "audit", "emit",
                    "export", "done"}

Outcomes == {"running", "emitted", "empty", "rejected", "raised", "crashed"}

Notes == ExceptionCodes \cup {"HITL", "BROKEN_LINK"}

AuditRecords == [isa : {"ANALYZE_DOCUMENT", "BUILD_GLOSSARY", "BUILD_ENTITY_TABLE",
                        "TRANSLATE_SEGMENT", "VERIFY_OUTPUT", "REPAIR_SEGMENT",
                        "EXCEPTION_HANDLER"},
                 code : ExceptionCodes \cup {"OK", "UNRECOVERABLE: issue"},
                 flag : Severities \cup {"NONE"}, ver : Nat]

\* The variables have their types, and the trail never claims to have
\* persisted more records than it holds.
TypeOK ==
    /\ cfg \in Configs
    /\ req \in Requests
    /\ pc \in ProgramCounters
    /\ state \in KernelStates
    /\ execution_log \in Seq(KernelStates)
    /\ target \in Targets
    /\ pending \subseteq Issues \cup {Forced}
    /\ attempt \in Nat
    /\ repair_history \in Seq(Issues \cup {Forced})
    /\ ambiguities \subseteq Notes
    /\ audit \in Seq(AuditRecords)
    /\ flushed \in 0..Len(audit)
    /\ exported \in Nat
    /\ outcome \in Outcomes
    /\ runs \in Nat

-----------------------------------------------------------------------------
(* Safety. *)

LastRecord == audit[Len(audit)]

\* TRA-037: at L3/L4 the payload that is returned is the very text the last
\* VERIFY_OUTPUT record of the persisted trail judged, and that record is clean.
CertifiedEmission ==
    outcome = "emitted" /\ Strict =>
        /\ Conformant
        /\ flushed = Len(audit)
        /\ Len(audit) > 0
        /\ LastRecord = Record("VERIFY_OUTPUT", "OK", "NONE", target.ver)

\* Whenever run() ends by a decision of its own (a payload, the empty payload
\* of a document it could not analyse, a rejection), every audit record it made
\* is on disk; in particular no EXCEPTION_HANDLER record of a rejection is lost.
TrailPersisted == outcome \in {"emitted", "empty", "rejected"} => flushed = Len(audit)

\* An artifact file exists only once the whole trail is on disk, and at L3/L4
\* only for a conformant candidate, even if the process dies while exporting.
ArtifactsAfterTrail ==
    exported > 0 => /\ state = "EMIT_PAYLOAD"
                    /\ flushed = Len(audit)
                    /\ Strict => Conformant

IsHalt(r) == r.isa = "EXCEPTION_HANDLER" /\ r.code = "UNRECOVERABLE: issue"

HaltRecords == {i \in 1..Len(audit) : IsHalt(audit[i])}

\* The ambiguity register and the audit trail tell the same story of a
\* hand-off: an UNRECOVERABLE note iff exactly one HALT record, a reviewer's
\* resolution only after it, and with --interactive always after it.
HandOffsAgree ==
    /\ "UNRECOVERABLE" \in ambiguities <=> HaltRecords # {}
    /\ \A i, j \in HaltRecords : i = j
    /\ "HITL" \in ambiguities => cfg.interactive /\ HaltRecords # {}
    /\ pc \in {"gate", "audit", "emit", "export"} /\ cfg.interactive
          /\ HaltRecords # {} => "HITL" \in ambiguities

\* However large repair_max_retries is, at most one REPAIR_SEGMENT succeeds in
\* a run: a repair is only kept if nothing BLOCKING is left to repair.
RepairsAtMostOnce ==
    /\ Len(repair_history) <= 1
    /\ repair_history # <<>> /\ pc \in {"reverify", "gate"} /\ "HITL" \notin ambiguities
          => "UNRECOVERABLE" \notin ambiguities

\* A repaired candidate that reaches the loop test again has nothing pending
\* but WARNINGs, so attempt never counts past 2.
RepairDrainsQueue == attempt > 1 => attempt = 2 /\ Blocking(pending) = {}

\* A trail that tells why there is no translation: no TRANSLATE_SEGMENT ended,
\* and after the tables were built an exception was handled that is no hand-off.
Untranslated(records) == \A i \in DOMAIN records : records[i].isa # "TRANSLATE_SEGMENT"

TellsFailure(records) ==
    /\ Untranslated(records)
    /\ \E i \in DOMAIN records :
          /\ records[i].isa = "EXCEPTION_HANDLER" /\ ~IsHalt(records[i])
          /\ \A j \in DOMAIN records : j > i => records[j].isa # "BUILD_ENTITY_TABLE"

\* A document whose translation vanished is never returned without a trace.
\* The ambiguity register need not have one: an exception of the callback that
\* names no term, or has no note of its own, leaves none.  But the persisted
\* trail of an emitted empty payload tells that translation failed, unless the
\* register has the reviewer who asked for it.
EmptyPayloadExplained ==
    outcome = "emitted" /\ target.empty =>
        \/ "HITL" \in ambiguities
        \/ TellsFailure(SubSeq(audit, 1, flushed))

\* execution_log lists the states passed through, in the canonical order.
LogIsCanonicalPrefix ==
    execution_log = SubSeq(KernelOrder, 2, KernelIndex[state] + 1)

-----------------------------------------------------------------------------
(* The inductive invariant: what is true at each instruction of run(). *)

\* The lifecycle state run() is in while it executes an instruction.
StateAt == [idle |-> "BOOTSTRAP", analyze |-> "INITIALIZE_RUNTIME",
            glossary |-> "ANALYZE_DOCUMENT", entities |-> "ANALYZE_DOCUMENT",
            translate |-> "BUILD_ARTIFACTS", verify |-> "EXECUTE_TRANSLATION",
            repair |-> "VERIFY_OUTPUT", reverify |-> "VERIFY_OUTPUT",
            hitl |-> "VERIFY_OUTPUT", anchors |-> "VERIFY_OUTPUT",
            gate |-> "REPAIR_IF_NEEDED", audit |-> "REPAIR_IF_NEEDED",
            emit |-> "AUDIT_DIAGNOSTICS", export |-> "EMIT_PAYLOAD"]

ControlInv ==
    /\ pc # "done" => state = StateAt[pc]
    /\ pc = "done" => state # "BOOTSTRAP"
    /\ pc = "done" <=> outcome # "running"

\* What is known of the trail and the candidate once the gate is behind.
EmissionInv ==
    /\ pc \in {"emit", "export"} \/ outcome \in {"emitted", "empty", "rejected"}
          => flushed = Len(audit)
    /\ (pc \in {"audit", "emit", "export"} \/ outcome = "emitted") /\ Strict =>
          /\ Conformant
          /\ Len(audit) > 0
          /\ LastRecord = Record("VERIFY_OUTPUT", "OK", "NONE", target.ver)
    /\ exported > 0 => /\ pc \in {"export", "done"}
                       /\ state = "EMIT_PAYLOAD"
                       /\ flushed = Len(audit)
                       /\ Strict => Conformant

BeforeRepair == {"idle", "analyze", "glossary", "entities", "translate", "verify"}

\* A second attempt only happens with an empty queue, so there is none.
RepairInv ==
    /\ pc \in BeforeRepair \cup {"repair", "reverify"} => "UNRECOVERABLE" \notin ambiguities
    /\ pc \in BeforeRepair => attempt = 1 /\ repair_history = <<>>
    /\ pc = "reverify" => attempt = 1 /\ Len(repair_history) = 1 /\ target.viol = {}
    /\ pc = "repair" /\ attempt = 1 => repair_history = <<>>
    /\ pc \in {"hitl", "anchors"} => attempt = 1 /\ repair_history = <<>>
    /\ attempt \in {1, 2}
    /\ attempt = 2 => pending = {}
    /\ Len(repair_history) <= 1
    /\ repair_history # <<>> => "UNRECOVERABLE" \notin ambiguities

\* An empty candidate comes from a failed translation or from a reviewer.
EmptyInv ==
    /\ pc \in {"idle", "analyze", "glossary", "entities", "translate"} => Untranslated(audit)
    /\ (\/ pc \in {"verify", "repair", "reverify", "hitl", "anchors", "gate", "audit",
                   "emit", "export"}
        \/ outcome = "emitted")
          => (target.empty => "HITL" \in ambiguities \/ TellsFailure(audit))

\* Until a repair gives up nothing has been handed off; a review follows one.
HandOffInv ==
    /\ HandOffsAgree
    /\ pc \in BeforeRepair \cup {"repair", "reverify"} =>
          HaltRecords = {} /\ "HITL" \notin ambiguities
    /\ pc = "hitl" => cfg.interactive /\ HaltRecords # {}
    /\ pc = "anchors" /\ cfg.interactive => "HITL" \in ambiguities

KernelInv == TypeOK /\ ControlInv /\ EmissionInv /\ RepairInv /\ EmptyInv

-----------------------------------------------------------------------------
(* The abstract lifecycle. *)

ResultOf(o) == IF o \in {"raised", "crashed"} THEN "failed" ELSE o

LC == INSTANCE Lifecycle WITH strict <- Strict,
                              phase  <- KernelIndex[state],
                              clean  <- Conformant,
                              result <- ResultOf(outcome)

\* Every behaviour of the kernel is one the abstract lifecycle allows.
ImplementsLifecycle == LC!LSpec

\* A run that is called ends: the repair loop and the review terminate.
RunsEnd == pc = "analyze" ~> pc = "done"

-----------------------------------------------------------------------------
(* Claims of the repository about the program that it does not keep. *)

\* recovery.py: UNRECOVERABLE "halts the pipeline": after its HALT record the
\* kernel never gets to emit a payload.
HaltIsHonoured == HaltRecords # {} => state # "EMIT_PAYLOAD"

\* kernel.py: "If the ISA raises, the state must NOT advance": BUILD_ARTIFACTS
\* is entered only if BUILD_GLOSSARY completed.
AdvanceNeedsSuccess ==
    state = "BUILD_ARTIFACTS" =>
        \E i \in 1..Len(audit) : audit[i] = Done("BUILD_GLOSSARY")

\* README: the audit trace of an L3+ payload holds zero BLOCKING flags.
EmittedTraceHasNoBlocking ==
    outcome = "emitted" /\ Strict => \A i \in 1..flushed : audit[i].flag # "BLOCKING"

\* reporting.py: the gate "reads from" the BLOCKING count of the trail, so a
\* run the gate rejected is reported as non-conformant.
RejectedTraceHasBlocking ==
    outcome = "rejected" => \E i \in 1..flushed : audit[i].flag = "BLOCKING"

\* diagnostics.py: the trail "survives partial runs": when the process dies,
\* the records made so far are on disk.
TrailSurvivesPartialRuns == outcome = "crashed" => flushed = Len(audit)

\* kernel.py: at L3/L4 "the empty output is not L3-conformant": no strict run
\* returns an empty payload, unless a reviewer asked for it.
StrictPayloadNotEmpty ==
    outcome = "emitted" /\ Strict /\ "HITL" \notin ambiguities => ~target.empty

\* kernel.py: force_unrecoverable forces the UNRECOVERABLE path (with a budget
\* of at least one attempt).
ForcedReachesHandOff ==
    cfg.force_unrecoverable /\ cfg.repair_max_retries > 0 /\ pc = "gate"
        => "UNRECOVERABLE" \in ambiguities

\* isa.py: repair_segment raises Unrecoverable when its rewrite "introduces new
\* BLOCKING violation": where it gives up after verifying a rewrite, some
\* rewrite of the diagnosed text has an issue the text did not have before.
GivesUpOnlyOnNewBlocking ==
    [][RepairUnrecoverable =>
          \E d \in First(pending) :
             \/ GivesUp(d)
             \/ \E t \in Repairs(target, d) : ~(Blocking(t.viol) \subseteq target.viol)]_vars

\* isa.py: every attempt is recorded in repair_history "regardless of whether
\* it resolved the violation": a run that gave up a genuine repair has one.
EveryAttemptInHistory ==
    HaltRecords # {} /\ ~cfg.force_unrecoverable => repair_history # <<>>

\* kernel.py: a TRAException of a wrapped instruction is dispatched through
\* _recover; it does not leave run() unrecorded.
NoUncaughtException == outcome = "raised" => runs > 1
=============================================================================
