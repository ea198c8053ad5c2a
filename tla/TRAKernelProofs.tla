-------------------------- MODULE TRAKernelProofs ---------------------------
(***************************************************************************)
(* Theorems about TRAKernel for every set of issues, every configuration,  *)
(* every document and every retry budget.                                  *)
(***************************************************************************)
EXTENDS TRAKernelProps, SequenceTheorems, TLAPS

-----------------------------------------------------------------------------
(* Lemmas about the operators the kernel is built from. *)

\* With the fixed arbitration stack every diagnostic verify_output can raise,
\* and the forced one, is BLOCKING: there are no warnings to repair.
LEMMA AllBlocking == \A d \in Issues \cup {Forced} : SeverityOf(d) = "BLOCKING"
<1> SUFFICES ASSUME NEW d \in Issues, d # Forced PROVE SeverityOf(d) = "BLOCKING"
  BY DEF SeverityOf
<1>1. Subsystem[d] \in {"structural", "factual", "entity", "terminology", "epistemic"}
  BY IssuesAssumption DEF VerifiedSubsystems, PriorityOf
<1>2. QED
  BY <1>1 DEF SeverityOf, severity_of, wins, PriorityOf, PolicyPriority

\* A candidate is free of BLOCKING exactly when it is free of issues.
LEMMA BlockingIsAll == \A V \in SUBSET (Issues \cup {Forced}) : Blocking(V) = V
  BY AllBlocking DEF Blocking

\* The VERIFY_OUTPUT record of a clean candidate raises no flag.
LEMMA CleanRecord ==
  ASSUME NEW t \in Targets, Blocking(t.viol) = {}
  PROVE  Verified(t) = Record("VERIFY_OUTPUT", "OK", "NONE", t.ver)
  BY BlockingIsAll DEF Verified, Worst, Targets

\* Every record the kernel appends is an audit record.
LEMMA RecordTypes ==
  /\ \A isa \in {"ANALYZE_DOCUMENT", "BUILD_GLOSSARY", "BUILD_ENTITY_TABLE",
                 "TRANSLATE_SEGMENT"} : Done(isa) \in AuditRecords
  /\ \A t \in Targets : Verified(t) \in AuditRecords
  /\ \A t \in Targets, d \in Issues \cup {Forced} : Repaired(t, d) \in AuditRecords
  /\ \A c \in ExceptionCodes : Handled(c) \in AuditRecords
  /\ AmbiguousToken \in AuditRecords /\ GaveUp \in AuditRecords
<1>1. \A t \in Targets, d \in Issues \cup {Forced} : Repaired(t, d) \in AuditRecords
  BY AllBlocking DEF Repaired, Record, AuditRecords, Severities, Targets
<1>2. \A c \in ExceptionCodes : Handled(c) \in AuditRecords
  <2>1. \A c \in ExceptionCodes : route_exception[c].severity \in {"BLOCKING", "WARNING"}
    BY DEF ExceptionCodes, route_exception, Procedure
  <2>2. QED
    BY <2>1 DEF Handled, Record, AuditRecords, Severities
<1>3. \A t \in Targets : Verified(t) \in AuditRecords
  BY DEF Verified, Record, AuditRecords, Severities, Targets, Worst
<1>4. AmbiguousToken \in AuditRecords /\ GaveUp \in AuditRecords
  BY DEF AmbiguousToken, GaveUp, Record, AuditRecords, Severities, ExceptionCodes,
     route_exception, Procedure
<1>5. QED
  BY <1>1, <1>2, <1>3, <1>4 DEF Done, Record, AuditRecords, Severities

\* What a recovery notes is a note.
LEMMA NotedTypes == \A c \in ExceptionCodes : Noted(c) \subseteq Notes
  BY DEF Noted, Notes

\* Candidates built by a rewrite are candidates.
LEMMA TextTypes ==
  \A n \in Nat, V \in SUBSET Issues : Text(n, V) \in Targets
  BY DEF Text, Targets

\* Appending records to the trail keeps it a trail and lengthens it.
LEMMA Append1 ==
  ASSUME NEW S, NEW s \in Seq(S), NEW e \in S
  PROVE  /\ Append(s, e) \in Seq(S)
         /\ Len(Append(s, e)) = Len(s) + 1
         /\ Append(s, e)[Len(s) + 1] = e
  OBVIOUS

LEMMA Append2 ==
  ASSUME NEW S, NEW s \in Seq(S), NEW t \in Seq(S)
  PROVE  /\ s \o t \in Seq(S)
         /\ Len(s \o t) = Len(s) + Len(t)
  BY ConcatProperties

-----------------------------------------------------------------------------
(* Type correctness. *)

LEMMA TypeInit == Init => TypeOK
<1> SUFFICES ASSUME Init PROVE TypeOK
  OBVIOUS
<1>1. target \in Targets
  BY DEF Init, NoTarget, Targets
<1>2. state \in KernelStates
  BY DEF Init, KernelStates, KernelIndex
<1>3. QED
  BY <1>1, <1>2 DEF Init, TypeOK, ProgramCounters, Outcomes

\* The lifecycle variables keep their types under either kind of step.
LEMMA LifecycleTypes ==
  ASSUME TypeOK,
         (\E n \in KernelStates : Transition(n)) \/ NoTransition
  PROVE  state' \in KernelStates /\ execution_log' \in Seq(KernelStates)
<1>1. CASE NoTransition
  BY <1>1 DEF TypeOK, NoTransition
<1>2. ASSUME NEW n \in KernelStates, Transition(n)
      PROVE  state' \in KernelStates /\ execution_log' \in Seq(KernelStates)
  BY <1>2, Append1 DEF TypeOK, Transition
<1>3. QED
  BY <1>1, <1>2

\* One more record on the trail.
LEMMA RecordAppended ==
  ASSUME TypeOK, NEW r \in AuditRecords, audit' = Append(audit, r)
  PROVE  audit' \in Seq(AuditRecords) /\ Len(audit') = Len(audit) + 1
  BY Append1 DEF TypeOK

\* Two pieces of the trail added in a step.
LEMMA RecordsAppended ==
  ASSUME TypeOK, NEW r \in Seq(AuditRecords), audit' = audit \o r
  PROVE  audit' \in Seq(AuditRecords) /\ Len(audit') = Len(audit) + Len(r)
  BY Append2 DEF TypeOK

LEMMA RecoverTypes ==
  ASSUME TypeOK, NEW c \in ExceptionCodes, Recover(c)
  PROVE  /\ audit' \in Seq(AuditRecords) /\ Len(audit') = Len(audit) + 1
         /\ ambiguities' \subseteq Notes
<1>1. Handled(c) \in AuditRecords /\ Noted(c) \subseteq Notes
  BY RecordTypes, NotedTypes
<1>2. QED
  BY <1>1, RecordAppended DEF Recover, RecoverNoting, TypeOK

\* An exception recovered with a note of its own or without.
LEMMA RecoverNotingTypes ==
  ASSUME TypeOK, NEW c \in ExceptionCodes, NEW notes \in {Noted(c), {}}, RecoverNoting(c, notes)
  PROVE  /\ audit' \in Seq(AuditRecords) /\ Len(audit') = Len(audit) + 1
         /\ ambiguities' \subseteq Notes
<1>1. Handled(c) \in AuditRecords /\ notes \subseteq Notes
  BY RecordTypes, NotedTypes
<1>2. QED
  BY <1>1, RecordAppended DEF RecoverNoting, TypeOK

LEMMA CodeNames ==
  {"UNKNOWN_TERM", "BROKEN_MARKDOWN", "CERTAINTY_CONFLICT", "ENTITY_AMBIGUITY",
   "GLOSSARY_CONFLICT", "UNRECOVERABLE", "CONFORMANCE_FAILURE", "TRA_ERROR"} = ExceptionCodes
  BY DEF ExceptionCodes

LEMMA StateNames ==
  {"BOOTSTRAP", "INITIALIZE_RUNTIME", "ANALYZE_DOCUMENT", "BUILD_ARTIFACTS",
   "EXECUTE_TRANSLATION", "VERIFY_OUTPUT", "REPAIR_IF_NEEDED", "AUDIT_DIAGNOSTICS",
   "EMIT_PAYLOAD"} = KernelStates
  BY DEF KernelStates, KernelIndex

LEMMA TypeStep == TypeOK /\ [Next]_vars => TypeOK'
<1> SUFFICES ASSUME TypeOK, [Next]_vars PROVE TypeOK'
  OBVIOUS
<1> USE DEF inputs, loop, trail, ProgramCounters, Outcomes
<1>0. CASE UNCHANGED vars
  BY <1>0 DEF vars, TypeOK
<1>1. CASE Run
  <2>1. state' \in KernelStates /\ execution_log' \in Seq(KernelStates)
    BY <1>1, StateNames, LifecycleTypes DEF Run
  <2>2. QED
    BY <1>1, <2>1 DEF Run, TypeOK, Return
<1>2. CASE AnalyzeDocument
  <2>1. state' \in KernelStates /\ execution_log' \in Seq(KernelStates)
    BY <1>2, StateNames, LifecycleTypes DEF AnalyzeDocument
  <2>2. audit' \in Seq(AuditRecords) /\ Len(audit') = Len(audit) + 1
    BY <1>2, RecordTypes, RecordAppended DEF AnalyzeDocument
  <2>3. QED
    BY <1>2, <2>1, <2>2 DEF AnalyzeDocument, TypeOK
<1>3. CASE AnalyzeFails
  <2>1. audit' \in Seq(AuditRecords) /\ ambiguities' \subseteq Notes
    BY <1>3, CodeNames, RecoverTypes DEF AnalyzeFails
  <2>2. QED
    BY <1>3, <2>1 DEF AnalyzeFails, TypeOK, Flush, Return, NoTransition
<1>4. CASE BuildGlossary
  <2>1. /\ audit' \in Seq(AuditRecords) /\ Len(audit') = Len(audit) + 1
        /\ ambiguities' \subseteq Notes
    BY <1>4, CodeNames, RecordTypes, RecordAppended, RecoverTypes DEF BuildGlossary, TypeOK
  <2>2. QED
    BY <1>4, <2>1 DEF BuildGlossary, TypeOK, NoTransition
<1>5. CASE BuildEntityTable
  <2>1. state' \in KernelStates /\ execution_log' \in Seq(KernelStates)
    BY <1>5, StateNames, LifecycleTypes DEF BuildEntityTable
  <2> DEFINE two == <<AmbiguousToken, Done("BUILD_ENTITY_TABLE")>>
  <2>2. two \in Seq(AuditRecords) /\ Len(two) = 2
    BY RecordTypes DEF ExceptionCodes
  <2>3. Noted("ENTITY_AMBIGUITY") \subseteq Notes
    BY CodeNames, NotedTypes
  <2>4. /\ audit' \in Seq(AuditRecords) /\ Len(audit') >= Len(audit)
        /\ ambiguities' \subseteq Notes
    <3>1. CASE audit' = Append(audit, Done("BUILD_ENTITY_TABLE")) /\ UNCHANGED ambiguities
      BY <3>1, RecordTypes, RecordAppended DEF TypeOK
    <3>2. CASE /\ audit' = audit \o two
               /\ ambiguities' = ambiguities \cup Noted("ENTITY_AMBIGUITY")
      BY <3>2, <2>2, <2>3, RecordsAppended DEF TypeOK
    <3>3. CASE Recover("ENTITY_AMBIGUITY")
      BY <3>3, CodeNames, RecoverTypes DEF TypeOK
    <3>4. QED
      BY <1>5, <3>1, <3>2, <3>3 DEF BuildEntityTable
  <2>5. QED
    BY <1>5, <2>1, <2>4 DEF BuildEntityTable, TypeOK
<1>6. CASE ExecuteTranslation
  <2>1. state' \in KernelStates /\ execution_log' \in Seq(KernelStates)
    BY <1>6, StateNames, LifecycleTypes DEF ExecuteTranslation
  <2>2. PICK V \in SUBSET Issues, unknown \in UnknownTermTraces :
           /\ target' = Text(target.ver + 1, V)
           /\ ambiguities' = ambiguities \cup unknown[1]
           /\ audit' = audit \o unknown[2] \o <<Done("TRANSLATE_SEGMENT")>>
    BY <1>6 DEF ExecuteTranslation
  <2>3. unknown[1] \subseteq Notes /\ unknown[2] \in Seq(AuditRecords)
    <3>1. Noted("UNKNOWN_TERM") \subseteq Notes /\ Handled("UNKNOWN_TERM") \in AuditRecords
      BY CodeNames, RecordTypes, NotedTypes
    <3>2. <<>> \in Seq(AuditRecords) /\ <<Handled("UNKNOWN_TERM")>> \in Seq(AuditRecords)
      BY <3>1
    <3>3. \/ unknown = <<{}, <<>>>>
          \/ unknown = <<Noted("UNKNOWN_TERM"), <<>>>>
          \/ unknown = <<Noted("UNKNOWN_TERM"), <<Handled("UNKNOWN_TERM")>>>>
          \/ unknown = <<{}, <<Handled("UNKNOWN_TERM")>>>>
      BY <2>2 DEF UnknownTermTraces
    <3>4. /\ unknown[1] \in {{}, Noted("UNKNOWN_TERM")}
          /\ unknown[2] \in {<<>>, <<Handled("UNKNOWN_TERM")>>}
      BY <3>3
    <3>5. QED
      BY <3>1, <3>2, <3>4
  <2>4. <<Done("TRANSLATE_SEGMENT")>> \in Seq(AuditRecords)
    BY RecordTypes
  <2>5. audit \o unknown[2] \in Seq(AuditRecords) /\ Len(audit \o unknown[2]) >= Len(audit)
    BY <2>3, Append2 DEF TypeOK
  <2>6. audit' \in Seq(AuditRecords) /\ Len(audit') >= Len(audit)
    BY <2>2, <2>4, <2>5, Append2 DEF TypeOK
  <2>7. target' \in Targets
    BY <2>2, TextTypes DEF TypeOK, Targets
  <2>8. QED
    BY <1>6, <2>1, <2>2, <2>3, <2>6, <2>7 DEF ExecuteTranslation, TypeOK
<1>7. CASE TranslationRaises
  <2>1. state' \in KernelStates /\ execution_log' \in Seq(KernelStates)
    BY <1>7, StateNames, LifecycleTypes DEF TranslationRaises
  <2>2. /\ audit' \in Seq(AuditRecords) /\ Len(audit') = Len(audit) + 1
        /\ ambiguities' \subseteq Notes
    BY <1>7, RecoverNotingTypes DEF TranslationRaises
  <2>3. target' \in Targets
    <3>1. target.ver + 1 \in Nat
      BY DEF TypeOK, Targets
    <3>2. \A n \in Nat, V \in SUBSET Issues : [ver |-> n, empty |-> TRUE, viol |-> V] \in Targets
      BY DEF Targets
    <3>3. EmptyCandidate(target.ver + 1) \subseteq Targets
      BY <3>1, <3>2 DEF EmptyCandidate, EmptyTextIssues
    <3>4. QED
      BY <1>7, <3>3 DEF TranslationRaises
  <2>4. QED
    BY <1>7, <2>1, <2>2, <2>3 DEF TranslationRaises, TypeOK
<1>8. CASE VerifyOutput
  <2>1. state' \in KernelStates /\ execution_log' \in Seq(KernelStates)
    BY <1>8, StateNames, LifecycleTypes DEF VerifyOutput
  <2>2. /\ audit' \in Seq(AuditRecords) /\ Len(audit') = Len(audit) + 1
        /\ ambiguities' \subseteq Notes
    <3>1. CASE audit' = Append(audit, Verified(target)) /\ UNCHANGED ambiguities
      BY <3>1, RecordTypes, RecordAppended DEF TypeOK
    <3>2. CASE Recover("TRA_ERROR")
      BY <3>2, CodeNames, RecoverTypes
    <3>3. QED
      BY <1>8, <3>1, <3>2 DEF VerifyOutput
  <2>3. pending' \subseteq Issues \cup {Forced}
    BY <1>8 DEF VerifyOutput, ForcedDiagnostic, TypeOK, Targets
  <2>4. QED
    BY <1>8, <2>1, <2>2, <2>3 DEF VerifyOutput, TypeOK
<1>9. CASE RepairSegment
  <2>0. PICK d \in First(pending) :
           /\ \E t \in Repairs(target, d) :
                 /\ target' = t
                 /\ audit' = audit \o <<Verified(t), Repaired(t, d)>>
           /\ repair_history' = Append(repair_history, d)
    BY <1>9 DEF RepairSegment
  <2>1. PICK t \in Repairs(target, d) :
           /\ target' = t
           /\ audit' = audit \o <<Verified(t), Repaired(t, d)>>
    BY <2>0
  <2>2. d \in Issues \cup {Forced} /\ t \in Targets
    BY TextTypes DEF First, Repairs, TypeOK, Targets
  <2>3. /\ <<Verified(t), Repaired(t, d)>> \in Seq(AuditRecords)
        /\ Len(<<Verified(t), Repaired(t, d)>>) = 2
    <3>1. Verified(t) \in AuditRecords /\ Repaired(t, d) \in AuditRecords
      BY <2>2, RecordTypes
    <3>2. QED
      BY <3>1
  <2>4. audit' \in Seq(AuditRecords) /\ Len(audit') >= Len(audit)
    BY <2>1, <2>3, RecordsAppended DEF TypeOK
  <2>5. QED
    BY <1>9, <2>0, <2>1, <2>2, <2>4 DEF RepairSegment, NoTransition, TypeOK
<1>10. CASE RepairUnrecoverable
  <2>1. PICK records \in {<<>>} \cup {<<Verified(t)>> : t \in Targets} : HandOff(records)
    <3>1. \A d \in First(pending) : Repairs(target, d) \subseteq Targets
      BY TextTypes DEF Repairs, TypeOK, Targets
    <3>2. QED
      BY <1>10, <3>1 DEF RepairUnrecoverable
  <2>2. records \in Seq(AuditRecords) /\ <<GaveUp>> \in Seq(AuditRecords)
    <3>1. \A t \in Targets : <<Verified(t)>> \in Seq(AuditRecords)
      BY RecordTypes
    <3>2. GaveUp \in AuditRecords
      BY RecordTypes
    <3>3. <<>> \in Seq(AuditRecords) /\ <<GaveUp>> \in Seq(AuditRecords)
      BY <3>2
    <3>4. QED
      BY <2>1, <3>1, <3>3
  <2>3. audit \o records \in Seq(AuditRecords) /\ Len(audit \o records) >= Len(audit)
    BY <2>2, Append2 DEF TypeOK
  <2>4. audit' \in Seq(AuditRecords) /\ Len(audit') >= Len(audit)
    BY <2>1, <2>2, <2>3, Append2 DEF HandOff
  <2>5. ambiguities' \subseteq Notes /\ pc' \in {"hitl", "anchors"}
    BY <2>1 DEF HandOff, TypeOK, Notes, ExceptionCodes
  <2>6. QED
    BY <1>10, <2>4, <2>5 DEF RepairUnrecoverable, NoTransition, TypeOK
<1>11. CASE RepairUncaught
  BY <1>11 DEF RepairUncaught, NoTransition, Return, TypeOK
<1>12. CASE ReverifyOutput
  <2>1. /\ audit' \in Seq(AuditRecords) /\ Len(audit') = Len(audit) + 1
        /\ ambiguities' \subseteq Notes
    <3>1. CASE audit' = Append(audit, Verified(target)) /\ UNCHANGED ambiguities
      BY <3>1, RecordTypes, RecordAppended DEF TypeOK
    <3>2. CASE Recover("TRA_ERROR")
      BY <3>2, CodeNames, RecoverTypes
    <3>3. QED
      BY <1>12, <3>1, <3>2 DEF ReverifyOutput
  <2>2. pending' \subseteq Issues \cup {Forced}
    BY <1>12 DEF ReverifyOutput, TypeOK, Targets
  <2>3. QED
    BY <1>12, <2>1, <2>2 DEF ReverifyOutput, NoTransition, TypeOK
<1>13. CASE ReviewDecision
  <2>1. target' \in Targets
    <3>1. target \in Targets /\ target.ver + 1 \in Nat
      BY DEF TypeOK, Targets
    <3>2. ASSUME NEW V \in SUBSET Issues, target' = Text(target.ver + 1, V)
          PROVE  target' \in Targets
      BY <3>1, <3>2, TextTypes
    <3>3. ASSUME NEW V \in SUBSET EmptyTextIssues,
                 target' = [ver |-> target.ver + 1, empty |-> TRUE, viol |-> V]
          PROVE  target' \in Targets
      BY <3>1, <3>3 DEF Targets, EmptyTextIssues
    <3>4. QED
      BY <1>13, <3>1, <3>2, <3>3 DEF ReviewDecision
  <2>2. QED
    BY <1>13, <2>1 DEF ReviewDecision, NoTransition, TypeOK, Notes
<1>14. CASE RewriteAnchors
  <2>1. state' \in KernelStates /\ execution_log' \in Seq(KernelStates)
    BY <1>14, StateNames, LifecycleTypes DEF RewriteAnchors
  <2>2. target' \in Targets
    BY <1>14, TextTypes DEF RewriteAnchors, Rewrites, TypeOK, Targets
  <2>3. QED
    BY <1>14, <2>1, <2>2 DEF RewriteAnchors, TypeOK, Notes
<1>15. CASE GateSkipped
  BY <1>15 DEF GateSkipped, NoTransition, TypeOK
<1>16. CASE GatePasses
  <2>1. audit' \in Seq(AuditRecords) /\ Len(audit') = Len(audit) + 1
    BY <1>16, RecordTypes, RecordAppended DEF GatePasses, TypeOK
  <2>2. QED
    BY <1>16, <2>1 DEF GatePasses, NoTransition, TypeOK
<1>17. CASE GateRejects
  <2>1. audit' \in Seq(AuditRecords) /\ ambiguities' \subseteq Notes
    <3>1. CASE audit' = Append(audit, Verified(target)) /\ UNCHANGED ambiguities
      BY <3>1, RecordTypes, RecordAppended DEF TypeOK
    <3>2. CASE Recover("TRA_ERROR")
      BY <3>2, CodeNames, RecoverTypes
    <3>3. QED
      BY <1>17, <3>1, <3>2 DEF GateRejects
  <2>2. QED
    BY <1>17, <2>1 DEF GateRejects, Flush, Return, NoTransition, TypeOK
<1>18. CASE AuditDiagnostics
  <2>1. state' \in KernelStates /\ execution_log' \in Seq(KernelStates)
    BY <1>18, StateNames, LifecycleTypes DEF AuditDiagnostics
  <2>2. QED
    BY <1>18, <2>1 DEF AuditDiagnostics, Flush, TypeOK
<1>19. CASE EmitPayload
  <2>1. state' \in KernelStates /\ execution_log' \in Seq(KernelStates)
    BY <1>19, StateNames, LifecycleTypes DEF EmitPayload
  <2>2. QED
    BY <1>19, <2>1 DEF EmitPayload, TypeOK
<1>20. CASE ExportArtifact
  <2>1. pc' \in ProgramCounters /\ outcome' \in Outcomes
    BY <1>20 DEF ExportArtifact, Return, TypeOK
  <2>2. QED
    BY <1>20, <2>1 DEF ExportArtifact, NoTransition, TypeOK
<1>21. CASE Crash
  BY <1>21 DEF Crash, Return, NoTransition, TypeOK
<1>22. QED
  BY <1>0, <1>1, <1>2, <1>3, <1>4, <1>5, <1>6, <1>7, <1>8, <1>9, <1>10, <1>11, <1>12,
     <1>13, <1>14, <1>15, <1>16, <1>17, <1>18, <1>19, <1>20, <1>21 DEF Next, Pipeline

\* The variables keep their types, whatever the document, the configuration
\* and the set of issues; the trail never claims more records than it has.
THEOREM TypeCorrect == Spec => []TypeOK
<1>1. Init => TypeOK
  BY TypeInit
<1>2. TypeOK /\ [Next]_vars => TypeOK'
  BY TypeStep
<1>3. QED
  BY <1>1, <1>2, PTL DEF Spec

-----------------------------------------------------------------------------
(* The inductive invariant. *)

LEMMA KernelInvInit == Init => KernelInv
<1> SUFFICES ASSUME Init PROVE KernelInv
  OBVIOUS
<1>1. TypeOK
  BY TypeInit
<1>2. ControlInv
  BY DEF Init, ControlInv, StateAt
<1>3. EmissionInv
  BY DEF Init, EmissionInv
<1>4. RepairInv
  BY DEF Init, RepairInv, BeforeRepair
<1>5. EmptyInv
  BY DEF Init, EmptyInv, Untranslated
<1>6. QED
  BY <1>1, <1>2, <1>3, <1>4, <1>5 DEF KernelInv

\* run() only starts on a kernel in BOOTSTRAP.
LEMMA OnlyOneStart ==
  ASSUME TypeOK
  PROVE  LegalTransition("INITIALIZE_RUNTIME") <=> state = "BOOTSTRAP"
  BY DEF TypeOK, LegalTransition, KernelStates, KernelIndex

LEMMA ControlStep == TypeOK /\ ControlInv /\ [Next]_vars => ControlInv'
<1> SUFFICES ASSUME TypeOK, ControlInv, [Next]_vars PROVE ControlInv'
  OBVIOUS
<1> USE DEF inputs, loop, trail, ControlInv, StateAt, Transition, NoTransition, Return
<1>0. CASE UNCHANGED vars
  BY <1>0 DEF vars
<1>1. CASE Run
  BY <1>1, OnlyOneStart DEF Run
<1>2. CASE AnalyzeDocument \/ AnalyzeFails \/ BuildGlossary \/ BuildEntityTable
  BY <1>2 DEF AnalyzeDocument, AnalyzeFails, BuildGlossary, BuildEntityTable
<1>3. CASE ExecuteTranslation \/ TranslationRaises \/ VerifyOutput
  BY <1>3 DEF ExecuteTranslation, TranslationRaises, VerifyOutput
<1>4. CASE RepairSegment \/ RepairUncaught \/ ReverifyOutput
  BY <1>4 DEF RepairSegment, RepairUncaught, ReverifyOutput
<1>5. CASE RepairUnrecoverable
  <2>1. pc' \in {"hitl", "anchors"}
    BY <1>5 DEF RepairUnrecoverable, HandOff
  <2>2. QED
    BY <1>5, <2>1 DEF RepairUnrecoverable
<1>6. CASE ReviewDecision \/ RewriteAnchors
  BY <1>6 DEF ReviewDecision, RewriteAnchors
<1>7. CASE GateSkipped \/ GatePasses \/ GateRejects
  BY <1>7 DEF GateSkipped, GatePasses, GateRejects
<1>8. CASE AuditDiagnostics \/ EmitPayload \/ ExportArtifact \/ Crash
  BY <1>8 DEF AuditDiagnostics, EmitPayload, ExportArtifact, Crash, TypeOK, ProgramCounters
<1>9. QED
  BY <1>0, <1>1, <1>2, <1>3, <1>4, <1>5, <1>6, <1>7, <1>8 DEF Next, Pipeline

LEMMA RepairStep == TypeOK /\ ControlInv /\ RepairInv /\ [Next]_vars => RepairInv'
<1> SUFFICES ASSUME TypeOK, ControlInv, RepairInv, [Next]_vars PROVE RepairInv'
  OBVIOUS
<1> USE DEF inputs, loop, trail, RepairInv, BeforeRepair, Return
<1>0. CASE UNCHANGED vars
  BY <1>0 DEF vars
<1>a. \A code \in ExceptionCodes \ {"UNRECOVERABLE"} : "UNRECOVERABLE" \notin Noted(code)
  BY DEF Noted
<1>1. CASE Run
  BY <1>1, OnlyOneStart DEF Run, Transition, ControlInv
<1>2. CASE AnalyzeDocument \/ AnalyzeFails \/ BuildGlossary \/ BuildEntityTable
  BY <1>2, <1>a, CodeNames
     DEF AnalyzeDocument, AnalyzeFails, BuildGlossary, BuildEntityTable, Recover, RecoverNoting
<1>3. CASE ExecuteTranslation
  <2>1. \A unknown \in UnknownTermTraces : "UNRECOVERABLE" \notin unknown[1]
    BY <1>a, CodeNames DEF UnknownTermTraces
  <2>2. QED
    BY <1>3, <2>1 DEF ExecuteTranslation
<1>4. CASE TranslationRaises \/ VerifyOutput
  <2>1. \A code \in ExceptionCodes : "UNRECOVERABLE" \notin Noted(code)
    BY DEF Noted, ExceptionCodes, route_exception, Procedure
  <2>2. CASE TranslationRaises
    BY <2>1, <2>2 DEF TranslationRaises, RecoverNoting
  <2>3. CASE VerifyOutput
    BY <2>1, <2>3, CodeNames DEF VerifyOutput, Recover, RecoverNoting
  <2>4. QED
    BY <1>4, <2>2, <2>3
<1>5. CASE RepairSegment
  <2>1. PICK d \in First(pending), t \in Targets :
           /\ Accepts(t)
           /\ target' = t
           /\ repair_history' = Append(repair_history, d)
    BY <1>5, TextTypes DEF RepairSegment, Repairs, TypeOK, Targets
  <2>2. t.viol = {}
    BY <2>1, BlockingIsAll DEF Accepts, Targets
  <2>3. attempt = 1 /\ repair_history = <<>>
    BY <1>5 DEF RepairSegment, LoopGuard
  <2>4. Len(repair_history') = 1
    BY <2>1, <2>3
  <2>5. QED
    BY <1>5, <2>1, <2>2, <2>3, <2>4 DEF RepairSegment
<1>6. CASE RepairUnrecoverable
  <2>1. attempt = 1 /\ repair_history = <<>>
    BY <1>6 DEF RepairUnrecoverable, LoopGuard
  <2>2. pc' \in {"hitl", "anchors"}
    BY <1>6 DEF RepairUnrecoverable, HandOff
  <2>3. QED
    BY <1>6, <2>1, <2>2 DEF RepairUnrecoverable
<1>7. CASE RepairUncaught
  BY <1>7 DEF RepairUncaught
<1>8. CASE ReverifyOutput
  <2>1. \/ UNCHANGED ambiguities
        \/ ambiguities' = ambiguities \cup Noted("TRA_ERROR")
    BY <1>8 DEF ReverifyOutput, Recover, RecoverNoting
  <2>2. "UNRECOVERABLE" \notin Noted("TRA_ERROR")
    BY <1>a, CodeNames
  <2>3. pending' = {}
    BY <1>8 DEF ReverifyOutput
  <2>4. QED
    BY <1>8, <2>1, <2>2, <2>3 DEF ReverifyOutput
<1>9. CASE ReviewDecision \/ RewriteAnchors
  BY <1>9 DEF ReviewDecision, RewriteAnchors
<1>10. CASE GateSkipped \/ GatePasses \/ GateRejects
  <2>1. \/ UNCHANGED ambiguities
        \/ ambiguities' = ambiguities \cup Noted("TRA_ERROR")
    BY <1>10 DEF GateSkipped, GatePasses, GateRejects, Recover, RecoverNoting
  <2>2. "UNRECOVERABLE" \notin Noted("TRA_ERROR")
    BY <1>a, CodeNames
  <2>3. QED
    BY <1>10, <2>1, <2>2 DEF GateSkipped, GatePasses, GateRejects
<1>11. CASE AuditDiagnostics \/ EmitPayload \/ ExportArtifact \/ Crash
  BY <1>11 DEF AuditDiagnostics, EmitPayload, ExportArtifact, Crash
<1>12. QED
  BY <1>0, <1>1, <1>2, <1>3, <1>4, <1>5, <1>6, <1>7, <1>8, <1>9, <1>10, <1>11
     DEF Next, Pipeline

LEMMA JoinedRecords ==
  ASSUME NEW a \in Seq(AuditRecords), NEW b \in Seq(AuditRecords), NEW c \in Seq(AuditRecords)
  PROVE  a \o b \o c = a \o (b \o c)
  BY ConcatAssociative

\* What a record appended to the trail does to the tale of a failed translation.
LEMMA TaleOfRecords ==
  ASSUME TypeOK, NEW r \in Seq(AuditRecords), audit' = audit \o r,
         \A k \in 1..Len(r) : r[k].isa # "TRANSLATE_SEGMENT"
  PROVE  /\ Untranslated(audit) => Untranslated(audit')
         /\ (\A k \in 1..Len(r) : r[k].isa # "BUILD_ENTITY_TABLE") =>
               (TellsFailure(audit) => TellsFailure(audit'))
<1>1. /\ Len(audit') = Len(audit) + Len(r) /\ DOMAIN audit' = 1..Len(audit')
      /\ DOMAIN audit = 1..Len(audit)
      /\ Len(audit) \in Nat /\ Len(r) \in Nat
      /\ \A k \in 1..(Len(audit) + Len(r)) :
            audit'[k] = IF k <= Len(audit) THEN audit[k] ELSE r[k - Len(audit)]
  BY ConcatProperties DEF TypeOK
<1>2. \A k \in DOMAIN audit : k \in DOMAIN audit' /\ audit'[k] = audit[k]
  BY <1>1
<1>3. \A k \in DOMAIN audit' : k \in DOMAIN audit \/ \E n \in 1..Len(r) : audit'[k] = r[n]
  <2> SUFFICES ASSUME NEW k \in DOMAIN audit', k \notin DOMAIN audit
               PROVE  \E n \in 1..Len(r) : audit'[k] = r[n]
    OBVIOUS
  <2>1. k \in 1..(Len(audit) + Len(r)) /\ k > Len(audit)
    BY <1>1
  <2>2. k - Len(audit) \in 1..Len(r) /\ audit'[k] = r[k - Len(audit)]
    BY <1>1, <2>1
  <2>3. QED
    BY <2>2
<1>4. Untranslated(audit) => Untranslated(audit')
  BY <1>2, <1>3 DEF Untranslated
<1>5. ASSUME \A k \in 1..Len(r) : r[k].isa # "BUILD_ENTITY_TABLE", TellsFailure(audit)
      PROVE  TellsFailure(audit')
  <2>1. PICK i \in DOMAIN audit :
           /\ audit[i].isa = "EXCEPTION_HANDLER" /\ ~IsHalt(audit[i])
           /\ \A j \in DOMAIN audit : j > i => audit[j].isa # "BUILD_ENTITY_TABLE"
    BY <1>5 DEF TellsFailure
  <2>2. \A j \in DOMAIN audit' : j > i => audit'[j].isa # "BUILD_ENTITY_TABLE"
    BY <1>2, <1>3, <1>5, <2>1
  <2>3. Untranslated(audit')
    BY <1>4, <1>5 DEF TellsFailure
  <2>4. QED
    BY <1>2, <2>1, <2>2, <2>3 DEF TellsFailure
<1>6. QED
  BY <1>4, <1>5

LEMMA TaleOfOne ==
  ASSUME TypeOK, NEW e \in AuditRecords, audit' = Append(audit, e),
         e.isa # "TRANSLATE_SEGMENT"
  PROVE  /\ Untranslated(audit) => Untranslated(audit')
         /\ e.isa # "BUILD_ENTITY_TABLE" => (TellsFailure(audit) => TellsFailure(audit'))
<1>1. <<e>> \in Seq(AuditRecords) /\ Len(<<e>>) = 1 /\ <<e>>[1] = e
  OBVIOUS
<1>2. audit' = audit \o <<e>>
  BY AppendIsConcat DEF TypeOK
<1>3. \A k \in 1..Len(<<e>>) : <<e>>[k] = e
  BY <1>1
<1>4. QED
  BY <1>1, <1>2, <1>3, TaleOfRecords

\* The record of an exception that ended the translation tells of it.
LEMMA TaleBegins ==
  ASSUME TypeOK, Untranslated(audit), NEW code \in ExceptionCodes,
         audit' = Append(audit, Handled(code))
  PROVE  TellsFailure(audit')
<1>1. /\ Handled(code) \in AuditRecords /\ Handled(code).isa = "EXCEPTION_HANDLER"
      /\ ~IsHalt(Handled(code))
  BY RecordTypes DEF Handled, Record, IsHalt, ExceptionCodes
<1>2. /\ DOMAIN audit' = 1..(Len(audit) + 1) /\ Len(audit) \in Nat
      /\ audit'[Len(audit) + 1] = Handled(code)
  BY <1>1, AppendProperties DEF TypeOK
<1>3. Untranslated(audit')
  BY <1>1, TaleOfOne
<1>4. \A j \in DOMAIN audit' : ~(j > Len(audit) + 1)
  BY <1>2
<1>5. Len(audit) + 1 \in DOMAIN audit'
  BY <1>2
<1>6. QED
  BY <1>1, <1>2, <1>3, <1>4, <1>5 DEF TellsFailure

LEMMA EmptyStep == TypeOK /\ ControlInv /\ EmptyInv /\ [Next]_vars => EmptyInv'
<1> SUFFICES ASSUME TypeOK, ControlInv, EmptyInv, [Next]_vars PROVE EmptyInv'
  OBVIOUS
<1> USE DEF inputs, loop, trail, EmptyInv, ControlInv, Return
<1>a. \A n, V : ~Text(n, V).empty
  BY DEF Text
\* Neither a verification nor a recovery hides what the trail tells.
<1>b. /\ \A t \in Targets : Verified(t) \in AuditRecords /\ Verified(t).isa = "VERIFY_OUTPUT"
      /\ \A code \in ExceptionCodes :
            Handled(code) \in AuditRecords /\ Handled(code).isa = "EXCEPTION_HANDLER"
      /\ GaveUp \in AuditRecords /\ GaveUp.isa = "EXCEPTION_HANDLER"
      /\ \A isa \in {"ANALYZE_DOCUMENT", "BUILD_GLOSSARY", "BUILD_ENTITY_TABLE"} :
            Done(isa) \in AuditRecords /\ Done(isa).isa = isa
      /\ AmbiguousToken \in AuditRecords /\ AmbiguousToken.isa = "EXCEPTION_HANDLER"
  BY RecordTypes DEF Verified, Handled, GaveUp, Done, AmbiguousToken, Record
<1>c. ASSUME audit' = Append(audit, Verified(target))
      PROVE  TellsFailure(audit) => TellsFailure(audit')
  <2>1. target \in Targets
    BY DEF TypeOK
  <2>2. QED
    BY <2>1, <1>b, <1>c, TaleOfOne
<1>d. ASSUME NEW code \in ExceptionCodes, Recover(code)
      PROVE  /\ TellsFailure(audit) => TellsFailure(audit')
             /\ Untranslated(audit) => Untranslated(audit')
             /\ "HITL" \in ambiguities => "HITL" \in ambiguities'
  BY <1>b, <1>d, TaleOfOne DEF Recover, RecoverNoting
<1>0. CASE UNCHANGED vars
  BY <1>0 DEF vars
<1>1. CASE Run
  BY <1>1, OnlyOneStart DEF Run, Transition
<1>2. CASE AnalyzeDocument
  BY <1>2, <1>b, TaleOfOne DEF AnalyzeDocument
<1>3. CASE AnalyzeFails
  BY <1>3 DEF AnalyzeFails
<1>4. CASE BuildGlossary
  <2>1. Untranslated(audit')
    BY <1>4, <1>b, <1>d, TaleOfOne, CodeNames DEF BuildGlossary
  <2>2. QED
    BY <1>4, <2>1 DEF BuildGlossary
<1>5. CASE BuildEntityTable
  <2> DEFINE two == <<AmbiguousToken, Done("BUILD_ENTITY_TABLE")>>
  <2>1. two \in Seq(AuditRecords) /\ \A k \in 1..Len(two) : two[k].isa # "TRANSLATE_SEGMENT"
    <3>1. /\ AmbiguousToken \in AuditRecords /\ AmbiguousToken.isa # "TRANSLATE_SEGMENT"
          /\ Done("BUILD_ENTITY_TABLE") \in AuditRecords
          /\ Done("BUILD_ENTITY_TABLE").isa # "TRANSLATE_SEGMENT"
      BY <1>b
    <3>2. QED
      BY <3>1
  <2>2. CASE audit' = audit \o two
    <3>1. Untranslated(audit')
      BY <1>5, <2>1, <2>2, TaleOfRecords DEF BuildEntityTable
    <3>2. QED
      BY <1>5, <3>1 DEF BuildEntityTable
  <2>3. CASE audit' = Append(audit, Done("BUILD_ENTITY_TABLE"))
    <3>1. Untranslated(audit')
      BY <1>5, <1>b, <2>3, TaleOfOne DEF BuildEntityTable
    <3>2. QED
      BY <1>5, <3>1 DEF BuildEntityTable
  <2>4. CASE Recover("ENTITY_AMBIGUITY")
    <3>1. Untranslated(audit')
      BY <1>5, <1>d, <2>4, CodeNames DEF BuildEntityTable
    <3>2. QED
      BY <1>5, <3>1 DEF BuildEntityTable
  <2>5. QED
    BY <1>5, <2>2, <2>3, <2>4 DEF BuildEntityTable
<1>6. CASE ExecuteTranslation
  BY <1>6, <1>a DEF ExecuteTranslation
<1>7. CASE TranslationRaises
  <2>1. TellsFailure(audit')
    BY <1>7, TaleBegins DEF TranslationRaises, RecoverNoting
  <2>2. QED
    BY <1>7, <2>1 DEF TranslationRaises
<1>8. CASE VerifyOutput \/ ReverifyOutput
  <2>1. /\ TellsFailure(audit) => TellsFailure(audit')
        /\ "HITL" \in ambiguities => "HITL" \in ambiguities'
    BY <1>8, <1>c, <1>d, CodeNames DEF VerifyOutput, ReverifyOutput
  <2>2. QED
    BY <1>8, <2>1 DEF VerifyOutput, ReverifyOutput
<1>9. CASE RepairSegment
  <2>1. target' = target \/ ~target'.empty
    BY <1>9, <1>a DEF RepairSegment, Repairs
  <2>2. PICK d \in First(pending) :
           \E t \in Repairs(target, d) : audit' = audit \o <<Verified(t), Repaired(t, d)>>
    BY <1>9 DEF RepairSegment
  <2>3. PICK t \in Repairs(target, d) : audit' = audit \o <<Verified(t), Repaired(t, d)>>
    BY <2>2
  <2>4. d \in Issues \cup {Forced} /\ t \in Targets
    BY TextTypes DEF First, Repairs, TypeOK, Targets
  <2>5. /\ Verified(t) \in AuditRecords /\ Verified(t).isa = "VERIFY_OUTPUT"
        /\ Repaired(t, d) \in AuditRecords /\ Repaired(t, d).isa = "REPAIR_SEGMENT"
    BY <1>b, <2>4, RecordTypes DEF Repaired, Record
  <2> DEFINE two == <<Verified(t), Repaired(t, d)>>
  <2>6. /\ two \in Seq(AuditRecords)
        /\ \A k \in 1..Len(two) : two[k].isa \in {"VERIFY_OUTPUT", "REPAIR_SEGMENT"}
    BY <2>5
  <2>7. TellsFailure(audit) => TellsFailure(audit')
    BY <2>3, <2>6, TaleOfRecords
  <2>8. QED
    BY <1>9, <2>1, <2>7 DEF RepairSegment
<1>10. CASE RepairUnrecoverable
  <2>1. PICK records \in {<<>>} \cup {<<Verified(t)>> : t \in Targets} : HandOff(records)
    <3>1. \A d \in First(pending) : Repairs(target, d) \subseteq Targets
      BY TextTypes DEF Repairs, TypeOK, Targets
    <3>2. QED
      BY <1>10, <3>1 DEF RepairUnrecoverable
  <2> DEFINE new == records \o <<GaveUp>>
  <2>2. /\ records \in Seq(AuditRecords) /\ Len(records) \in {0, 1}
        /\ \A k \in 1..Len(records) : records[k].isa = "VERIFY_OUTPUT"
    <3>1. CASE records = <<>>
      BY <3>1
    <3>2. CASE \E t \in Targets : records = <<Verified(t)>>
      BY <3>2, <1>b
    <3>3. QED
      BY <3>1, <3>2
  <2>3. <<GaveUp>> \in Seq(AuditRecords) /\ Len(<<GaveUp>>) = 1 /\ <<GaveUp>>[1] = GaveUp
    BY <1>b
  <2>4. new \in Seq(AuditRecords) /\ audit' = audit \o new
    BY <2>1, <2>2, <2>3, ConcatProperties, JoinedRecords DEF HandOff, TypeOK
  <2>5. \A k \in 1..Len(new) : new[k].isa \in {"VERIFY_OUTPUT", "EXCEPTION_HANDLER"}
    <3>1. /\ Len(new) = Len(records) + 1
          /\ \A k \in 1..(Len(records) + 1) :
                new[k] = IF k <= Len(records) THEN records[k] ELSE <<GaveUp>>[k - Len(records)]
      BY <2>2, <2>3, ConcatProperties
    <3>2. \A k \in 1..(Len(records) + 1) :
             \/ k <= Len(records) /\ k \in 1..Len(records)
             \/ ~(k <= Len(records)) /\ k - Len(records) = 1
      BY <2>2
    <3>3. SUFFICES ASSUME NEW k \in 1..Len(new)
                   PROVE  new[k].isa \in {"VERIFY_OUTPUT", "EXCEPTION_HANDLER"}
      OBVIOUS
    <3>4. k \in 1..(Len(records) + 1)
      BY <3>1
    <3>5. new[k] = GaveUp \/ \E n \in 1..Len(records) : new[k] = records[n]
      BY <3>1, <3>2, <3>4, <2>3
    <3>6. QED
      BY <3>5, <2>2, <1>b
  <2>6. TellsFailure(audit) => TellsFailure(audit')
    BY <2>4, <2>5, TaleOfRecords
  <2>7. "HITL" \in ambiguities => "HITL" \in ambiguities'
    BY <2>1 DEF HandOff
  <2>8. pc = "repair" /\ pc' \in {"hitl", "anchors"} /\ UNCHANGED <<target, outcome>>
    BY <1>10, <2>1 DEF RepairUnrecoverable, HandOff
  <2>9. QED
    BY <2>6, <2>7, <2>8
<1>11. CASE RepairUncaught
  BY <1>11 DEF RepairUncaught
<1>12. CASE ReviewDecision
  BY <1>12 DEF ReviewDecision
<1>13. CASE RewriteAnchors
  <2>1. target' = target \/ ~target'.empty
    BY <1>13, <1>a DEF RewriteAnchors, Rewrites
  <2>2. QED
    BY <1>13, <2>1 DEF RewriteAnchors
<1>14. CASE GateSkipped \/ GatePasses
  <2>1. TellsFailure(audit) => TellsFailure(audit')
    BY <1>14, <1>c DEF GateSkipped, GatePasses
  <2>2. QED
    BY <1>14, <2>1 DEF GateSkipped, GatePasses
<1>15. CASE GateRejects
  BY <1>15 DEF GateRejects
<1>16. CASE AuditDiagnostics \/ EmitPayload \/ ExportArtifact \/ Crash
  BY <1>16 DEF AuditDiagnostics, EmitPayload, ExportArtifact, Crash
<1>17. QED
  BY <1>0, <1>1, <1>2, <1>3, <1>4, <1>5, <1>6, <1>7, <1>8, <1>9, <1>10, <1>11, <1>12,
     <1>13, <1>14, <1>15, <1>16 DEF Next, Pipeline

LEMMA EmissionStep == TypeOK /\ ControlInv /\ EmissionInv /\ [Next]_vars => EmissionInv'
<1> SUFFICES ASSUME TypeOK, ControlInv, EmissionInv, [Next]_vars PROVE EmissionInv'
  OBVIOUS
<1> USE DEF inputs, loop, trail, EmissionInv, ControlInv, Return, NoTransition,
           Strict, Conformant, LastRecord
<1>0. CASE UNCHANGED vars
  BY <1>0 DEF vars
<1>1. CASE Run
  BY <1>1, OnlyOneStart DEF Run, Transition
<1>2. CASE AnalyzeDocument \/ BuildGlossary \/ BuildEntityTable
  BY <1>2 DEF AnalyzeDocument, BuildGlossary, BuildEntityTable
<1>3. CASE AnalyzeFails
  BY <1>3 DEF AnalyzeFails, Flush
<1>4. CASE ExecuteTranslation \/ TranslationRaises \/ VerifyOutput
  BY <1>4 DEF ExecuteTranslation, TranslationRaises, VerifyOutput
<1>5. CASE RepairSegment \/ RepairUncaught \/ ReverifyOutput
  BY <1>5 DEF RepairSegment, RepairUncaught, ReverifyOutput
<1>6. CASE RepairUnrecoverable
  <2>1. pc' \in {"hitl", "anchors"}
    BY <1>6 DEF RepairUnrecoverable, HandOff
  <2>2. QED
    BY <1>6, <2>1 DEF RepairUnrecoverable
<1>7. CASE ReviewDecision \/ RewriteAnchors \/ GateSkipped
  BY <1>7 DEF ReviewDecision, RewriteAnchors, GateSkipped
<1>8. CASE GatePasses
  <2>1. Verified(target) = Record("VERIFY_OUTPUT", "OK", "NONE", target.ver)
    BY <1>8, CleanRecord DEF GatePasses, TypeOK
  <2>2. Len(audit') = Len(audit) + 1 /\ audit'[Len(audit')] = Verified(target)
    BY <1>8, RecordTypes, Append1 DEF GatePasses, TypeOK
  <2>3. Len(audit') > 0
    BY <2>2 DEF TypeOK
  <2>4. QED
    BY <1>8, <2>1, <2>2, <2>3 DEF GatePasses
<1>9. CASE GateRejects
  BY <1>9 DEF GateRejects, Flush
<1>10. CASE AuditDiagnostics
  BY <1>10 DEF AuditDiagnostics, Flush
<1>11. CASE EmitPayload
  BY <1>11 DEF EmitPayload
<1>12. CASE ExportArtifact
  BY <1>12 DEF ExportArtifact, StateAt
<1>13. CASE Crash
  BY <1>13 DEF Crash
<1>14. QED
  BY <1>0, <1>1, <1>2, <1>3, <1>4, <1>5, <1>6, <1>7, <1>8, <1>9, <1>10, <1>11, <1>12, <1>13
     DEF Next, Pipeline

\* What holds at each instruction of run(), for every instance.
THEOREM KernelInvariant == Spec => []KernelInv
<1>1. KernelInv /\ [Next]_vars => KernelInv'
  BY TypeStep, ControlStep, EmissionStep, RepairStep, EmptyStep DEF KernelInv
<1>2. QED
  BY <1>1, KernelInvInit, PTL DEF Spec

-----------------------------------------------------------------------------
(* The safety properties the runs check. *)

\* A strict payload is the text the last, clean, persisted record judged:
\* kernel.run re-verifies after the anchor rewrite (TRA-037).
THEOREM Certified == Spec => []CertifiedEmission
<1>1. KernelInv => CertifiedEmission
  BY DEF KernelInv, EmissionInv, CertifiedEmission
<1>2. QED
  BY <1>1, KernelInvariant, PTL

\* Every way run() ends by its own decision flushes the trail first.
THEOREM Persisted == Spec => []TrailPersisted
<1>1. KernelInv => TrailPersisted
  BY DEF KernelInv, EmissionInv, TrailPersisted
<1>2. QED
  BY <1>1, KernelInvariant, PTL

\* _export_artifacts runs after the gate and after the flush, and nothing
\* changes the candidate or the trail once a file exists.
THEOREM ArtifactsLast == Spec => []ArtifactsAfterTrail
<1>1. KernelInv => ArtifactsAfterTrail
  BY DEF KernelInv, EmissionInv, ArtifactsAfterTrail
<1>2. QED
  BY <1>1, KernelInvariant, PTL

\* Whatever the retry budget, repair_segment succeeds at most once.
THEOREM OneRepair == Spec => []RepairsAtMostOnce
<1>1. KernelInv => RepairsAtMostOnce
  BY DEF KernelInv, RepairInv, RepairsAtMostOnce
<1>2. QED
  BY <1>1, KernelInvariant, PTL

\* The second pass of _repair_loop never has anything to repair.
THEOREM OneAttempt == Spec => []RepairDrainsQueue
<1>1. KernelInv => RepairDrainsQueue
  BY DEF KernelInv, RepairInv, RepairDrainsQueue, Blocking
<1>2. QED
  BY <1>1, KernelInvariant, PTL

\* An empty payload is explained by a reviewer's note or by the persisted trail,
\* which tells that translation failed, whatever the callback raised.
THEOREM EmptyExplained == Spec => []EmptyPayloadExplained
<1>1. ASSUME KernelInv, outcome = "emitted", target.empty
      PROVE  "HITL" \in ambiguities \/ TellsFailure(SubSeq(audit, 1, flushed))
  <2>1. audit \in Seq(AuditRecords) /\ flushed = Len(audit)
    BY <1>1 DEF KernelInv, TypeOK, EmissionInv
  <2>2. SubSeq(audit, 1, flushed) = audit
    BY <2>1, SubSeqFull
  <2>3. QED
    BY <1>1, <2>2 DEF KernelInv, EmptyInv
<1>2. KernelInv => EmptyPayloadExplained
  BY <1>1 DEF EmptyPayloadExplained
<1>3. QED
  BY <1>2, KernelInvariant, PTL

-----------------------------------------------------------------------------
(* The execution log. *)

LEMMA OrderAndIndex ==
  /\ KernelOrder \in Seq(KernelStates) /\ Len(KernelOrder) = 9
  /\ \A s \in KernelStates : KernelIndex[s] \in 0..8 /\ KernelOrder[KernelIndex[s] + 1] = s
  BY DEF KernelOrder, KernelStates, KernelIndex

\* A prefix of the order followed by the next state is the next prefix.
LEMMA OrderStep ==
  ASSUME NEW n \in 0..7
  PROVE  Append(SubSeq(KernelOrder, 2, n + 1), KernelOrder[n + 2]) = SubSeq(KernelOrder, 2, n + 2)
<1>1. PICK m \in 2..9 : m = n + 2 /\ m - 1 = n + 1
  OBVIOUS
<1>2. \A i \in 1..9 : KernelOrder[i] \in KernelStates
  BY OrderAndIndex, ElementOfSeq
<1>3. SubSeq(KernelOrder, 2, m) = SubSeq(KernelOrder, 2, m - 1) \o <<KernelOrder[m]>>
  BY OrderAndIndex, SubSeqRecursiveSecond
<1>4. SubSeq(KernelOrder, 2, m - 1) \in Seq(KernelStates)
  BY <1>2, SubSeqProperties
<1>5. Append(SubSeq(KernelOrder, 2, m - 1), KernelOrder[m]) = SubSeq(KernelOrder, 2, m)
  BY <1>2, <1>3, <1>4, AppendIsConcat
<1>6. QED
  BY <1>1, <1>5

\* run() moves on to the next state of the canonical order or stays.
LEMMA OneStateAtATime ==
  ASSUME TypeOK, ControlInv, [Next]_vars
  PROVE  \/ NoTransition
         \/ \E next \in KernelStates :
               Transition(next) /\ KernelIndex[next] = KernelIndex[state] + 1
<1> USE StateNames DEF ControlInv, StateAt, KernelIndex
<1>1. CASE Run
  BY <1>1, OnlyOneStart DEF Run, Transition
<1>2. CASE AnalyzeDocument \/ BuildEntityTable \/ ExecuteTranslation \/ TranslationRaises
  BY <1>2 DEF AnalyzeDocument, BuildEntityTable, ExecuteTranslation, TranslationRaises
<1>3. CASE VerifyOutput \/ RewriteAnchors \/ AuditDiagnostics \/ EmitPayload
  BY <1>3 DEF VerifyOutput, RewriteAnchors, AuditDiagnostics, EmitPayload
<1>4. CASE \/ AnalyzeFails \/ BuildGlossary \/ RepairSegment \/ RepairUnrecoverable
           \/ RepairUncaught \/ ReverifyOutput \/ ReviewDecision
  BY <1>4 DEF AnalyzeFails, BuildGlossary, RepairSegment, RepairUnrecoverable,
     RepairUncaught, ReverifyOutput, ReviewDecision
<1>5. CASE GateSkipped \/ GatePasses \/ GateRejects \/ ExportArtifact \/ Crash
  BY <1>5 DEF GateSkipped, GatePasses, GateRejects, ExportArtifact, Crash
<1>6. CASE UNCHANGED vars
  BY <1>6 DEF vars, NoTransition
<1>7. QED
  BY <1>1, <1>2, <1>3, <1>4, <1>5, <1>6 DEF Next, Pipeline

LEMMA LogStep == TypeOK /\ ControlInv /\ LogIsCanonicalPrefix /\ [Next]_vars => LogIsCanonicalPrefix'
<1> SUFFICES ASSUME TypeOK, ControlInv, LogIsCanonicalPrefix, [Next]_vars
             PROVE  LogIsCanonicalPrefix'
  OBVIOUS
<1>1. CASE NoTransition
  BY <1>1 DEF NoTransition, LogIsCanonicalPrefix
<1>2. ASSUME NEW next \in KernelStates, Transition(next),
             KernelIndex[next] = KernelIndex[state] + 1
      PROVE  LogIsCanonicalPrefix'
  <2> DEFINE here == KernelIndex[state]
  <2>0. /\ here \in 0..8 /\ KernelIndex[next] \in 0..8
        /\ KernelOrder[KernelIndex[next] + 1] = next /\ KernelIndex[next] = here + 1
    BY <1>2, OrderAndIndex DEF TypeOK
  <2> HIDE DEF here
  <2>a. here \in 0..7 /\ KernelIndex[next] + 1 = here + 2
    BY <2>0
  <2>1. PICK n \in 0..7 : KernelIndex[state] = n /\ KernelOrder[n + 2] = next
    BY <2>0, <2>a DEF here
  <2>2. state' = next /\ KernelIndex[next] + 1 = n + 2
    BY <1>2, <2>1 DEF Transition
  <2>3. execution_log' = Append(SubSeq(KernelOrder, 2, n + 1), next)
    BY <1>2, <2>1 DEF Transition, LogIsCanonicalPrefix
  <2>4. execution_log' = SubSeq(KernelOrder, 2, n + 2)
    BY <2>1, <2>3, OrderStep
  <2>5. QED
    BY <2>2, <2>4 DEF LogIsCanonicalPrefix
<1>3. QED
  BY <1>1, <1>2, OneStateAtATime

\* The log is the part of the canonical order up to the current state, also
\* after run() was called a second time.
THEOREM LogIsPrefix == Spec => []LogIsCanonicalPrefix
<1>1. Init => LogIsCanonicalPrefix
  BY SubSeqEmpty DEF Init, LogIsCanonicalPrefix, KernelIndex
<1>2. KernelInv => TypeOK /\ ControlInv
  BY DEF KernelInv
<1>3. QED
  BY <1>1, <1>2, LogStep, KernelInvariant, PTL DEF Spec

-----------------------------------------------------------------------------
(* The hand-off to a reviewer. *)

\* Only a hand-off puts its HALT record on the trail.
LEMMA OrdinaryRecords ==
  /\ \A isa : isa # "EXCEPTION_HANDLER" => ~IsHalt(Done(isa))
  /\ \A t \in Targets : ~IsHalt(Verified(t))
  /\ \A t \in Targets : \A d : ~IsHalt(Repaired(t, d))
  /\ \A code \in ExceptionCodes : ~IsHalt(Handled(code))
  /\ ~IsHalt(AmbiguousToken) /\ IsHalt(GaveUp)
  BY DEF IsHalt, Done, Verified, Repaired, Handled, AmbiguousToken, GaveUp, Record, ExceptionCodes

\* Ordinary records leave the HALT records where they are.
LEMMA HaltsKept ==
  ASSUME TypeOK, NEW r \in Seq(AuditRecords), audit' = audit \o r,
         \A k \in 1..Len(r) : ~IsHalt(r[k])
  PROVE  HaltRecords' = HaltRecords
<1> USE DEF TypeOK
<1>1. /\ Len(audit') = Len(audit) + Len(r)
      /\ \A k \in 1..(Len(audit) + Len(r)) :
            audit'[k] = IF k <= Len(audit) THEN audit[k] ELSE r[k - Len(audit)]
  BY ConcatProperties
<1>2. \A k \in 1..Len(audit') : IsHalt(audit'[k]) <=> k <= Len(audit) /\ IsHalt(audit[k])
  <2> SUFFICES ASSUME NEW k \in 1..Len(audit')
               PROVE  IsHalt(audit'[k]) <=> k <= Len(audit) /\ IsHalt(audit[k])
    OBVIOUS
  <2>1. CASE k <= Len(audit)
    BY <1>1, <2>1
  <2>2. CASE k > Len(audit)
    <3>1. k - Len(audit) \in 1..Len(r) /\ audit'[k] = r[k - Len(audit)]
      BY <1>1, <2>2
    <3>2. QED
      BY <3>1, <2>2
  <2>3. QED
    BY <2>1, <2>2
<1>3. QED
  BY <1>1, <1>2 DEF HaltRecords

LEMMA HaltsKeptByOne ==
  ASSUME TypeOK, NEW e \in AuditRecords, audit' = Append(audit, e), ~IsHalt(e)
  PROVE  HaltRecords' = HaltRecords
<1>1. <<e>> \in Seq(AuditRecords) /\ Len(<<e>>) = 1 /\ <<e>>[1] = e
  OBVIOUS
<1>2. audit' = audit \o <<e>>
  BY AppendIsConcat DEF TypeOK
<1>3. \A k \in 1..Len(<<e>>) : ~IsHalt(<<e>>[k])
  BY <1>1
<1>4. QED
  BY <1>1, <1>2, <1>3, HaltsKept

LEMMA HaltsUnchanged == audit' = audit => HaltRecords' = HaltRecords
  BY DEF HaltRecords

\* A hand-off on a trail without a HALT record puts exactly one on it.
LEMMA HandOffHalts ==
  ASSUME TypeOK, NEW records \in Seq(AuditRecords), HandOff(records),
         \A k \in 1..Len(records) : ~IsHalt(records[k]),
         HaltRecords = {}
  PROVE  \E k : HaltRecords' = {k}
<1> DEFINE before == audit \o records
           halt   == GaveUp
           last   == Len(before) + 1
<1>1. halt \in AuditRecords /\ IsHalt(halt)
  BY RecordTypes, OrdinaryRecords
<1>2. /\ before \in Seq(AuditRecords) /\ Len(before) = Len(audit) + Len(records)
      /\ \A k \in 1..Len(before) :
            before[k] = IF k <= Len(audit) THEN audit[k] ELSE records[k - Len(audit)]
  BY ConcatProperties DEF TypeOK
<1>3. \A k \in 1..Len(before) : ~IsHalt(before[k])
  <2> SUFFICES ASSUME NEW k \in 1..Len(before) PROVE ~IsHalt(before[k])
    OBVIOUS
  <2>1. CASE k <= Len(audit)
    <3>1. k \in 1..Len(audit) /\ before[k] = audit[k]
      BY <1>2, <2>1 DEF TypeOK
    <3>2. QED
      BY <3>1 DEF HaltRecords
  <2>2. CASE k > Len(audit)
    <3>1. k - Len(audit) \in 1..Len(records) /\ before[k] = records[k - Len(audit)]
      BY <1>2, <2>2 DEF TypeOK
    <3>2. QED
      BY <3>1
  <2>3. QED
    BY <2>1, <2>2 DEF TypeOK
<1>4. audit' = Append(before, halt)
  BY <1>1, <1>2, AppendIsConcat DEF HandOff
<1>5. /\ Len(audit') = last /\ audit'[last] = halt
      /\ \A k \in 1..Len(before) : audit'[k] = before[k]
  BY <1>1, <1>2, <1>4, AppendProperties
<1>6. \A k \in 1..last : IsHalt(audit'[k]) <=> k = last
  <2> SUFFICES ASSUME NEW k \in 1..last PROVE IsHalt(audit'[k]) <=> k = last
    OBVIOUS
  <2>1. CASE k = last
    BY <1>1, <1>5, <2>1
  <2>2. CASE k # last
    <3>1. k \in 1..Len(before)
      BY <1>2, <2>2
    <3>2. QED
      BY <1>3, <1>5, <2>2, <3>1
  <2>3. QED
    BY <2>1, <2>2
<1>7. last \in 1..last
  BY <1>2
<1>8. HaltRecords' = {last}
  BY <1>5, <1>6, <1>7 DEF HaltRecords
<1>9. QED
  BY <1>8

LEMMA HandOffStep ==
  TypeOK /\ ControlInv /\ RepairInv /\ HandOffInv /\ [Next]_vars => HandOffInv'
<1> SUFFICES ASSUME TypeOK, ControlInv, RepairInv, HandOffInv, [Next]_vars
             PROVE  HandOffInv'
  OBVIOUS
<1> USE DEF inputs, loop, trail, HandOffInv, HandOffsAgree, BeforeRepair, Return
<1>a. \A code \in ExceptionCodes : Noted(code) \cap {"UNRECOVERABLE", "HITL"} = {}
  BY DEF Noted, ExceptionCodes, route_exception, Procedure
\* A recovery by itself tells nothing of a hand-off.
<1>b. ASSUME NEW code \in ExceptionCodes, NEW notes \in {Noted(code), {}},
             RecoverNoting(code, notes)
      PROVE  /\ HaltRecords' = HaltRecords
             /\ "UNRECOVERABLE" \in ambiguities' <=> "UNRECOVERABLE" \in ambiguities
             /\ "HITL" \in ambiguities' <=> "HITL" \in ambiguities
  <2>1. HaltRecords' = HaltRecords
    BY <1>b, RecordTypes, OrdinaryRecords, HaltsKeptByOne DEF RecoverNoting
  <2>2. QED
    BY <2>1, <1>a, <1>b DEF RecoverNoting
<1>c. ASSUME NEW t \in Targets, audit' = Append(audit, Verified(t))
      PROVE  HaltRecords' = HaltRecords
  BY <1>c, RecordTypes, OrdinaryRecords, HaltsKeptByOne
<1>d. target \in Targets
  BY DEF TypeOK
<1>0. CASE UNCHANGED vars
  BY <1>0, HaltsUnchanged DEF vars
<1>1. CASE Run
  BY <1>1, OnlyOneStart, HaltsUnchanged DEF Run, Transition, ControlInv
<1>2. CASE AnalyzeDocument
  <2>1. HaltRecords' = HaltRecords
    BY <1>2, RecordTypes, OrdinaryRecords, HaltsKeptByOne DEF AnalyzeDocument
  <2>2. QED
    BY <1>2, <2>1 DEF AnalyzeDocument
<1>3. CASE AnalyzeFails
  BY <1>3, <1>b, CodeNames DEF AnalyzeFails, Recover
<1>4. CASE BuildGlossary
  <2>1. CASE audit' = Append(audit, Done("BUILD_GLOSSARY")) /\ UNCHANGED ambiguities
    <3>1. HaltRecords' = HaltRecords
      BY <2>1, RecordTypes, OrdinaryRecords, HaltsKeptByOne
    <3>2. QED
      BY <1>4, <2>1, <3>1 DEF BuildGlossary
  <2>2. CASE Recover("GLOSSARY_CONFLICT")
    BY <1>4, <2>2, <1>b, CodeNames DEF BuildGlossary, Recover
  <2>3. QED
    BY <1>4, <2>1, <2>2 DEF BuildGlossary
<1>5. CASE BuildEntityTable
  <2> DEFINE two == <<AmbiguousToken, Done("BUILD_ENTITY_TABLE")>>
  <2>1. CASE audit' = Append(audit, Done("BUILD_ENTITY_TABLE")) /\ UNCHANGED ambiguities
    <3>1. HaltRecords' = HaltRecords
      BY <2>1, RecordTypes, OrdinaryRecords, HaltsKeptByOne
    <3>2. QED
      BY <1>5, <2>1, <3>1 DEF BuildEntityTable
  <2>2. CASE /\ audit' = audit \o two
             /\ ambiguities' = ambiguities \cup Noted("ENTITY_AMBIGUITY")
    <3>1. AmbiguousToken \in AuditRecords /\ ~IsHalt(AmbiguousToken)
      BY RecordTypes, OrdinaryRecords
    <3>2. Done("BUILD_ENTITY_TABLE") \in AuditRecords /\ ~IsHalt(Done("BUILD_ENTITY_TABLE"))
      BY RecordTypes, OrdinaryRecords
    <3>3. /\ two \in Seq(AuditRecords) /\ Len(two) = 2
          /\ two[1] = AmbiguousToken /\ two[2] = Done("BUILD_ENTITY_TABLE")
      BY <3>1, <3>2
    <3>4. \A k \in 1..Len(two) : ~IsHalt(two[k])
      BY <3>1, <3>2, <3>3
    <3>5. HaltRecords' = HaltRecords
      BY <2>2, <3>3, <3>4, HaltsKept
    <3>6. QED
      BY <1>5, <2>2, <3>5, <1>a, CodeNames DEF BuildEntityTable
  <2>3. CASE Recover("ENTITY_AMBIGUITY")
    BY <1>5, <2>3, <1>b, CodeNames DEF BuildEntityTable, Recover
  <2>4. QED
    BY <1>5, <2>1, <2>2, <2>3 DEF BuildEntityTable
<1>6. CASE ExecuteTranslation
  <2> DEFINE done == <<Done("TRANSLATE_SEGMENT")>>
  <2>1. PICK unknown \in UnknownTermTraces :
           /\ ambiguities' = ambiguities \cup unknown[1]
           /\ audit' = audit \o unknown[2] \o done
    BY <1>6 DEF ExecuteTranslation
  <2>2. /\ Handled("UNKNOWN_TERM") \in AuditRecords /\ ~IsHalt(Handled("UNKNOWN_TERM"))
        /\ Done("TRANSLATE_SEGMENT") \in AuditRecords /\ ~IsHalt(Done("TRANSLATE_SEGMENT"))
    BY CodeNames, RecordTypes, OrdinaryRecords
  <2>3. /\ unknown[1] \in {{}, Noted("UNKNOWN_TERM")}
        /\ unknown[2] \in {<<>>, <<Handled("UNKNOWN_TERM")>>}
    BY DEF UnknownTermTraces
  <2> DEFINE new == unknown[2] \o done
  <2>4. unknown[2] \in Seq(AuditRecords) /\ done \in Seq(AuditRecords) /\ Len(done) = 1
    <3>1. /\ <<Handled("UNKNOWN_TERM")>> \in Seq(AuditRecords)
          /\ <<>> \in Seq(AuditRecords) /\ done \in Seq(AuditRecords) /\ Len(done) = 1
      BY <2>2
    <3>2. QED
      BY <2>3, <3>1
  <2>5. \A k \in 1..Len(unknown[2]) : ~IsHalt(unknown[2][k])
    BY <2>2, <2>3
  <2>6. audit' = audit \o new /\ new \in Seq(AuditRecords)
    <3>1. audit \in Seq(AuditRecords)
      BY DEF TypeOK
    <3>a. \A a, b, c \in Seq(AuditRecords) : a \o b \o c = a \o (b \o c)
      BY JoinedRecords
    <3>2. audit \o unknown[2] \o done = audit \o new
      BY ONLY <2>4, <3>1, <3>a, ZenonT(60)
    <3>3. new \in Seq(AuditRecords)
      BY <2>4, ConcatProperties
    <3>4. QED
      BY <2>1, <3>2, <3>3
  <2>7. \A k \in 1..Len(new) : ~IsHalt(new[k])
    <3>1. /\ Len(new) = Len(unknown[2]) + 1
          /\ \A k \in 1..(Len(unknown[2]) + 1) :
                new[k] = IF k <= Len(unknown[2]) THEN unknown[2][k] ELSE done[k - Len(unknown[2])]
      BY <2>4, ConcatProperties
    <3>2. \A k \in 1..(Len(unknown[2]) + 1) : k > Len(unknown[2]) => k - Len(unknown[2]) = 1
      BY <2>4
    <3>3. QED
      BY <2>2, <2>4, <2>5, <3>1, <3>2
  <2>8. HaltRecords' = HaltRecords
    BY <2>6, <2>7, HaltsKept
  <2>9. QED
    BY <1>6, <2>1, <2>3, <2>8, <1>a, CodeNames DEF ExecuteTranslation
<1>7. CASE TranslationRaises
  BY <1>7, <1>b DEF TranslationRaises
<1>8. CASE VerifyOutput
  <2>1. CASE audit' = Append(audit, Verified(target)) /\ UNCHANGED ambiguities
    BY <1>8, <2>1, <1>c, <1>d DEF VerifyOutput
  <2>2. CASE Recover("TRA_ERROR")
    BY <1>8, <2>2, <1>b, CodeNames DEF VerifyOutput, Recover
  <2>3. QED
    BY <1>8, <2>1, <2>2 DEF VerifyOutput
<1>9. CASE RepairSegment
  <2>1. PICK d \in First(pending) :
           \E t \in Repairs(target, d) : audit' = audit \o <<Verified(t), Repaired(t, d)>>
    BY <1>9 DEF RepairSegment
  <2>2. PICK t \in Repairs(target, d) : audit' = audit \o <<Verified(t), Repaired(t, d)>>
    BY <2>1
  <2>3. d \in Issues \cup {Forced} /\ t \in Targets
    BY TextTypes DEF First, Repairs, TypeOK, Targets
  <2> DEFINE two == <<Verified(t), Repaired(t, d)>>
  <2>4. /\ Verified(t) \in AuditRecords /\ ~IsHalt(Verified(t))
        /\ Repaired(t, d) \in AuditRecords /\ ~IsHalt(Repaired(t, d))
    BY <2>3, RecordTypes, OrdinaryRecords
  <2>5. two \in Seq(AuditRecords) /\ \A k \in 1..Len(two) : ~IsHalt(two[k])
    BY <2>4
  <2>6. HaltRecords' = HaltRecords
    BY <2>2, <2>5, HaltsKept
  <2>7. QED
    BY <1>9, <2>6 DEF RepairSegment
<1>10. CASE RepairUnrecoverable
  <2>1. PICK records \in {<<>>} \cup {<<Verified(t)>> : t \in Targets} : HandOff(records)
    <3>1. \A d \in First(pending) : Repairs(target, d) \subseteq Targets
      BY TextTypes DEF Repairs, TypeOK, Targets
    <3>2. QED
      BY <1>10, <3>1 DEF RepairUnrecoverable
  <2>2. records \in Seq(AuditRecords) /\ \A k \in 1..Len(records) : ~IsHalt(records[k])
    <3>1. CASE records = <<>>
      BY <3>1
    <3>2. CASE \E t \in Targets : records = <<Verified(t)>>
      BY <3>2, RecordTypes, OrdinaryRecords
    <3>3. QED
      BY <3>1, <3>2
  <2>3. HaltRecords = {} /\ "HITL" \notin ambiguities
    BY <1>10 DEF RepairUnrecoverable
  <2>4. PICK k : HaltRecords' = {k}
    BY <2>1, <2>2, <2>3, HandOffHalts
  <2>5. /\ ambiguities' = ambiguities \cup {"UNRECOVERABLE"}
        /\ pc' = IF cfg.interactive THEN "hitl" ELSE "anchors"
    BY <2>1 DEF HandOff
  <2>6. QED
    BY <1>10, <2>3, <2>4, <2>5 DEF RepairUnrecoverable
<1>11. CASE RepairUncaught
  BY <1>11, HaltsUnchanged DEF RepairUncaught
<1>12. CASE ReverifyOutput
  <2>1. CASE audit' = Append(audit, Verified(target)) /\ UNCHANGED ambiguities
    BY <1>12, <2>1, <1>c, <1>d DEF ReverifyOutput
  <2>2. CASE Recover("TRA_ERROR")
    BY <1>12, <2>2, <1>b, CodeNames DEF ReverifyOutput, Recover
  <2>3. QED
    BY <1>12, <2>1, <2>2 DEF ReverifyOutput
<1>13. CASE ReviewDecision \/ RewriteAnchors
  BY <1>13, HaltsUnchanged DEF ReviewDecision, RewriteAnchors
<1>14. CASE GateSkipped
  BY <1>14, HaltsUnchanged DEF GateSkipped
<1>15. CASE GatePasses
  BY <1>15, <1>c, <1>d DEF GatePasses
<1>16. CASE GateRejects
  <2>1. CASE audit' = Append(audit, Verified(target)) /\ UNCHANGED ambiguities
    BY <1>16, <2>1, <1>c, <1>d DEF GateRejects
  <2>2. CASE Recover("TRA_ERROR")
    BY <1>16, <2>2, <1>b, CodeNames DEF GateRejects, Recover
  <2>3. QED
    BY <1>16, <2>1, <2>2 DEF GateRejects
<1>17. CASE AuditDiagnostics \/ EmitPayload \/ ExportArtifact \/ Crash
  BY <1>17, HaltsUnchanged DEF AuditDiagnostics, EmitPayload, ExportArtifact, Crash
<1>18. QED
  BY <1>0, <1>1, <1>2, <1>3, <1>4, <1>5, <1>6, <1>7, <1>8, <1>9, <1>10, <1>11, <1>12,
     <1>13, <1>14, <1>15, <1>16, <1>17 DEF Next, Pipeline

\* The register, the trail and the review tell the same story of a hand-off.
THEOREM HandOffs == Spec => []HandOffsAgree
<1>1. Init => HandOffInv
  BY DEF Init, HandOffInv, HandOffsAgree, HaltRecords, BeforeRepair
<1>2. KernelInv => TypeOK /\ ControlInv /\ RepairInv
  BY DEF KernelInv
<1>3. HandOffInv => HandOffsAgree
  BY DEF HandOffInv
<1>4. QED
  BY <1>1, <1>2, <1>3, HandOffStep, KernelInvariant, PTL DEF Spec

-----------------------------------------------------------------------------
(* The kernel implements the abstract lifecycle. *)

LEMMA LifecycleInit == Init => LC!LInit
  BY DEF Init, LC!LInit, KernelIndex, ResultOf, Strict, Conformant

LEMMA LifecycleStep == KernelInv /\ [Next]_vars => [LC!LNext]_LC!lvars
<1> SUFFICES ASSUME KernelInv, [Next]_vars
             PROVE  LC!LNext \/ UNCHANGED LC!lvars
  BY DEF LC!lvars
<1> USE DEF inputs, loop, trail, NoTransition, Return, ResultOf
<1> DEFINE index == KernelIndex[state]
<1>a. TypeOK /\ ControlInv /\ EmissionInv
  BY DEF KernelInv
<1>b. Strict \in BOOLEAN /\ Conformant \in BOOLEAN /\ Conformant' \in BOOLEAN
  BY DEF Strict, Conformant
<1>c. Strict' = Strict
  BY DEF Next, Pipeline, Run, AnalyzeDocument, AnalyzeFails, BuildGlossary,
     BuildEntityTable, ExecuteTranslation, TranslationRaises, VerifyOutput,
     RepairSegment, RepairUnrecoverable, RepairUncaught, ReverifyOutput,
     ReviewDecision, RewriteAnchors, GateSkipped, GatePasses, GateRejects,
     AuditDiagnostics, EmitPayload, ExportArtifact, Crash, vars, Strict
\* A step that stays in its lifecycle state before the gate is LWork.
<1>d. ASSUME outcome = "running", outcome' = "running", state' = state,
             pc \in {"glossary", "repair", "reverify", "hitl", "gate"}
      PROVE  LC!LWork
  BY <1>a, <1>b, <1>c, <1>d DEF LC!LWork, LC!GatePhase, ControlInv, StateAt, KernelIndex
\* A transition up to the gate is LAdvance.
<1>e. ASSUME NEW next \in KernelStates, Transition(next),
             outcome = "running", outcome' = "running",
             KernelIndex[next] = index + 1, index < LC!GatePhase
      PROVE  LC!LAdvance
  <2>1. index \in 0..8
    BY <1>a DEF TypeOK, KernelStates, KernelIndex
  <2>2. QED
    BY <2>1, <1>b, <1>c, <1>e DEF LC!LAdvance, LC!GatePhase, LC!Last, Transition
\* The run ends: the candidate and the lifecycle state stay.
<1>f. ASSUME NEW r \in {"emitted", "empty", "rejected", "failed"},
             outcome = "running", ResultOf(outcome') = r, state' = state,
             Conformant' = Conformant,
             r = "emitted"  => state = "EMIT_PAYLOAD",
             r = "empty"    => state = "INITIALIZE_RUNTIME" /\ ~Strict,
             r = "rejected" => state \in {"INITIALIZE_RUNTIME", "REPAIR_IF_NEEDED"} /\ Strict
      PROVE  LC!LNext
  <2>1. LC!LFinish(r)
    BY <1>c, <1>f DEF LC!LFinish, LC!Last, LC!GatePhase, KernelIndex
  <2>2. QED
    BY <2>1 DEF LC!LNext, LC!Results
<1>0. CASE UNCHANGED vars
  BY <1>0 DEF vars, LC!lvars, Strict, Conformant
<1>1. CASE Run
  <2>1. CASE Transition("INITIALIZE_RUNTIME")
    <3>1. state = "BOOTSTRAP" /\ outcome = "running"
      BY <2>1, <1>1, <1>a, OnlyOneStart DEF Transition, Run, ControlInv
    <3>2. QED
      BY <2>1, <3>1, <1>1, <1>e, StateNames DEF LC!LNext, LC!GatePhase, KernelIndex, Run, Transition
  <2>2. CASE ~LegalTransition("INITIALIZE_RUNTIME")
    <3>1. outcome # "running"
      BY <2>2, <1>1, <1>a, OnlyOneStart DEF Run, ControlInv, StateAt
    <3>2. outcome' = "raised" /\ state' = state /\ Conformant' = Conformant
      BY <2>2, <1>1 DEF Run, Transition, Conformant
    <3>3. QED
      BY <3>1, <3>2, <1>c, <1>a DEF LC!LNext, LC!LMisuse, TypeOK, Outcomes
  <2>3. QED
    BY <1>1, <2>1, <2>2 DEF Run
<1>2. CASE AnalyzeDocument
  BY <1>2, <1>a, <1>e, StateNames
     DEF AnalyzeDocument, ControlInv, StateAt, LC!LNext, LC!GatePhase, KernelIndex
<1>3. CASE AnalyzeFails
  <2>1. Conformant' = Conformant
    BY <1>3 DEF AnalyzeFails, Recover, RecoverNoting, Noted, route_exception, Procedure, Conformant
  <2>2. outcome = "running" /\ state = "INITIALIZE_RUNTIME" /\ state' = state
    BY <1>3, <1>a DEF AnalyzeFails, ControlInv, StateAt
  <2>3. ResultOf(outcome') = IF Strict THEN "rejected" ELSE "empty"
    BY <1>3 DEF AnalyzeFails
  <2>4. QED
    BY <2>1, <2>2, <2>3, <1>f
<1>4. CASE BuildGlossary \/ RepairSegment \/ ReverifyOutput \/ ReviewDecision
  <2>1. pc \in {"glossary", "repair", "reverify", "hitl"} /\ pc' # "done" /\ state' = state
    BY <1>4 DEF BuildGlossary, RepairSegment, ReverifyOutput, ReviewDecision
  <2>2. outcome = "running" /\ outcome' = "running"
    BY <1>4, <2>1, <1>a DEF BuildGlossary, RepairSegment, ReverifyOutput, ReviewDecision, ControlInv
  <2>3. QED
    BY <2>1, <2>2, <1>d DEF LC!LNext
<1>5. CASE RepairUnrecoverable
  BY <1>5, <1>a, <1>d DEF RepairUnrecoverable, ControlInv, LC!LNext
<1>6. CASE BuildEntityTable
  BY <1>6, <1>a, <1>e, StateNames
     DEF BuildEntityTable, ControlInv, StateAt, LC!LNext, LC!GatePhase, KernelIndex
<1>7. CASE ExecuteTranslation \/ TranslationRaises
  <2>1. /\ pc = "translate" /\ Transition("EXECUTE_TRANSLATION") /\ outcome' = outcome
    BY <1>7 DEF ExecuteTranslation, TranslationRaises
  <2>2. QED
    BY <2>1, <1>a, <1>e, StateNames
       DEF ControlInv, StateAt, LC!LNext, LC!GatePhase, KernelIndex
<1>8. CASE VerifyOutput
  BY <1>8, <1>a, <1>e, StateNames
     DEF VerifyOutput, ControlInv, StateAt, LC!LNext, LC!GatePhase, KernelIndex
<1>9. CASE RepairUncaught \/ Crash
  <2>1. pc # "done" /\ outcome' \in {"raised", "crashed"} /\ state' = state
    BY <1>9 DEF RepairUncaught, Crash
  <2>2. Conformant' = Conformant
    BY <1>9 DEF RepairUncaught, Crash, Conformant
  <2>3. QED
    BY <2>1, <2>2, <1>a, <1>f DEF ControlInv
<1>10. CASE RewriteAnchors
  BY <1>10, <1>a, <1>e, StateNames
     DEF RewriteAnchors, ControlInv, StateAt, LC!LNext, LC!GatePhase, KernelIndex
<1>11. CASE GateSkipped \/ GatePasses
  BY <1>11, <1>a, <1>d DEF GateSkipped, GatePasses, ControlInv, LC!LNext
<1>12. CASE GateRejects
  <2>1. Conformant' = Conformant
    BY <1>12 DEF GateRejects, Recover, RecoverNoting, Noted, route_exception, Procedure, Conformant
  <2>2. outcome = "running" /\ state = "REPAIR_IF_NEEDED" /\ state' = state
    BY <1>12, <1>a DEF GateRejects, ControlInv, StateAt
  <2>3. Strict /\ ResultOf(outcome') = "rejected"
    BY <1>12 DEF GateRejects
  <2>4. QED
    BY <2>1, <2>2, <2>3, <1>f
\* Past the gate an advance keeps the candidate, and entering it needs a clean one.
<1>13. CASE AuditDiagnostics \/ EmitPayload
  <2>1. Conformant' = Conformant /\ (Strict => Conformant)
    BY <1>13, <1>a DEF AuditDiagnostics, EmitPayload, EmissionInv, Conformant
  <2>2. \/ state = "REPAIR_IF_NEEDED" /\ state' = "AUDIT_DIAGNOSTICS"
        \/ state = "AUDIT_DIAGNOSTICS" /\ state' = "EMIT_PAYLOAD"
    BY <1>13, <1>a DEF AuditDiagnostics, EmitPayload, ControlInv, StateAt, Transition
  <2>3. outcome = "running" /\ outcome' = "running"
    BY <1>13, <1>a DEF AuditDiagnostics, EmitPayload, ControlInv
  <2>4. LC!LAdvance
    BY <2>1, <2>2, <2>3, <1>b, <1>c
       DEF LC!LAdvance, LC!GatePhase, LC!Last, KernelIndex
  <2>5. QED
    BY <2>4 DEF LC!LNext
<1>14. CASE ExportArtifact
  <2>1. Conformant' = Conformant /\ state' = state /\ state = "EMIT_PAYLOAD"
        /\ outcome = "running" /\ outcome' \in {"running", "emitted"}
    BY <1>14, <1>a DEF ExportArtifact, ControlInv, StateAt, Conformant
  <2>2. CASE outcome' = "running"
    BY <2>1, <2>2, <1>c DEF LC!lvars
  <2>3. CASE outcome' = "emitted"
    BY <2>1, <2>3, <1>f
  <2>4. QED
    BY <2>1, <2>2, <2>3
<1>15. QED
  BY <1>0, <1>1, <1>2, <1>3, <1>4, <1>5, <1>6, <1>7, <1>8, <1>9, <1>10, <1>11, <1>12,
     <1>13, <1>14 DEF Next, Pipeline

\* The kernel implements the abstract lifecycle: the phases in order, one at a
\* time; a strict payload only past the gate, with the candidate the gate saw.
THEOREM Implements == Spec => ImplementsLifecycle
<1>1. QED
  BY LifecycleInit, LifecycleStep, KernelInvariant, PTL
     DEF Spec, ImplementsLifecycle, LC!LSpec

=============================================================================
