------------------------------- MODULE Policy -------------------------------
(***************************************************************************)
(* The arbitration stack of tra/memory.py and tra/policy.py, and how       *)
(* verify_output (tra/isa.py) turns a win over Target Fluency into the     *)
(* severity of a diagnostic.  PolicyResolver ignores the order of the list *)
(* it is given: the precedence of a priority is its enum value.            *)
(***************************************************************************)
EXTENDS Integers

\* memory.py: lower number = higher priority.
PolicyPriority == [FACTUAL_INTEGRITY          |-> 1,
                   STRUCTURAL_INTEGRITY       |-> 2,
                   ENTITY_PRESERVATION        |-> 3,
                   TERMINOLOGICAL_CONSISTENCY |-> 4,
                   EPISTEMIC_FIDELITY         |-> 5,
                   TARGET_FLUENCY             |-> 6]

Severities == {"BLOCKING", "WARNING", "INFO"}

wins(candidate, over) == PolicyPriority[candidate] <= PolicyPriority[over]

\* The priority that verify_output arbitrates against fluency, by subsystem.
PriorityOf == [structural  |-> "STRUCTURAL_INTEGRITY",
               factual     |-> "FACTUAL_INTEGRITY",
               entity      |-> "ENTITY_PRESERVATION",
               terminology |-> "TERMINOLOGICAL_CONSISTENCY",
               epistemic   |-> "EPISTEMIC_FIDELITY"]

VerifiedSubsystems == DOMAIN PriorityOf

\* The order in which verify_output runs its sections, hence the order of
\* the diagnostics the repair loop is given.
VerifyRank == [structural |-> 1, factual |-> 2, entity |-> 3,
               terminology |-> 4, epistemic |-> 5]

severity_of(subsystem) ==
    IF wins(PriorityOf[subsystem], "TARGET_FLUENCY") THEN "BLOCKING" ELSE "WARNING"
=============================================================================
