----------------------------- MODULE Lifecycle ------------------------------
(***************************************************************************)
(* What one TRAKernel promises its caller, whatever happens inside the     *)
(* pipeline: the lifecycle phases are visited in the canonical order, one  *)
(* at a time and never twice; a payload is only returned from the last     *)
(* phase; an empty payload only when the document could not be analysed;   *)
(* and at a strict conformance level the phases after the gate are entered *)
(* only with a candidate that is clean and stays the one that was judged.  *)
(***************************************************************************)
EXTENDS Integers

Last == 8            \* EMIT_PAYLOAD
GatePhase == 6       \* REPAIR_IF_NEEDED: the conformance gate is its exit

VARIABLES
    strict,          \* TRUE at L3_STRICT and L4_FORENSIC; never changes
    phase,           \* index in the canonical order, 0 = BOOTSTRAP
    clean,           \* the current candidate carries no violation
    result           \* what the caller has seen

lvars == <<strict, phase, clean, result>>

Results == {"running", "emitted", "empty", "rejected", "failed"}

LInit == strict \in BOOLEAN /\ phase = 0 /\ clean \in BOOLEAN /\ result = "running"

\* The candidate may change only before the gate has been passed.
LWork ==
    /\ result = "running"
    /\ phase <= GatePhase
    /\ clean' \in BOOLEAN
    /\ UNCHANGED <<strict, phase, result>>

LAdvance ==
    /\ result = "running"
    /\ phase < Last
    /\ phase = GatePhase /\ strict => clean
    /\ phase' = phase + 1
    /\ clean' \in BOOLEAN
    /\ phase >= GatePhase => clean' = clean
    /\ UNCHANGED <<strict, result>>

LFinish(r) ==
    /\ result = "running"
    /\ r = "emitted"  => phase = Last
    /\ r = "empty"    => phase = 1 /\ ~strict
    /\ r = "rejected" => phase \in {1, GatePhase} /\ strict
    /\ result' = r
    /\ UNCHANGED <<strict, phase, clean>>

\* run() called again on a finished kernel: it raises and changes nothing.
LMisuse ==
    /\ result # "running"
    /\ result' = "failed"
    /\ UNCHANGED <<strict, phase, clean>>

LNext == LWork \/ LAdvance \/ LMisuse \/ \E r \in Results \ {"running"} : LFinish(r)

LSpec == LInit /\ [][LNext]_lvars
=============================================================================
