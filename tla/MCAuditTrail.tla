---------------------------- MODULE MCAuditTrail ----------------------------
(* Instances of AuditTrail for TLC. *)
EXTENDS AuditTrailProps, TLC

CONSTANTS r1, r2, r3

Interchangeable == Permutations({r1, r2, r3})
=============================================================================
