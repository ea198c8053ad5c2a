------------------------------ MODULE Recovery ------------------------------
(***************************************************************************)
(* route_exception (tra/recovery.py): the recovery procedure each          *)
(* TRA-EXCEPTION is dispatched to.  A procedure is described by the        *)
(* severity and action it records and by whether it adds a note to         *)
(* unresolved_ambiguities (which it does only for an exception that names  *)
(* its term).  ConformanceFailure and the base class have no procedure of  *)
(* their own.  The kernel never passes critical_hierarchy_lost, so         *)
(* BROKEN_MARKDOWN never asks for HALT.                                    *)
(***************************************************************************)

ExceptionCodes == {"UNKNOWN_TERM", "BROKEN_MARKDOWN", "CERTAINTY_CONFLICT",
                   "ENTITY_AMBIGUITY", "GLOSSARY_CONFLICT", "UNRECOVERABLE",
                   "CONFORMANCE_FAILURE", "TRA_ERROR"}

Procedure(sev, act, noted) == [severity |-> sev, action |-> act, noted |-> noted]

route_exception ==
    [UNKNOWN_TERM       |-> Procedure("WARNING",  "PRESERVE_SOURCE",      TRUE),
     BROKEN_MARKDOWN    |-> Procedure("BLOCKING", "PRESERVE_SOURCE",      FALSE),
     CERTAINTY_CONFLICT |-> Procedure("WARNING",  "PRIORITIZE_EPISTEMIC", TRUE),
     ENTITY_AMBIGUITY   |-> Procedure("WARNING",  "TREAT_AS_ENTITY",      TRUE),
     GLOSSARY_CONFLICT  |-> Procedure("BLOCKING", "USE_FIRST_OCCURRENCE", TRUE),
     UNRECOVERABLE      |-> Procedure("BLOCKING", "HALT",                 FALSE),
     CONFORMANCE_FAILURE |-> Procedure("WARNING", "PRESERVE_SOURCE",      FALSE),
     TRA_ERROR          |-> Procedure("WARNING",  "PRESERVE_SOURCE",      FALSE)]
=============================================================================
