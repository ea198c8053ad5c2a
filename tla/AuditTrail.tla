----------------------------- MODULE AuditTrail -----------------------------
(***************************************************************************)
(* AuditTrail of tra/diagnostics.py: the trails of several runs that are    *)
(* configured with the same file.  A flush is a sequence of writes, any of  *)
(* which may raise or be the last thing its process does; other processes   *)
(* act in between.                                                         *)
(*                                                                         *)
(* An operator named X_<fault> is not used by the specification: it is X   *)
(* with a plausible bug, for the properties to find.                       *)
(***************************************************************************)
EXTENDS Naturals, Sequences

CONSTANTS Trails,      \* the AuditTrail objects, one per run
          Reflush,     \* whether a caller flushes again after a flush raised
          MaxRecords   \* bound: records per trail

ASSUME TrailAssumption == Reflush \in BOOLEAN /\ MaxRecords \in Nat

VARIABLES status,    \* of each object: where its process is
          appended,  \* _seq and the length of _buffer: record n has sequence_id n
          flushed,   \* _flushed
          written,   \* in a flush: how much of _buffer is written
          handle,    \* in a flush: whether it still writes to the file at `path`
          file,      \* the lines of the file at `path`
          torn,      \* whether its last line lacks the newline
          sequential \* history: every run so far was constructed with
                     \* truncate=True after the processes before it had ended

vars == <<status, appended, flushed, written, handle, file, torn, sequential>>

Statuses == {"none", "live", "flushing", "raised", "dead"}

\* A line: whose record, its sequence_id, and whether it is that record and
\* nothing else.
Lines == [trail : Trails, seq : Nat, whole : BOOLEAN]
Line(t, whole) == [trail |-> t, seq |-> written[t], whole |-> whole]

Init ==
  /\ status = [t \in Trails |-> "none"]
  /\ appended = [t \in Trails |-> 0]
  /\ flushed = [t \in Trails |-> 0]
  /\ written = [t \in Trails |-> 0]
  /\ handle = [t \in Trails |-> "closed"]
  /\ file = <<>>
  /\ torn = FALSE
  /\ sequential = TRUE

-----------------------------------------------------------------------------
Alone == \A u \in Trails : status[u] \in {"none", "dead"}

\* Fault: the file of the previous run is kept (TRA-E6-001).
Construct_appending(t) ==
  /\ status[t] = "none"
  /\ status' = [status EXCEPT ![t] = "live"]
  /\ \E truncate \in BOOLEAN : sequential' = (sequential /\ truncate /\ Alone)
  /\ UNCHANGED <<appended, flushed, written, file, torn, handle>>

\* AuditTrail(path, truncate=...).  unlink() leaves handles that are open on
\* the file writing to nowhere.
Construct(t) ==
  /\ status[t] = "none"
  /\ status' = [status EXCEPT ![t] = "live"]
  /\ \E truncate \in BOOLEAN :
       /\ sequential' = (sequential /\ truncate /\ Alone)
       /\ IF truncate
            THEN /\ file' = <<>> /\ torn' = FALSE
                 /\ handle' = [u \in Trails |-> IF handle[u] = "path" THEN "unlinked" ELSE handle[u]]
            ELSE UNCHANGED <<file, torn, handle>>
  /\ UNCHANGED <<appended, flushed, written>>

\* append(): in memory only.
AppendRecord(t) ==
  /\ status[t] = "live"
  /\ appended[t] < MaxRecords
  /\ appended' = [appended EXCEPT ![t] = @ + 1]
  /\ UNCHANGED <<status, flushed, written, handle, file, torn, sequential>>

\* flush(): nothing to do without records, else open for appending.
BeginFlush(t) ==
  /\ status[t] \in {"live"} \cup (IF Reflush THEN {"raised"} ELSE {})
  /\ appended[t] > 0
  /\ status' = [status EXCEPT ![t] = "flushing"]
  /\ handle' = [handle EXCEPT ![t] = "path"]
  /\ written' = [written EXCEPT ![t] = flushed[t]]
  /\ UNCHANGED <<appended, flushed, file, torn, sequential>>

\* The next piece of the buffer reaches the file, to the end of a line or not.
\* What follows a torn line becomes part of it.
Put(t, whole) ==
  IF handle[t] = "path"
    THEN /\ file' = IF torn THEN file ELSE Append(file, Line(t, whole))
         /\ torn' = ~whole
    ELSE UNCHANGED <<file, torn>>

WriteLine(t) ==
  /\ status[t] = "flushing"
  /\ written[t] < appended[t]
  /\ Put(t, TRUE)
  /\ written' = [written EXCEPT ![t] = @ + 1]
  /\ UNCHANGED <<status, appended, flushed, handle, sequential>>

\* Fault: the mark of the flushed records is not moved.
EndFlush_unmarked(t) ==
  /\ status[t] = "flushing"
  /\ written[t] = appended[t]
  /\ status' = [status EXCEPT ![t] = "live"]
  /\ handle' = [handle EXCEPT ![t] = "closed"]
  /\ UNCHANGED <<appended, flushed, written, file, torn, sequential>>

\* The file is closed and only then _flushed set.
EndFlush(t) ==
  /\ status[t] = "flushing"
  /\ written[t] = appended[t]
  /\ status' = [status EXCEPT ![t] = "live"]
  /\ handle' = [handle EXCEPT ![t] = "closed"]
  /\ flushed' = [flushed EXCEPT ![t] = appended[t]]
  /\ UNCHANGED <<appended, written, file, torn, sequential>>

\* A flush is cut short, possibly within a line.
CutShort(t) ==
  /\ status[t] = "flushing"
  /\ handle' = [handle EXCEPT ![t] = "closed"]
  /\ UNCHANGED sequential
  /\ \/ UNCHANGED <<file, torn>>
     \/ written[t] < appended[t] /\ Put(t, FALSE)

\* Fault: _flushed is moved although the flush raised.
FlushRaises_marked(t) ==
  /\ CutShort(t)
  /\ status' = [status EXCEPT ![t] = "raised"]
  /\ flushed' = [flushed EXCEPT ![t] = appended[t]]
  /\ UNCHANGED <<appended, written>>

\* OSError leaves flush(): _flushed stays.
FlushRaises(t) ==
  /\ CutShort(t)
  /\ status' = [status EXCEPT ![t] = "raised"]
  /\ UNCHANGED <<appended, flushed, written>>

\* The process ends, in a flush or not.
Exit(t) ==
  /\ status' = [status EXCEPT ![t] = "dead"]
  /\ \/ CutShort(t)
     \/ status[t] \in {"live", "raised"} /\ UNCHANGED <<handle, file, torn, sequential>>
  /\ UNCHANGED <<appended, flushed, written>>

Next == \E t \in Trails :
  \/ Construct(t) \/ AppendRecord(t)
  \/ BeginFlush(t) \/ WriteLine(t) \/ EndFlush(t) \/ FlushRaises(t)
  \/ Exit(t)

Spec == Init /\ [][Next]_vars
=============================================================================
