--------------------------- MODULE AuditTrailProps ---------------------------
(***************************************************************************)
(* What load() finds in the file: the records of a run, in order, once.     *)
(***************************************************************************)
EXTENDS AuditTrail

\* Every variable has the type of the Python value it stands for, and no more
\* is flushed than written, nor written than appended.
TypeOK ==
  /\ status \in [Trails -> Statuses]
  /\ appended \in [Trails -> Nat]
  /\ flushed \in [Trails -> Nat]
  /\ written \in [Trails -> Nat]
  /\ handle \in [Trails -> {"closed", "path", "unlinked"}]
  /\ file \in Seq(Lines)
  /\ torn \in BOOLEAN
  /\ sequential \in BOOLEAN
  /\ \A t \in Trails : flushed[t] <= written[t] /\ written[t] <= appended[t]

\* The records of one run stand in the file in the order they were appended and
\* none stands there twice, whatever other runs write, truncate or leave behind
\* (flush: re-flushing never duplicates).
InOrderOnce ==
  \A i, j \in 1..Len(file) :
    i < j /\ file[i].trail = file[j].trail /\ file[i].whole /\ file[j].whole
      => file[i].seq < file[j].seq

\* Records torn or not: what is in the file was given to it.
WrittenBefore == \A i \in 1..Len(file) : file[i].seq < written[file[i].trail] \/ ~file[i].whole

\* The inductive part for InOrderOnce and for callers that do not flush again
\* after an exception; the kernel does not.
OrderInv == TypeOK /\ InOrderOnce /\ WrittenBefore
              /\ \A t \in Trails : status[t] \in {"none", "live"} => written[t] = flushed[t]

\* Line i of the file is record n of trail t and nothing else.
IsRecord(i, t, n) == file[i].trail = t /\ file[i].seq = n /\ file[i].whole

\* What flush() reported as persisted is in the file, all of it and as whole
\* lines, and is not lost to an error of a later flush, as long as runs follow
\* each other and each starts with a new file.
FlushedOnDisk ==
  sequential =>
    \A t \in Trails : status[t] \in {"live", "flushing", "raised"} =>
      \A n \in 0..(flushed[t] - 1) :
        \E i \in 1..Len(file) : IsRecord(i, t, n)

\* In the same circumstances the file of a run whose flushes all returned is the
\* trail of that run and of nothing else, although runs before it may have died
\* in the middle of a line.
FinishedTrailReadable ==
  sequential =>
    \A t \in Trails : status[t] = "live" =>
      /\ \A i \in 1..Len(file) : file[i].whole
      /\ Len(file) = flushed[t]
      /\ ~torn

\* The inductive part for both, again without reflushing: while runs follow
\* each other there is one at a time, and the file begins with the lines of its
\* finished flushes; until one of them raises it has no others.
Active == {"live", "flushing", "raised"}
StartsWith(t, n) == n <= Len(file) /\ \A i \in 1..n : IsRecord(i, t, i - 1)
FileInv ==
  /\ \A t \in Trails : status[t] = "none" => appended[t] = 0
  /\ sequential =>
       /\ \A t, u \in Trails : status[t] \in Active /\ status[u] \in Active => t = u
       /\ \A t \in Trails : status[t] \in Active => StartsWith(t, flushed[t])
       /\ \A t \in Trails : status[t] \in {"live", "flushing"} =>
            ~torn /\ Len(file) = written[t] /\ StartsWith(t, written[t])
       /\ \A t \in Trails : status[t] = "flushing" => handle[t] = "path"

TrailInv == OrderInv /\ FileInv
=============================================================================
