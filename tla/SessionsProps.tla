---------------------------- MODULE SessionsProps ----------------------------
(* What the files that commands share say of the runs that wrote them.       *)
EXTENDS Sessions

RunIds == 0..Len(runs)

RunRecords == [src : 0..(MaxEdits + 1), level : Levels, outcome : Outcomes]
ResultRecords == [level : Levels, blocking : Nat, passed : BOOLEAN]
CommandRecords == [name : {"none", "translate", "bench"}, todo : Seq(Cases),
                   text : Qualities \cup {"absent", "empty"}]
OutputRecords == [run : RunIds, src : 0..(MaxEdits + 1),
                  text : Qualities \cup {"absent", "partial", "empty"}]

\* The types of the variables; a suite at work has a case left.
TypeOK ==
    /\ source \in 1..(MaxEdits + 1)
    /\ runs \in Seq(RunRecords)
    /\ trace \in RunIds
    /\ artifacts \in [log : RunIds, forensic : RunIds]
    /\ output \in OutputRecords
    /\ pc \in {"idle", "running", "export", "forensics", "deliver", "write"}
    /\ pc # "idle" => Len(runs) > 0
    /\ command \in CommandRecords
    /\ pc # "idle" /\ command.name = "bench" => command.todo # <<>>
    /\ results \in Seq(ResultRecords)

\* A translation that has just succeeded left one set of files: trace, output,
\* execution log and, at L4, forensic files are all of that run.  Only a
\* source that could not be analysed at a lenient level leaves older artifacts
\* beside its empty output (translate, _export_artifacts, _export_forensics).
PublishedTogether ==
    pc = "idle" /\ last = [name |-> "translate", exit |-> 0] =>
        /\ trace = This
        /\ output.run = This => output.src = runs[This].src
        /\ runs[This].outcome = "emitted" => artifacts.log = This
        /\ runs[This].outcome = "emitted" /\ Level = "L4_FORENSIC"
             => artifacts.forensic = This

\* The output file never holds a text that the gate of its run refused: at a
\* strict level it is a clean text of a run that emitted it, or what a killed
\* write left of it.
OnlyAcceptedPublished ==
    output.run # 0 =>
        /\ runs[output.run].outcome \in {"emitted", "unanalysed"}
        /\ runs[output.run].level \in Strict => output.text \in {"clean", "partial"}

\* When a report pairs a trace with the log of another run, the log is the
\* older one and the run of the trace ended before its export: it was
\* rejected or not analysed, or it raised or was killed in between.
MixedReportExplained ==
    report.trace # report.log =>
        /\ report.log < report.trace
        /\ runs[report.trace].outcome \in {"unanalysed", "rejected", "raised", "killed"}

\* The trace is of the youngest run whose process did not die or raise first,
\* so a report never speaks of an older run as if it were the last.
TraceIsLatest ==
    trace # 0 => trace = Len(runs)

\* A case at a strict level never reports a BLOCKING issue of its own: the
\* kernel would have raised first and taken the suite with it.  Every case
\* with such issues is counted as a failure, however many it has, and a
\* summary without failures has no such issue (run_case, summarize).
BenchBlockingOnlyLenient ==
    /\ \A k \in DOMAIN results : results[k].blocking > 0 => results[k].level \notin Strict
    /\ Cardinality({k \in DOMAIN results : results[k].blocking > 0}) <= Summary.failed
    /\ Summary.failed = 0 => Summary.blocking = 0

\* "Prefer the actual run path from execution_log.json": the diagram is the
\* path of the run whose trace is summarised.
ReportPairsRuns ==
    report.log # 0 => report.log = report.trace

\* A human-edited output "is judged by the identical standard as a pipeline
\* run": what passes tra validate at a strict level would pass the gate.
SameStandard ==
    verdict.passed /\ verdict.level \in Strict /\ verdict.of.src = verdict.src
        => verdict.of.text # "broken"
=============================================================================
