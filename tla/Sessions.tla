------------------------------ MODULE Sessions ------------------------------
(* Commands of the command line (tra_cli.py), one after the other, over the  *)
(* files they share: the source, the audit trace, the compilation artifacts  *)
(* and the translated output; validate_translation (validate.py), the report *)
(* of tra audit (reporting.py) and the benchmark suite (benchmark.py).       *)
(* A translation is the pipeline of TRAKernel seen from its files: it        *)
(* removes the trace, may end in several ways, and then writes the trace,    *)
(* the artifacts and the output, in that order; it may be killed between.    *)
EXTENDS CommandLine, Sequences, FiniteSets

CONSTANTS
    Configs,    \* the configuration files
    Overrides,  \* the values of --level; spelt "none" when it is not given
    Pairs,      \* the values of --lang
    Suites,     \* the benchmark suites, as sequences of cases
    MaxRuns,    \* bound on the number of kernels constructed
    MaxEdits,   \* bound on the edits of the source
    MaxIssues   \* bound on the BLOCKING issues of one text

Levels == {"L1_BASIC", "L2_PROFESSIONAL", "L3_STRICT", "L4_FORENSIC"}
Strict == {"L3_STRICT", "L4_FORENSIC"}

Cases == [level : Levels, zero_blocking : BOOLEAN, readable : BOOLEAN]

\* The enumeration of the levels lets no other value through.
ASSUME SessionsAssumption ==
    /\ MaxRuns \in Nat /\ MaxEdits \in Nat /\ MaxIssues \in Nat \ {0}
    /\ \A c \in Configs, o \in Overrides :
         ConfigLoads(c) => EffectiveLevel(c, o) \in Levels \cup {BadLevel}
    /\ Suites \subseteq Seq(Cases)

\* What a text is for its source: without a BLOCKING issue, with some, or with
\* a broken link, which only the gate of the kernel looks at.
Qualities == {"clean", "blocking", "broken"}

\* How a run ended: not analysed, rejected by the gate, an exception nobody
\* caught, killed, or emitted.
Outcomes == {"running", "unanalysed", "rejected", "raised", "killed", "emitted"}

VARIABLES
    source,     \* version of the source file
    unreadable, \* the versions analyze_document refuses
    runs,       \* per kernel constructed: source version, level, outcome
    trace,      \* the run whose records the trace holds, 0 when there is none
    artifacts,  \* the run of execution_log.json and that of the L4 files
    output,     \* the output file: run, source version, quality of the text
    pc,         \* what the command at work does next; "idle" between commands
    command,    \* "translate" or "bench", and what it works on
    results,    \* of the benchmark suite: one entry per finished case
    last,       \* the command that has just ended: its name and exit status,
                \* where 1 stands for any but 0
    report,     \* what tra audit --report has just shown
    verdict     \* what tra validate has just said, and of what

files == <<trace, artifacts, output>>
shown == <<results, last, report, verdict>>
vars == <<source, unreadable, runs, files, pc, command, shown>>

NoOutput == [run |-> 0, src |-> 0, text |-> "absent"]
NoReport == [trace |-> 0, log |-> 0]
NoVerdict == [passed |-> FALSE, level |-> BadLevel, src |-> 0, of |-> NoOutput]
NoCommand == [name |-> "none", todo |-> <<>>, text |-> "absent"]
NoLast == [name |-> "none", exit |-> 0]

Init ==
    /\ source = 1 /\ runs = <<>>
    /\ unreadable \in SUBSET (1..(MaxEdits + 1))
    /\ trace = 0
    /\ artifacts = [log |-> 0, forensic |-> 0]
    /\ output = NoOutput
    /\ pc = "idle" /\ command = NoCommand /\ results = <<>>
    /\ last = NoLast /\ report = NoReport /\ verdict = NoVerdict

This == Len(runs)
Level == runs[This].level
End(name, code) == pc' = "idle" /\ last' = [name |-> name, exit |-> code]

\* What a command showed is on the screen until the next command.
ClearedBut(r, v) == results' = <<>> /\ report' = r /\ verdict' = v
Cleared == ClearedBut(NoReport, NoVerdict)
Ends(outcome) == runs' = [runs EXCEPT ![This].outcome = outcome]

\* A kernel is constructed: the trace of the run before is gone at once.
Construct(level, src) ==
    /\ Len(runs) < MaxRuns
    /\ runs' = Append(runs, [src |-> src, level |-> level, outcome |-> "running"])
    /\ trace' = 0
    /\ pc' = "running"

-----------------------------------------------------------------------------
(* tra translate                                                             *)

\* A bad configuration, pair or level ends the command before any file is
\* touched.
TranslateRefused(c, v, override) ==
    /\ pc = "idle"
    /\ \/ ~ConfigLoads(c)
       \/ PairRefused(v)
       \/ EffectiveLevel(c, override) = BadLevel
    /\ End("translate", 1) /\ Cleared
    /\ UNCHANGED <<source, unreadable, runs, files, command>>

Translate(c, v, override) ==
    /\ pc = "idle"
    /\ ConfigLoads(c)
    /\ ~PairRefused(v)
    /\ EffectiveLevel(c, override) # BadLevel
    /\ Construct(EffectiveLevel(c, override), source)
    /\ command' = [name |-> "translate", todo |-> <<>>, text |-> "absent"]
    /\ last' = NoLast /\ Cleared
    /\ UNCHANGED <<source, unreadable, artifacts, output>>

\* The failure of a run seen by its caller: tra translate exits with 1, and a
\* benchmark suite is abandoned with the results it had.
Fails == End(command.name, 1) /\ command' = NoCommand /\ Cleared

\* A case of a suite has a source of its own.
Readable ==
    IF command.name = "bench" THEN Head(command.todo).readable
    ELSE runs[This].src \notin unreadable

\* ANALYZE_DOCUMENT fails.  The trace is flushed with its exception record;
\* a strict level rejects, a lenient one returns the empty text and leaves the
\* artifacts alone.
RunUnanalysed ==
    /\ pc = "running" /\ ~Readable
    /\ trace' = This
    /\ IF Level \in Strict
       THEN Ends("rejected") /\ Fails
       ELSE /\ Ends("unanalysed")
            /\ pc' = "deliver"
            /\ command' = [command EXCEPT !.text = "empty"]
            /\ UNCHANGED shown
    /\ UNCHANGED <<source, unreadable, artifacts, output>>

\* An exception that no handler takes, from an instruction, a flush, an export
\* or the writing of the output.  Only a flush that fails half way leaves some
\* records of its run in the trace.
RunRaises ==
    /\ pc # "idle"
    /\ Ends(IF runs[This].outcome = "running" THEN "raised" ELSE runs[This].outcome)
    /\ trace' \in (IF pc = "running" THEN {trace, This} ELSE {trace})
    /\ Fails
    /\ UNCHANGED <<source, unreadable, artifacts, output>>

\* The gate of the strict levels: BLOCKING issues or broken links.
GateRefuses_blocking_only(q) == Level \in Strict /\ q = "blocking"
GateRefuses_links_only(q) == Level \in Strict /\ q = "broken"
GateRefuses(q) == Level \in Strict /\ q # "clean"

RunRejected ==
    /\ pc = "running" /\ Readable
    /\ \E q \in Qualities :
         GateRefuses(q)
    /\ trace' = This
    /\ Ends("rejected")
    /\ Fails
    /\ UNCHANGED <<source, unreadable, artifacts, output>>

\* The text passes, or no gate looks at it, and the trace is flushed.
RunAccepted ==
    /\ pc = "running" /\ Readable
    /\ \E q \in Qualities :
         /\ ~GateRefuses(q)
         /\ command' = [command EXCEPT !.text = q]
    /\ trace' = This
    /\ pc' = "export"
    /\ UNCHANGED <<source, unreadable, runs, artifacts, output, shown>>

ExportArtifacts_strict_only ==
    /\ pc = "export"
    /\ artifacts' = IF Level \in Strict THEN [artifacts EXCEPT !.log = This] ELSE artifacts
    /\ IF Level = "L4_FORENSIC"
       THEN pc' = "forensics" /\ UNCHANGED runs
       ELSE pc' = "deliver" /\ Ends("emitted")
    /\ UNCHANGED <<source, unreadable, trace, output, command, shown>>
\* _export_artifacts, and at L4 then _export_forensics; at other levels the
\* forensic files of an earlier run stay.
ExportArtifacts ==
    /\ pc = "export"
    /\ artifacts' = [artifacts EXCEPT !.log = This]
    /\ IF Level = "L4_FORENSIC"
       THEN pc' = "forensics" /\ UNCHANGED runs
       ELSE pc' = "deliver" /\ Ends("emitted")
    /\ UNCHANGED <<source, unreadable, trace, output, command, shown>>

ExportForensics ==
    /\ pc = "forensics"
    /\ artifacts' = [artifacts EXCEPT !.forensic = This]
    /\ pc' = "deliver"
    /\ Ends("emitted")
    /\ UNCHANGED <<source, unreadable, trace, output, command, shown>>

\* write_text empties the file before it writes it.
Deliver ==
    /\ pc = "deliver" /\ command.name = "translate"
    /\ output' = [run |-> This, src |-> runs[This].src, text |-> "partial"]
    /\ pc' = "write"
    /\ UNCHANGED <<source, unreadable, runs, trace, artifacts, command, shown>>

WriteOutput ==
    /\ pc = "write"
    /\ output' = [output EXCEPT !.text = command.text]
    /\ End("translate", 0) /\ Cleared
    /\ command' = NoCommand
    /\ UNCHANGED <<source, unreadable, runs, trace, artifacts>>

\* The process dies; nothing of the command runs any more.
Killed ==
    /\ pc # "idle"
    /\ Ends(IF runs[This].outcome = "running" THEN "killed" ELSE runs[This].outcome)
    /\ End("killed", 1) /\ command' = NoCommand /\ Cleared
    /\ UNCHANGED <<source, unreadable, files>>

-----------------------------------------------------------------------------
(* The benchmark suite: BenchmarkRunner.run_all, with the configuration of   *)
(* the user, so also with his trace and artifacts.                           *)

RunAll(suite) ==
    /\ pc = "idle" /\ suite # <<>>
    /\ Construct(Head(suite).level, 0)
    /\ command' = [name |-> "bench", todo |-> suite, text |-> "absent"]
    /\ last' = NoLast /\ Cleared
    /\ UNCHANGED <<source, unreadable, artifacts, output>>

\* The second half of run_case: the substring checks may fail or not; the
\* verification, if the case asks for it, counts the BLOCKING issues.
Issues(case, text) ==
    IF case.zero_blocking /\ text = "blocking" THEN 1..MaxIssues ELSE {0}
CaseResult(case, n, substringsOk) ==
    [level |-> case.level, blocking |-> n, passed |-> substringsOk /\ n = 0]

CheckCase ==
    /\ pc = "deliver" /\ command.name = "bench"
    /\ Readable \/ ~Head(command.todo).zero_blocking
    /\ \E substringsOk \in BOOLEAN, n \in Issues(Head(command.todo), command.text) :
         results' = Append(results, CaseResult(Head(command.todo), n, substringsOk))
    /\ UNCHANGED <<report, verdict>>
    /\ IF Tail(command.todo) = <<>>
       THEN /\ End("bench", 0) /\ command' = NoCommand
            /\ UNCHANGED <<runs, trace>>
       ELSE /\ Construct(Head(Tail(command.todo)).level, 0)
            /\ command' = [command EXCEPT !.todo = Tail(@), !.text = "absent"]
            /\ UNCHANGED last
    /\ UNCHANGED <<source, unreadable, artifacts, output>>

\* The verification analyses the source again, and nobody takes what it raises.
CaseUnanalysed ==
    /\ pc = "deliver" /\ command.name = "bench"
    /\ ~Readable /\ Head(command.todo).zero_blocking
    /\ Fails
    /\ UNCHANGED <<source, unreadable, runs, files>>

\* summarize: cases that passed and failed, BLOCKING issues of all cases.
BlockingIssues == UNION {{k} \X (1..results[k].blocking) : k \in DOMAIN results}
Summary ==
    [total |-> Len(results),
     passed |-> Cardinality({k \in DOMAIN results : results[k].passed}),
     failed |-> Len(results) - Cardinality({k \in DOMAIN results : results[k].passed}),
     blocking |-> Cardinality(BlockingIssues)]

-----------------------------------------------------------------------------
(* tra audit --report, tra validate, and the user                            *)

\* The verdict comes from the trace, the diagram from the log in
\* compilation_dir, whichever run wrote it.  Without a trace the argument is
\* refused.
Audit ==
    /\ pc = "idle" /\ trace # 0
    /\ ClearedBut([trace |-> trace, log |-> artifacts.log], NoVerdict)
    /\ End("audit", 0)
    /\ UNCHANGED <<source, unreadable, runs, files, command>>

\* verify_output on the output as it is, against the source as it is.  It is
\* one function of the two texts and the gate of the kernel called it too: for
\* the text of a run and the source of that run the answer is known, for any
\* other pair it may be either.  The level is shown and decides nothing.  The
\* records of the validation are never flushed: the trace stays.
Passes(o) ==
    IF o.src = source /\ o.text \in Qualities THEN {o.text # "blocking"} ELSE BOOLEAN

ValidateRefused(c, override) ==
    ~ConfigLoads(c) \/ EffectiveLevel(c, override) = BadLevel \/ source \in unreadable
Validate(c, override) ==
    /\ pc = "idle" /\ output.text # "absent"
    /\ \/ /\ ~ValidateRefused(c, override)
          /\ \E passed \in Passes(output) :
               /\ ClearedBut(NoReport, [passed |-> passed, level |-> EffectiveLevel(c, override),
                                        src |-> source, of |-> output])
               /\ End("validate", IF passed THEN 0 ELSE 1)
       \/ ValidateRefused(c, override) /\ End("validate", 1) /\ Cleared
    /\ UNCHANGED <<source, unreadable, runs, files, command>>

EditSource ==
    /\ pc = "idle" /\ source <= MaxEdits
    /\ source' = source + 1
    /\ last' = NoLast /\ Cleared
    /\ UNCHANGED <<unreadable, runs, files, pc, command>>

\* A hand-written candidate for the present source.
EditOutput ==
    /\ pc = "idle"
    /\ \E q \in Qualities : output' = [run |-> 0, src |-> source, text |-> q]
    /\ last' = NoLast /\ Cleared
    /\ UNCHANGED <<source, unreadable, runs, trace, artifacts, pc, command>>

-----------------------------------------------------------------------------

Pipeline ==
    \/ RunUnanalysed \/ RunRaises \/ RunRejected \/ RunAccepted
    \/ ExportArtifacts \/ ExportForensics \/ Deliver \/ WriteOutput

Next ==
    \/ \E c \in Configs, v \in Pairs, o \in Overrides :
         TranslateRefused(c, v, o) \/ Translate(c, v, o) \/ Validate(c, o)
    \/ \E suite \in Suites : RunAll(suite)
    \/ Pipeline \/ CheckCase \/ CaseUnanalysed \/ Killed
    \/ Audit \/ EditSource \/ EditOutput

Spec == Init /\ [][Next]_vars
=============================================================================
