---------------------------- MODULE SessionsProofs ----------------------------
(* Theorems about Sessions for all configurations, suites and numbers of     *)
(* commands.                                                                 *)
EXTENDS SessionsProps, SequenceTheorems, FiniteSetTheorems, TLAPS

\* How the run at work stands: it has no end before its text is accepted, and
\* a case of a suite runs at the level of the case.
RunInv ==
    /\ pc \in {"running", "export", "forensics"} =>
         runs[This].outcome = "running" /\ output.run # This
    /\ pc \in {"deliver", "write"} => runs[This].outcome \in {"emitted", "unanalysed"}
    /\ pc # "idle" /\ command.name = "bench" => Level = Head(command.todo).level

\* The files it has written so far, and what an ended one left.
FilesInv ==
    /\ TraceIsLatest
    /\ pc = "running" => trace = 0
    /\ pc \in {"export", "forensics", "deliver", "write"} => trace = This
    /\ pc = "forensics" => artifacts.log = This
    /\ pc \in {"deliver", "write"} /\ runs[This].outcome = "emitted" =>
         /\ artifacts.log = This
         /\ Level = "L4_FORENSIC" => artifacts.forensic = This
    /\ pc = "write" => output.run = This /\ output.src = runs[This].src
    /\ pc = "idle" /\ trace # 0 /\ artifacts.log # trace =>
         runs[trace].outcome \in {"unanalysed", "rejected", "raised", "killed"}

\* The text at a strict level is clean from the gate on.
TextInv ==
    /\ pc \in {"export", "forensics", "deliver", "write"} /\ Level \in Strict =>
         command.text = "clean"
    /\ OnlyAcceptedPublished

\* What is on the screen is about the files as they are.
ShownInv ==
    /\ pc # "idle" => report = NoReport /\ verdict = NoVerdict
    /\ PublishedTogether
    /\ MixedReportExplained

ResultsInv ==
    \A k \in 1..Len(results) :
        /\ results[k].blocking > 0 => results[k].level \notin Strict
        /\ results[k].passed => results[k].blocking = 0

SessionsInv == TypeOK /\ RunInv /\ FilesInv /\ TextInv /\ ShownInv /\ ResultsInv
-----------------------------------------------------------------------------
(* What a step does to the runs.                                             *)

\* The end of a run changes nothing else of it, and no other run.
LEMMA EndsFacts ==
  ASSUME runs \in Seq(RunRecords), Len(runs) > 0, NEW o \in Outcomes, Ends(o)
  PROVE  /\ runs' \in Seq(RunRecords)
         /\ Len(runs') = Len(runs)
         /\ \A i \in 1..Len(runs) :
               /\ runs'[i].src = runs[i].src
               /\ runs'[i].level = runs[i].level
               /\ i # Len(runs) => runs'[i].outcome = runs[i].outcome
         /\ runs'[Len(runs)].outcome = o
<1>1. Len(runs) \in 1..Len(runs) /\ Len(runs) \in Nat
  OBVIOUS
<1>2. runs[Len(runs)] \in RunRecords
  BY <1>1
<1> DEFINE ended == [runs[Len(runs)] EXCEPT !.outcome = o]
<1>3. /\ ended \in RunRecords
      /\ ended.src = runs[Len(runs)].src
      /\ ended.level = runs[Len(runs)].level
      /\ ended.outcome = o
  BY <1>2 DEF RunRecords
<1>4. runs' = [runs EXCEPT ![Len(runs)] = ended]
  BY DEF Ends, This
<1> HIDE DEF ended
<1>5. /\ runs' \in Seq(RunRecords)
      /\ Len(runs') = Len(runs)
      /\ \A i \in 1..Len(runs) : runs'[i] = IF i = Len(runs) THEN ended ELSE runs[i]
  BY <1>1, <1>3, <1>4
<1>6. QED
  BY <1>1, <1>3, <1>5

\* A new run is the last; the others stay.
LEMMA ConstructFacts ==
  ASSUME runs \in Seq(RunRecords), NEW level \in Levels, NEW src \in 0..(MaxEdits + 1),
         Construct(level, src)
  PROVE  /\ runs' \in Seq(RunRecords)
         /\ Len(runs') = Len(runs) + 1
         /\ \A i \in 1..Len(runs) : runs'[i] = runs[i]
         /\ runs'[Len(runs')] = [src |-> src, level |-> level, outcome |-> "running"]
<1>1. [src |-> src, level |-> level, outcome |-> "running"] \in RunRecords
  BY DEF RunRecords, Outcomes
<1>2. QED
  BY <1>1 DEF Construct

-----------------------------------------------------------------------------
(* Type correctness.                                                         *)

LEMMA NoCommandTypes == NoCommand \in CommandRecords /\ NoCommand.name # "bench"
BY DEF NoCommand, CommandRecords

LEMMA InitTypes == Init => TypeOK
BY SessionsAssumption, NoCommandTypes DEF Init, TypeOK, RunIds, NoOutput, OutputRecords

\* The runs stay as they are or get an end: the run numbers in use stay good.
LEMMA EndsTypes ==
  ASSUME TypeOK, pc # "idle", NEW o \in Outcomes, Ends(o)
  PROVE  runs' \in Seq(RunRecords) /\ Len(runs') = Len(runs)
BY EndsFacts DEF TypeOK

LEMMA SuiteHasCase ==
  ASSUME NEW todo \in Seq(Cases), todo # <<>>
  PROVE  Head(todo) \in Cases /\ Tail(todo) \in Seq(Cases) /\ Head(todo).level \in Levels
<1>1. Head(todo) \in Cases /\ Tail(todo) \in Seq(Cases)
  OBVIOUS
<1>2. QED
  BY <1>1 DEF Cases

\* The command record: its text changes, its suite gets shorter.
LEMMA CommandTypes ==
  ASSUME command \in CommandRecords
  PROVE  /\ \A text \in Qualities \cup {"absent", "empty"} :
              /\ [command EXCEPT !.text = text] \in CommandRecords
              /\ [command EXCEPT !.text = text].name = command.name
              /\ [command EXCEPT !.text = text].todo = command.todo
         /\ command.todo \in Seq(Cases)
         /\ command.text \in Qualities \cup {"absent", "empty"}
         /\ \A todo \in Seq(Cases) :
              /\ [command EXCEPT !.todo = todo, !.text = "absent"] \in CommandRecords
              /\ [command EXCEPT !.todo = todo, !.text = "absent"].name = command.name
              /\ [command EXCEPT !.todo = todo, !.text = "absent"].todo = todo
BY DEF CommandRecords

\* Older runs may own files, so may the run at work.
LEMMA OutputTypes ==
  ASSUME TypeOK, RunIds \subseteq RunIds'
  PROVE  output \in OutputRecords' /\ artifacts \in [log : RunIds', forensic : RunIds']
BY DEF TypeOK, OutputRecords

LEMMA TypeStep == TypeOK /\ [Next]_vars => TypeOK'
<1> SUFFICES ASSUME TypeOK, [Next]_vars PROVE TypeOK'
  OBVIOUS
<1> USE SessionsAssumption
<1>n. Len(runs) \in Nat /\ runs \in Seq(RunRecords)
  BY DEF TypeOK
<1>c. NoCommand \in CommandRecords /\ NoCommand.name # "bench"
  BY NoCommandTypes
<1>1. CASE \E c \in Configs, v \in Pairs, o \in Overrides : TranslateRefused(c, v, o)
  BY <1>1 DEF TypeOK, RunIds, OutputRecords, TranslateRefused, End, Cleared, ClearedBut, files
<1>2. ASSUME NEW c \in Configs, NEW v \in Pairs, NEW o \in Overrides, Translate(c, v, o)
      PROVE  TypeOK'
  <2>1. EffectiveLevel(c, o) \in Levels
    BY <1>2 DEF Translate
  <2>2. source \in 0..(MaxEdits + 1)
    BY DEF TypeOK
  <2>3. runs' \in Seq(RunRecords) /\ Len(runs') = Len(runs) + 1
    BY <1>n, <1>c, <1>2, <2>1, <2>2, ConstructFacts DEF Translate
  <2>4. command' \in CommandRecords /\ command'.name = "translate"
    BY <1>2 DEF Translate, CommandRecords
  <2>5. output \in OutputRecords' /\ artifacts \in [log : RunIds', forensic : RunIds']
    BY <1>n, <2>3, OutputTypes DEF RunIds
  <2>6. QED
    BY <1>n, <1>2, <2>3, <2>4, <2>5 DEF Translate, Construct, TypeOK, RunIds, Cleared, ClearedBut
<1>3. ASSUME NEW suite \in Suites, RunAll(suite)
      PROVE  TypeOK'
  <2>1. suite \in Seq(Cases) /\ Head(suite).level \in Levels
    BY <1>3, SuiteHasCase DEF RunAll
  <2>2. 0 \in 0..(MaxEdits + 1)
    OBVIOUS
  <2>3. runs' \in Seq(RunRecords) /\ Len(runs') = Len(runs) + 1
    BY <1>n, <1>c, <1>3, <2>1, <2>2, ConstructFacts DEF RunAll
  <2>4. command' \in CommandRecords /\ command'.todo # <<>>
    BY <1>3, <2>1 DEF RunAll, CommandRecords
  <2>5. output \in OutputRecords' /\ artifacts \in [log : RunIds', forensic : RunIds']
    BY <1>n, <2>3, OutputTypes DEF RunIds
  <2>6. QED
    BY <1>n, <1>3, <2>3, <2>4, <2>5 DEF RunAll, Construct, TypeOK, RunIds, Cleared, ClearedBut
<1>4. ASSUME RunUnanalysed PROVE TypeOK'
  <2>1. runs' \in Seq(RunRecords) /\ Len(runs') = Len(runs)
    BY <1>4, EndsTypes DEF RunUnanalysed, Outcomes
  <2>2. CASE Level \in Strict
    BY <1>n, <1>c, <1>4, <2>1, <2>2 DEF RunUnanalysed, Fails, End, This, TypeOK, RunIds, OutputRecords, Cleared, ClearedBut
  <2>3. CASE Level \notin Strict
    <3>1. command \in CommandRecords
      BY DEF TypeOK
    <3>2. /\ command' \in CommandRecords
          /\ command'.name = command.name /\ command'.todo = command.todo
      <4>1. command' = [command EXCEPT !.text = "empty"]
        BY <1>4, <2>3 DEF RunUnanalysed
      <4>2. QED
        BY <3>1, <4>1, CommandTypes
    <3>3. QED
      BY <1>n, <1>4, <2>1, <2>3, <3>2 DEF RunUnanalysed, This, TypeOK, RunIds,
         OutputRecords, shown
  <2>4. QED
    BY <2>2, <2>3
<1>5. ASSUME RunRaises PROVE TypeOK'
  <2>1. runs[Len(runs)] \in RunRecords
    BY <1>5 DEF RunRaises, TypeOK
  <2>2. (IF runs[This].outcome = "running" THEN "raised" ELSE runs[This].outcome) \in Outcomes
    BY <2>1 DEF RunRecords, This, Outcomes
  <2>3. runs' \in Seq(RunRecords) /\ Len(runs') = Len(runs)
    BY <1>5, <2>2, EndsTypes DEF RunRaises
  <2>4. QED
    BY <1>n, <1>c, <1>5, <2>3 DEF RunRaises, Fails, End, This, TypeOK, RunIds, OutputRecords,
       Cleared, ClearedBut
<1>6. ASSUME RunRejected PROVE TypeOK'
  <2>1. runs' \in Seq(RunRecords) /\ Len(runs') = Len(runs)
    BY <1>6, EndsTypes DEF RunRejected, Outcomes
  <2>2. QED
    BY <1>n, <1>c, <1>6, <2>1 DEF RunRejected, Fails, End, This, TypeOK, RunIds, OutputRecords,
       Cleared, ClearedBut
<1>7. ASSUME RunAccepted PROVE TypeOK'
  <2>1. command \in CommandRecords
    BY DEF TypeOK
  <2>2. /\ command' \in CommandRecords
        /\ command'.name = command.name /\ command'.todo = command.todo
    BY <1>7, <2>1, CommandTypes DEF RunAccepted
  <2>3. QED
    BY <1>n, <1>7, <2>2 DEF RunAccepted, This, TypeOK, RunIds, OutputRecords, shown
<1>8. ASSUME ExportArtifacts PROVE TypeOK'
  <2>1. runs' \in Seq(RunRecords) /\ Len(runs') = Len(runs)
    BY <1>n, <1>c, <1>8, EndsTypes DEF ExportArtifacts, Outcomes
  <2>2. QED
    BY <1>n, <1>c, <1>8, <2>1 DEF ExportArtifacts, This, TypeOK, RunIds, OutputRecords, shown
<1>9. ASSUME ExportForensics PROVE TypeOK'
  <2>1. runs' \in Seq(RunRecords) /\ Len(runs') = Len(runs)
    BY <1>9, EndsTypes DEF ExportForensics, Outcomes
  <2>2. QED
    BY <1>n, <1>c, <1>9, <2>1 DEF ExportForensics, This, TypeOK, RunIds, OutputRecords, shown
<1>10. ASSUME Deliver PROVE TypeOK'
  <2>1. runs[Len(runs)] \in RunRecords
    BY <1>10 DEF Deliver, TypeOK
  <2>2. runs[Len(runs)].src \in 0..(MaxEdits + 1)
    BY <2>1 DEF RunRecords
  <2>3. QED
    BY <1>n, <1>c, <1>10, <2>2 DEF Deliver, This, TypeOK, RunIds, OutputRecords, shown
<1>11. ASSUME WriteOutput PROVE TypeOK'
  <2>1. command.text \in Qualities \cup {"absent", "empty"}
    BY CommandTypes DEF TypeOK
  <2>2. output' \in OutputRecords
    BY <1>11, <2>1 DEF WriteOutput, TypeOK, OutputRecords
  <2>3. QED
    BY <1>n, <1>c, <1>11, <2>2 DEF WriteOutput, End, TypeOK, RunIds, OutputRecords,
       Cleared, ClearedBut
<1>12. ASSUME CheckCase PROVE TypeOK'
  <2>1. /\ command.todo \in Seq(Cases) /\ command.todo # <<>>
        /\ command.text \in Qualities \cup {"absent", "empty"}
    BY <1>12, CommandTypes DEF CheckCase, TypeOK
  <2>2. /\ Head(command.todo) \in Cases /\ Tail(command.todo) \in Seq(Cases)
    BY <2>1, SuiteHasCase
  <2>3. \A ok \in BOOLEAN, n \in Issues(Head(command.todo), command.text) :
          CaseResult(Head(command.todo), n, ok) \in ResultRecords
    <3>1. Issues(Head(command.todo), command.text) \subseteq Nat
      BY DEF Issues
    <3>2. Head(command.todo).level \in Levels
      BY <2>2 DEF Cases
    <3>3. QED
      BY <3>1, <3>2 DEF CaseResult, ResultRecords
  <2>4. results' \in Seq(ResultRecords)
    BY <1>12, <2>3 DEF CheckCase, TypeOK
  <2>5. CASE Tail(command.todo) = <<>>
    BY <1>n, <1>c, <1>12, <2>4, <2>5 DEF CheckCase, End, TypeOK, RunIds, OutputRecords
  <2>6. CASE Tail(command.todo) # <<>>
    <3>1. Head(Tail(command.todo)).level \in Levels
      BY <2>2, <2>6, SuiteHasCase
    <3>2. 0 \in 0..(MaxEdits + 1)
      OBVIOUS
    <3>3. runs' \in Seq(RunRecords) /\ Len(runs') = Len(runs) + 1
      BY <1>n, <1>c, <1>12, <2>6, <3>1, <3>2, ConstructFacts DEF CheckCase
    <3>4. command' \in CommandRecords /\ command'.todo # <<>>
      <4>1. command' = [command EXCEPT !.todo = Tail(command.todo), !.text = "absent"]
        BY <1>12, <2>6 DEF CheckCase
      <4>2. command \in CommandRecords
        BY DEF TypeOK
      <4>3. QED
        BY <2>2, <2>6, <4>1, <4>2, CommandTypes
    <3>5. output \in OutputRecords' /\ artifacts \in [log : RunIds', forensic : RunIds']
      BY <1>n, <3>3, OutputTypes DEF RunIds
    <3>6. QED
      BY <1>n, <1>12, <2>4, <2>6, <3>3, <3>4, <3>5 DEF CheckCase, Construct, TypeOK, RunIds
  <2>7. QED
    BY <2>5, <2>6
<1>13. CASE CaseUnanalysed
  BY <1>n, <1>c, <1>13 DEF CaseUnanalysed, Fails, End, TypeOK, RunIds, OutputRecords, Cleared,
     ClearedBut, files
<1>14. ASSUME Killed PROVE TypeOK'
  <2>1. runs[Len(runs)] \in RunRecords
    BY <1>14 DEF Killed, TypeOK
  <2>2. (IF runs[This].outcome = "running" THEN "killed" ELSE runs[This].outcome) \in Outcomes
    BY <2>1 DEF RunRecords, This, Outcomes
  <2>3. runs' \in Seq(RunRecords) /\ Len(runs') = Len(runs)
    BY <1>14, <2>2, EndsTypes DEF Killed
  <2>4. QED
    BY <1>n, <1>c, <1>14, <2>3 DEF Killed, End, TypeOK, RunIds, OutputRecords, Cleared, ClearedBut, files
<1>15. CASE Audit
  BY <1>n, <1>15 DEF Audit, End, TypeOK, RunIds, OutputRecords, Cleared, ClearedBut, files
<1>20. ASSUME NEW c \in Configs, NEW v \in Pairs, NEW o \in Overrides, Validate(c, o) PROVE TypeOK'
  <2>1. /\ pc' = pc /\ results' = <<>>
        /\ UNCHANGED <<source, runs, trace, artifacts, output, command>>
    BY <1>20 DEF Validate, End, Cleared, ClearedBut, files
  <2>2. QED
    BY <2>1 DEF TypeOK, RunIds, OutputRecords
<1>16. CASE EditSource
  BY <1>n, <1>c, <1>16 DEF EditSource, TypeOK, RunIds, OutputRecords, Cleared, ClearedBut, files
<1>17. CASE EditOutput
  BY <1>n, <1>c, <1>17 DEF EditOutput, TypeOK, RunIds, OutputRecords, Qualities, Cleared, ClearedBut
<1>18. CASE UNCHANGED vars
  BY <1>18 DEF vars, TypeOK, RunIds, OutputRecords, files, shown
<1>21. CASE \E c \in Configs, v \in Pairs, o \in Overrides :
              TranslateRefused(c, v, o) \/ Translate(c, v, o) \/ Validate(c, o)
  BY <1>1, <1>2, <1>20, <1>21
<1>19. QED
  BY <1>21, <1>3, <1>4, <1>5, <1>6, <1>7, <1>8, <1>9, <1>10, <1>11, <1>12, <1>13,
     <1>14, <1>15, <1>16, <1>17, <1>18 DEF Next, Pipeline

\* The variables keep their types whatever commands follow one another.
THEOREM SessionsTypes == Spec => []TypeOK
<1>1. QED
  BY InitTypes, TypeStep, PTL DEF Spec

-----------------------------------------------------------------------------
(* The invariant.  A step of a running command touches the last run only.    *)

LEMMA InitInv == Init => RunInv /\ FilesInv /\ TextInv /\ ShownInv /\ ResultsInv
BY DEF Init, RunInv, FilesInv, TraceIsLatest, TextInv, OnlyAcceptedPublished, ShownInv,
   PublishedTogether, MixedReportExplained, ResultsInv, NoOutput, NoReport, NoVerdict, NoLast

\* What the invariant says of the files when a command is at work, and what
\* the end of one has to leave: only the files, for the screen is empty.
LEMMA ScreenEmpty ==
  ASSUME report' = NoReport, verdict' = NoVerdict,
         pc' # "idle" \/ last' # [name |-> "translate", exit |-> 0]
  PROVE  ShownInv'
BY DEF ShownInv, PublishedTogether, MixedReportExplained, NoReport, NoVerdict, NoOutput

\* The output of an older run keeps what was said of it.
LEMMA OutputKept ==
  ASSUME OnlyAcceptedPublished, output \in OutputRecords, output' = output,
         \A i \in 1..Len(runs) : i = output.run =>
            runs'[i].outcome = runs[i].outcome /\ runs'[i].level = runs[i].level
  PROVE  OnlyAcceptedPublished'
BY DEF OnlyAcceptedPublished, OutputRecords, RunIds

\* A kernel is constructed.
LEMMA ConstructStep ==
  ASSUME SessionsInv, NEW level \in Levels, NEW src \in 0..(MaxEdits + 1),
         Construct(level, src), UNCHANGED <<artifacts, output>>,
         command'.name = "bench" => level = Head(command'.todo).level,
         report' = NoReport, verdict' = NoVerdict
  PROVE  RunInv' /\ FilesInv' /\ TextInv' /\ ShownInv'
<1>1. /\ Len(runs) \in Nat /\ runs \in Seq(RunRecords)
      /\ output \in OutputRecords /\ output.run \in 0..Len(runs)
      /\ OnlyAcceptedPublished
  BY DEF SessionsInv, TypeOK, OutputRecords, RunIds, TextInv
<1>2. /\ Len(runs') = Len(runs) + 1
      /\ \A i \in 1..Len(runs) : runs'[i] = runs[i]
      /\ runs'[Len(runs')] = [src |-> src, level |-> level, outcome |-> "running"]
  BY <1>1, ConstructFacts
<1>3. pc' = "running" /\ trace' = 0
  BY DEF Construct
<1>4. RunInv'
  BY <1>1, <1>2, <1>3 DEF RunInv, This, Level
<1>5. FilesInv'
  BY <1>3 DEF FilesInv, TraceIsLatest
<1>6. TextInv'
  BY <1>1, <1>2, <1>3, OutputKept DEF TextInv
<1>7. QED
  BY <1>3, <1>4, <1>5, <1>6, ScreenEmpty

\* A command fails, or is killed, before its run has written an output.
LEMMA FailStep ==
  ASSUME SessionsInv, pc # "idle", NEW o \in Outcomes, Ends(o), output' = output,
         UNCHANGED artifacts, pc' = "idle", last'.exit = 1,
         report' = NoReport, verdict' = NoVerdict,
         output.run = This => o = runs[This].outcome,
         trace' \in {trace, This},
         trace' = 0 \/ artifacts.log = This \/ o \in {"unanalysed", "rejected", "raised", "killed"}
  PROVE  RunInv' /\ FilesInv' /\ TextInv' /\ ShownInv'
<1>1. /\ Len(runs) \in Nat \ {0} /\ runs \in Seq(RunRecords)
      /\ output \in OutputRecords /\ OnlyAcceptedPublished /\ TraceIsLatest
  BY DEF SessionsInv, TypeOK, TextInv, FilesInv
<1>2. /\ Len(runs') = Len(runs)
      /\ \A i \in 1..Len(runs) :
            /\ runs'[i].level = runs[i].level
            /\ i # Len(runs) => runs'[i].outcome = runs[i].outcome
      /\ runs'[Len(runs)].outcome = o
  BY <1>1, EndsFacts
<1>3. RunInv'
  BY DEF RunInv
<1>4. FilesInv'
  BY <1>1, <1>2 DEF FilesInv, TraceIsLatest, This
<1>5. TextInv'
  BY <1>1, <1>2, OutputKept DEF TextInv, This
<1>6. ShownInv'
  <2>1. last' # [name |-> "translate", exit |-> 0]
    OBVIOUS
  <2>2. QED
    BY <2>1, ScreenEmpty
<1>7. QED
  BY <1>3, <1>4, <1>5, <1>6

\* The results of the suite: none after any other command, one more after a
\* case, whose text at a strict level is clean.
LEMMA ResultsStep == SessionsInv /\ [Next]_vars => ResultsInv'
<1> SUFFICES ASSUME SessionsInv, [Next]_vars PROVE ResultsInv'
  OBVIOUS
<1>1. CASE results' = <<>>
  BY <1>1 DEF ResultsInv
<1>2. CASE results' = results
  BY <1>2 DEF SessionsInv, ResultsInv
<1>3. ASSUME CheckCase PROVE ResultsInv'
  <2>1. PICK ok \in BOOLEAN, n \in Issues(Head(command.todo), command.text) :
          results' = Append(results, CaseResult(Head(command.todo), n, ok))
    BY <1>3 DEF CheckCase
  <2> DEFINE new == CaseResult(Head(command.todo), n, ok)
  <2>2. results \in Seq(ResultRecords)
    BY DEF SessionsInv, TypeOK
  <2>3. CASE command.text = "blocking" => Head(command.todo).level \notin Strict
    <3>1. /\ new.blocking > 0 => new.level \notin Strict
          /\ new.passed => new.blocking = 0
      <4>1. n > 0 => command.text = "blocking"
        BY DEF Issues
      <4>2. new.blocking = n /\ new.level = Head(command.todo).level /\ (new.passed => n = 0)
        BY DEF CaseResult
      <4>3. QED
        BY <2>3, <4>1, <4>2
    <3> HIDE DEF new
    <3>2. \A k \in 1..Len(results') : results'[k] = IF k <= Len(results) THEN results[k] ELSE new
      BY <2>1, <2>2 DEF new
    <3>3. Len(results') = Len(results) + 1 /\ Len(results) \in Nat
      BY <2>1, <2>2
    <3>4. QED
      BY <3>1, <3>2, <3>3 DEF SessionsInv, ResultsInv
  <2>4. CASE command.text = "blocking" /\ Head(command.todo).level \in Strict
    <3>1. Level \in Strict /\ command.text # "clean"
      BY <1>3, <2>4 DEF SessionsInv, RunInv, CheckCase
    <3>2. QED
      BY <1>3, <3>1 DEF SessionsInv, TextInv, CheckCase
  <2>5. QED
    BY <2>3, <2>4
<1>4. CASE ~CheckCase
  BY <1>1, <1>2, <1>4 DEF Next, Pipeline, vars, shown, TranslateRefused, Translate, RunAll,
     RunUnanalysed, RunRaises, RunRejected, RunAccepted, ExportArtifacts, ExportForensics,
     Deliver, WriteOutput, CaseUnanalysed, Killed, Audit, Validate, EditSource, EditOutput,
     Fails, Cleared, ClearedBut
<1>5. QED
  BY <1>3, <1>4

LEMMA InvStep ==
  SessionsInv /\ TypeOK' /\ [Next]_vars => RunInv' /\ FilesInv' /\ TextInv' /\ ShownInv'
<1> SUFFICES ASSUME SessionsInv, TypeOK', [Next]_vars
             PROVE  RunInv' /\ FilesInv' /\ TextInv' /\ ShownInv'
  OBVIOUS
<1> DEFINE Kept == RunInv' /\ FilesInv' /\ TextInv' /\ ShownInv'
<1>n. /\ Len(runs) \in Nat /\ runs \in Seq(RunRecords)
      /\ pc # "idle" => Len(runs) > 0
      /\ output \in OutputRecords /\ output.run \in 0..Len(runs)
      /\ trace \in 0..Len(runs) /\ artifacts.log \in 0..Len(runs)
  BY DEF SessionsInv, TypeOK, OutputRecords, RunIds
<1>o. OnlyAcceptedPublished
  BY DEF SessionsInv, TextInv
<1>1. ASSUME NEW c \in Configs, NEW v \in Pairs, NEW o \in Overrides, TranslateRefused(c, v, o)
      PROVE  Kept
  <2>1. /\ pc = "idle" /\ pc' = "idle" /\ last'.exit = 1
        /\ report' = NoReport /\ verdict' = NoVerdict
        /\ UNCHANGED <<runs, trace, artifacts, output>>
    BY <1>1 DEF TranslateRefused, End, Cleared, ClearedBut, files
  <2>2. last' # [name |-> "translate", exit |-> 0]
    BY <2>1
  <2>3. ShownInv'
    BY <2>1, <2>2, ScreenEmpty
  <2>4. RunInv' /\ FilesInv' /\ TextInv'
    BY <2>1, <1>n DEF SessionsInv, RunInv, FilesInv, TraceIsLatest, TextInv,
       OnlyAcceptedPublished, This, Level
  <2>5. QED
    BY <2>3, <2>4
<1>2. ASSUME NEW c \in Configs, NEW v \in Pairs, NEW o \in Overrides, Translate(c, v, o)
      PROVE  Kept
  <2>1. EffectiveLevel(c, o) \in Levels
    BY <1>2, SessionsAssumption DEF Translate
  <2>2. source \in 0..(MaxEdits + 1)
    BY SessionsAssumption DEF SessionsInv, TypeOK
  <2>3. QED
    BY <1>2, <2>1, <2>2, ConstructStep DEF Translate, Cleared, ClearedBut
<1>3. ASSUME NEW suite \in Suites, RunAll(suite)
      PROVE  Kept
  <2>1. Head(suite).level \in Levels
    BY <1>3, SessionsAssumption, SuiteHasCase DEF RunAll
  <2>2. 0 \in 0..(MaxEdits + 1)
    BY SessionsAssumption
  <2>3. QED
    BY <1>3, <2>1, <2>2, ConstructStep DEF RunAll, Cleared, ClearedBut
<1>4. ASSUME RunUnanalysed PROVE Kept
  <2>1. CASE Level \in Strict
    BY <1>n, <1>4, <2>1, FailStep DEF SessionsInv, RunInv, RunUnanalysed, Fails, End, Cleared,
       ClearedBut, Outcomes
  <2>2. CASE Level \notin Strict
    <3>1. /\ Len(runs') = Len(runs)
          /\ \A i \in 1..Len(runs) :
                /\ runs'[i].level = runs[i].level
                /\ i # Len(runs) => runs'[i].outcome = runs[i].outcome
          /\ runs'[Len(runs)].outcome = "unanalysed"
      BY <1>n, <1>4, <2>2, EndsFacts DEF RunUnanalysed, Outcomes
    <3>2. /\ pc = "running" /\ pc' = "deliver" /\ trace' = Len(runs)
          /\ UNCHANGED <<artifacts, output>> /\ UNCHANGED shown
          /\ command'.name = command.name /\ command'.todo = command.todo
      <4>1. command' = [command EXCEPT !.text = "empty"]
        BY <1>4, <2>2 DEF RunUnanalysed
      <4>2. command'.name = command.name /\ command'.todo = command.todo
        BY <4>1, CommandTypes DEF SessionsInv, TypeOK
      <4>3. QED
        BY <1>4, <2>2, <4>2 DEF RunUnanalysed, This
    <3>3. output.run # Len(runs)
      BY <1>n, <3>2 DEF SessionsInv, RunInv, This
    <3>4. RunInv'
      BY <1>n, <3>1, <3>2 DEF SessionsInv, RunInv, This, Level
    <3>5. FilesInv'
      BY <1>n, <3>1, <3>2 DEF FilesInv, TraceIsLatest, This
    <3>6. TextInv'
      BY <1>n, <1>o, <2>2, <3>1, <3>2, <3>3, OutputKept DEF TextInv, This, Level
    <3>7. ShownInv'
      BY <3>2, ScreenEmpty DEF SessionsInv, ShownInv, shown
    <3>8. QED
      BY <3>4, <3>5, <3>6, <3>7
  <2>3. QED
    BY <2>1, <2>2
<1>5. ASSUME RunRaises PROVE Kept
  <2> DEFINE o == IF runs[This].outcome = "running" THEN "raised" ELSE runs[This].outcome
  <2>1. runs[This] \in RunRecords
    BY <1>n, <1>5 DEF RunRaises, This
  <2>2. o \in Outcomes
    BY <2>1 DEF RunRecords, Outcomes
  <2>3. /\ pc # "idle" /\ Ends(o) /\ pc' = "idle" /\ last'.exit = 1
        /\ report' = NoReport /\ verdict' = NoVerdict
        /\ trace' = trace \/ (trace' = This /\ pc = "running")
        /\ UNCHANGED <<artifacts, output>>
    BY <1>5 DEF RunRaises, Fails, End, Cleared, ClearedBut
  <2>4. pc \in {"running", "export", "forensics", "deliver", "write"}
    BY <2>3 DEF SessionsInv, TypeOK
  <2>5. output.run = This => o = runs[This].outcome
    BY <2>4 DEF SessionsInv, RunInv
  <2>6. trace' = 0 \/ artifacts.log = This \/ o \in {"unanalysed", "rejected", "raised", "killed"}
    BY <2>3, <2>4 DEF SessionsInv, RunInv, FilesInv
  <2>7. trace' \in {trace, This}
    BY <2>3
  <2> HIDE DEF o
  <2>8. QED
    BY <2>2, <2>3, <2>5, <2>6, <2>7, FailStep
<1>6. CASE RunRejected
  BY <1>n, <1>6, FailStep DEF SessionsInv, RunInv, RunRejected, Fails, End, Cleared,
     ClearedBut, Outcomes
<1>7. ASSUME RunAccepted PROVE Kept
  <2>1. PICK q \in Qualities : ~GateRefuses(q) /\ command' = [command EXCEPT !.text = q]
    BY <1>7 DEF RunAccepted
  <2>2. command'.text = q /\ command'.name = command.name /\ command'.todo = command.todo
    BY <2>1, CommandTypes DEF SessionsInv, TypeOK, CommandRecords
  <2>3. /\ pc = "running" /\ pc' = "export" /\ trace' = Len(runs)
        /\ UNCHANGED <<runs, artifacts, output>> /\ UNCHANGED shown
    BY <1>7 DEF RunAccepted, This
  <2>4. RunInv'
    BY <2>2, <2>3 DEF SessionsInv, RunInv, This, Level
  <2>5. FilesInv'
    BY <1>n, <2>3 DEF FilesInv, TraceIsLatest, This
  <2>6. TextInv'
    BY <1>o, <2>1, <2>2, <2>3 DEF TextInv, OnlyAcceptedPublished, GateRefuses, Level, This
  <2>7. ShownInv'
    BY <2>3, ScreenEmpty DEF SessionsInv, ShownInv, shown
  <2>8. QED
    BY <2>4, <2>5, <2>6, <2>7
<1>8. ASSUME ExportArtifacts PROVE Kept
  <2>1. /\ pc = "export" /\ artifacts'.log = Len(runs)
        /\ UNCHANGED <<trace, output, command>> /\ UNCHANGED shown
    BY <1>8 DEF ExportArtifacts, This, SessionsInv, TypeOK
  <2>2. trace = Len(runs) /\ output.run # Len(runs) /\ runs[Len(runs)].outcome = "running"
    BY <2>1 DEF SessionsInv, RunInv, FilesInv, This
  <2>3. ShownInv'
    BY <2>1, <1>8, ScreenEmpty DEF SessionsInv, ShownInv, shown, ExportArtifacts
  <2>4. CASE Level = "L4_FORENSIC"
    <3>1. pc' = "forensics" /\ UNCHANGED runs
      BY <1>8, <2>4 DEF ExportArtifacts
    <3>2. QED
      BY <1>n, <2>1, <2>2, <2>3, <3>1 DEF SessionsInv, RunInv, FilesInv, TraceIsLatest, TextInv,
         OnlyAcceptedPublished, This, Level
  <2>5. CASE Level # "L4_FORENSIC"
    <3>1. pc' = "deliver" /\ Ends("emitted")
      BY <1>8, <2>5 DEF ExportArtifacts
    <3>2. /\ Len(runs') = Len(runs)
          /\ \A i \in 1..Len(runs) :
                /\ runs'[i].level = runs[i].level
                /\ i # Len(runs) => runs'[i].outcome = runs[i].outcome
          /\ runs'[Len(runs)].outcome = "emitted"
      BY <1>n, <2>1, <3>1, EndsFacts DEF Outcomes
    <3>3. RunInv'
      BY <1>n, <2>1, <3>1, <3>2 DEF SessionsInv, RunInv, This, Level
    <3>4. FilesInv'
      BY <1>n, <2>1, <2>2, <2>5, <3>1, <3>2 DEF FilesInv, TraceIsLatest, This, Level
    <3>5. TextInv'
      <4>1. OnlyAcceptedPublished'
        BY <1>n, <1>o, <2>1, <2>2, <3>2, OutputKept
      <4>2. QED
        BY <1>n, <2>1, <3>1, <3>2, <4>1 DEF SessionsInv, TextInv, This, Level
    <3>6. QED
      BY <2>3, <3>3, <3>4, <3>5
  <2>6. QED
    BY <2>4, <2>5
<1>9. ASSUME ExportForensics PROVE Kept
  <2>1. /\ pc = "forensics" /\ pc' = "deliver" /\ Ends("emitted")
        /\ artifacts'.log = artifacts.log /\ artifacts'.forensic = Len(runs)
        /\ UNCHANGED <<trace, output, command>> /\ UNCHANGED shown
    BY <1>9 DEF ExportForensics, This, SessionsInv, TypeOK
  <2>2. /\ trace = Len(runs) /\ artifacts.log = Len(runs) /\ output.run # Len(runs)
    BY <2>1 DEF SessionsInv, RunInv, FilesInv, This
  <2>3. /\ Len(runs') = Len(runs)
        /\ \A i \in 1..Len(runs) :
              /\ runs'[i].level = runs[i].level
              /\ i # Len(runs) => runs'[i].outcome = runs[i].outcome
        /\ runs'[Len(runs)].outcome = "emitted"
    BY <1>n, <2>1, EndsFacts DEF Outcomes
  <2>4. RunInv'
    BY <1>n, <2>1, <2>3 DEF SessionsInv, RunInv, This, Level
  <2>5. FilesInv'
    BY <1>n, <2>1, <2>2, <2>3 DEF FilesInv, TraceIsLatest, This
  <2>6. TextInv'
    <3>1. OnlyAcceptedPublished'
      BY <1>n, <1>o, <2>1, <2>2, <2>3, OutputKept
    <3>2. QED
      BY <1>n, <2>1, <2>3, <3>1 DEF SessionsInv, TextInv, This, Level
  <2>7. ShownInv'
    BY <2>1, ScreenEmpty DEF SessionsInv, ShownInv, shown
  <2>8. QED
    BY <2>4, <2>5, <2>6, <2>7
<1>10. ASSUME Deliver PROVE Kept
  <2>1. /\ pc = "deliver" /\ pc' = "write"
        /\ output' = [run |-> Len(runs), src |-> runs[Len(runs)].src, text |-> "partial"]
        /\ UNCHANGED <<runs, trace, artifacts, command>> /\ UNCHANGED shown
    BY <1>10 DEF Deliver, This, shown
  <2>2. RunInv'
    BY <2>1 DEF SessionsInv, RunInv, This, Level
  <2>3. FilesInv'
    BY <1>n, <2>1 DEF SessionsInv, FilesInv, TraceIsLatest, This, Level
  <2>4. TextInv'
    BY <2>1 DEF SessionsInv, RunInv, TextInv, OnlyAcceptedPublished, This, Level
  <2>5. ShownInv'
    BY <2>1, ScreenEmpty DEF SessionsInv, ShownInv, shown
  <2>6. QED
    BY <2>2, <2>3, <2>4, <2>5
<1>11. ASSUME WriteOutput PROVE Kept
  <2>1. /\ pc = "write" /\ pc' = "idle"
        /\ output'.run = output.run /\ output'.src = output.src
        /\ output'.text = command.text
        /\ report' = NoReport /\ verdict' = NoVerdict
        /\ UNCHANGED <<runs, trace, artifacts>>
    BY <1>n, <1>11 DEF WriteOutput, End, Cleared, ClearedBut, OutputRecords
  <2>2. /\ output.run = Len(runs) /\ output.src = runs[Len(runs)].src /\ trace = Len(runs)
        /\ runs[Len(runs)].outcome \in {"emitted", "unanalysed"}
        /\ runs[Len(runs)].outcome = "emitted" =>
             /\ artifacts.log = Len(runs)
             /\ runs[Len(runs)].level = "L4_FORENSIC" => artifacts.forensic = Len(runs)
    BY <2>1 DEF SessionsInv, RunInv, FilesInv, This, Level
  <2>3. RunInv'
    BY <2>1 DEF RunInv
  <2>4. FilesInv'
    BY <2>1, <2>2 DEF FilesInv, TraceIsLatest
  <2>5. TextInv'
    BY <2>1, <2>2 DEF SessionsInv, TextInv, OnlyAcceptedPublished, This, Level
  <2>6. ShownInv'
    BY <2>1, <2>2 DEF ShownInv, PublishedTogether, MixedReportExplained, NoReport, This, Level
  <2>7. QED
    BY <2>3, <2>4, <2>5, <2>6
<1>12. ASSUME CheckCase PROVE Kept
  <2>1. /\ pc = "deliver" /\ command.name = "bench"
        /\ report' = NoReport /\ verdict' = NoVerdict
        /\ UNCHANGED <<artifacts, output>>
    BY <1>12 DEF CheckCase, SessionsInv, ShownInv
  <2>2. CASE Tail(command.todo) = <<>>
    <3>1. /\ pc' = "idle" /\ last' = [name |-> "bench", exit |-> 0]
          /\ UNCHANGED <<runs, trace>>
      BY <1>12, <2>2 DEF CheckCase, End
    <3>2. last' # [name |-> "translate", exit |-> 0]
      BY <3>1
    <3>3. RunInv' /\ FilesInv' /\ TextInv'
      BY <1>n, <2>1, <3>1 DEF SessionsInv, RunInv, FilesInv, TraceIsLatest, TextInv,
         OnlyAcceptedPublished, This, Level
    <3>4. QED
      BY <2>1, <3>2, <3>3, ScreenEmpty
  <2>3. CASE Tail(command.todo) # <<>>
    <3>1. /\ command.todo \in Seq(Cases) /\ command.todo # <<>>
          /\ Tail(command.todo) \in Seq(Cases)
      BY <2>1, CommandTypes, SuiteHasCase DEF SessionsInv, TypeOK
    <3>2. Head(Tail(command.todo)).level \in Levels
      BY <2>3, <3>1, SuiteHasCase
    <3>3. 0 \in 0..(MaxEdits + 1)
      BY SessionsAssumption
    <3>4. Construct(Head(Tail(command.todo)).level, 0)
      BY <1>12, <2>3 DEF CheckCase
    <3>5. command'.todo = Tail(command.todo)
      <4>1. command' = [command EXCEPT !.todo = Tail(command.todo), !.text = "absent"]
        BY <1>12, <2>3 DEF CheckCase
      <4>2. command \in CommandRecords
        BY DEF SessionsInv, TypeOK
      <4>3. QED
        BY <3>1, <4>1, <4>2, CommandTypes
    <3>6. QED
      BY <2>1, <3>2, <3>3, <3>4, <3>5, ConstructStep
  <2>4. QED
    BY <2>2, <2>3
<1>13. ASSUME CaseUnanalysed PROVE Kept
  <2>1. /\ pc = "deliver" /\ pc' = "idle" /\ last'.exit = 1
        /\ report' = NoReport /\ verdict' = NoVerdict
        /\ UNCHANGED <<runs, trace, artifacts, output>>
    BY <1>13 DEF CaseUnanalysed, Fails, End, Cleared, ClearedBut, files
  <2>2. last' # [name |-> "translate", exit |-> 0]
    BY <2>1
  <2>3. RunInv' /\ FilesInv' /\ TextInv'
    BY <1>n, <2>1 DEF SessionsInv, RunInv, FilesInv, TraceIsLatest, TextInv,
       OnlyAcceptedPublished, This, Level
  <2>4. QED
    BY <2>1, <2>2, <2>3, ScreenEmpty
<1>14. ASSUME Killed PROVE Kept
  <2> DEFINE o == IF runs[This].outcome = "running" THEN "killed" ELSE runs[This].outcome
  <2>1. runs[This] \in RunRecords
    BY <1>n, <1>14 DEF Killed, This
  <2>2. o \in Outcomes
    BY <2>1 DEF RunRecords, Outcomes
  <2>3. /\ pc # "idle" /\ Ends(o) /\ pc' = "idle" /\ last'.exit = 1
        /\ report' = NoReport /\ verdict' = NoVerdict
        /\ UNCHANGED <<trace, artifacts, output>>
    BY <1>14 DEF Killed, End, Cleared, ClearedBut, files
  <2>4. pc \in {"running", "export", "forensics", "deliver", "write"}
    BY <2>3 DEF SessionsInv, TypeOK
  <2>5. output.run = This => o = runs[This].outcome
    BY <2>4 DEF SessionsInv, RunInv
  <2>6. trace = 0 \/ artifacts.log = This \/ o \in {"unanalysed", "rejected", "raised", "killed"}
    BY <2>4 DEF SessionsInv, RunInv, FilesInv
  <2> HIDE DEF o
  <2>7. QED
    BY <2>2, <2>3, <2>5, <2>6, FailStep
<1>15. ASSUME Audit PROVE Kept
  <2>1. /\ pc = "idle" /\ pc' = "idle" /\ last' = [name |-> "audit", exit |-> 0]
        /\ trace # 0 /\ verdict' = NoVerdict
        /\ report'.trace = trace /\ report'.log = artifacts.log
        /\ UNCHANGED <<runs, trace, artifacts, output>>
    BY <1>15 DEF Audit, End, ClearedBut, files
  <2>2. trace = Len(runs)
    BY <2>1 DEF SessionsInv, FilesInv, TraceIsLatest
  <2>3. RunInv' /\ FilesInv' /\ TextInv'
    BY <1>n, <2>1 DEF SessionsInv, RunInv, FilesInv, TraceIsLatest, TextInv,
       OnlyAcceptedPublished, This, Level
  <2>4. PublishedTogether'
    BY <2>1 DEF PublishedTogether
  <2>5. MixedReportExplained'
    BY <1>n, <2>1, <2>2 DEF SessionsInv, FilesInv, MixedReportExplained
  <2>6. ShownInv'
    BY <2>1, <2>4, <2>5 DEF ShownInv
  <2>7. QED
    BY <2>3, <2>6
<1>16. ASSUME NEW c \in Configs, NEW v \in Pairs, NEW o \in Overrides, Validate(c, o) PROVE Kept
  <2>1. /\ pc = "idle" /\ pc' = "idle" /\ last'.name = "validate"
        /\ report' = NoReport
        /\ UNCHANGED <<runs, trace, artifacts, output>>
    BY <1>16 DEF Validate, End, Cleared, ClearedBut, files
  <2>2. RunInv' /\ FilesInv' /\ TextInv'
    BY <1>n, <2>1 DEF SessionsInv, RunInv, FilesInv, TraceIsLatest, TextInv,
       OnlyAcceptedPublished, This, Level
  <2>3. PublishedTogether' /\ MixedReportExplained'
    BY <2>1 DEF PublishedTogether, MixedReportExplained, NoReport
  <2>4. QED
    BY <2>1, <2>2, <2>3 DEF ShownInv
<1>17. ASSUME EditSource \/ EditOutput PROVE Kept
  <2>1. /\ pc = "idle" /\ pc' = "idle" /\ last' = NoLast
        /\ report' = NoReport /\ verdict' = NoVerdict
        /\ UNCHANGED <<runs, trace, artifacts>>
        /\ output' = output \/ output'.run = 0
    BY <1>17 DEF EditSource, EditOutput, Cleared, ClearedBut, files
  <2>2. RunInv' /\ FilesInv' /\ TextInv'
    BY <1>n, <2>1 DEF SessionsInv, RunInv, FilesInv, TraceIsLatest, TextInv,
       OnlyAcceptedPublished, This, Level
  <2>3. QED
    BY <2>1, <2>2, ScreenEmpty DEF NoLast
<1>18. CASE UNCHANGED vars
  BY <1>18 DEF vars, files, shown, SessionsInv, RunInv, FilesInv, TraceIsLatest, TextInv,
     OnlyAcceptedPublished, ShownInv, PublishedTogether, MixedReportExplained, This, Level
<1>20. CASE \E c \in Configs, v \in Pairs, o \in Overrides :
              TranslateRefused(c, v, o) \/ Translate(c, v, o) \/ Validate(c, o)
  BY <1>1, <1>2, <1>16, <1>20
<1>19. QED
  BY <1>20, <1>3, <1>4, <1>5, <1>6, <1>7, <1>8, <1>9, <1>10, <1>11, <1>12, <1>13,
     <1>14, <1>15, <1>17, <1>18 DEF Next, Pipeline

\* The inductive invariant of the commands and their files.
THEOREM SessionsInvariant == Spec => []SessionsInv
<1>1. Init => SessionsInv
  BY InitTypes, InitInv DEF SessionsInv
<1>2. SessionsInv /\ [Next]_vars => SessionsInv'
  BY TypeStep, ResultsStep, InvStep DEF SessionsInv
<1>3. QED
  BY <1>1, <1>2, PTL DEF Spec

-----------------------------------------------------------------------------
(* What the files promise.                                                   *)

\* A translation that has just succeeded left one set of files behind: trace,
\* output and what _export_artifacts and _export_forensics wrote are of its run.
THEOREM SessionsTogether == Spec => []PublishedTogether
BY SessionsInvariant, PTL DEF SessionsInv, ShownInv

\* No output file written by translate ever holds a text that the gate of its
\* run refused, whatever died or was edited since.
THEOREM SessionsAccepted == Spec => []OnlyAcceptedPublished
BY SessionsInvariant, PTL DEF SessionsInv, TextInv

\* A report of tra audit that mixes two runs does so after a run that flushed
\* its trace and exported no log.
THEOREM SessionsReports == Spec => []MixedReportExplained
BY SessionsInvariant, PTL DEF SessionsInv, ShownInv

\* A case with BLOCKING issues is one that summarize counts as failed, and
\* without a failed case it finds no issue to count.
LEMMA SummaryCounts == TypeOK /\ ResultsInv => BenchBlockingOnlyLenient
<1> SUFFICES ASSUME TypeOK, ResultsInv PROVE BenchBlockingOnlyLenient
  OBVIOUS
<1> DEFINE all == 1..Len(results)
           passed == {k \in DOMAIN results : results[k].passed}
           blocking == {k \in DOMAIN results : results[k].blocking > 0}
<1>1. DOMAIN results = all /\ Len(results) \in Nat
  BY DEF TypeOK
<1>2. IsFiniteSet(all) /\ Cardinality(all) = Len(results)
  <2>1. 1 \in Int /\ Len(results) \in Int /\ Len(results) >= 0
    BY <1>1
  <2>2. /\ IsFiniteSet(1..Len(results))
        /\ Cardinality(1..Len(results)) = IF 1 > Len(results) THEN 0 ELSE Len(results) - 1 + 1
    BY <2>1, FS_Interval, Zenon
  <2>3. QED
    BY <2>1, <2>2
<1>3. blocking \subseteq all \ passed
  BY <1>1 DEF ResultsInv
<1>4. passed \subseteq all
  BY <1>1
<1>5. \A k \in DOMAIN results : results[k].blocking > 0 => results[k].level \notin Strict
  BY <1>1 DEF ResultsInv
<1>6. Summary.failed = Len(results) - Cardinality(passed)
  BY DEF Summary
<1> HIDE DEF all, passed, blocking
<1>7. /\ IsFiniteSet(passed) /\ IsFiniteSet(all \ passed)
      /\ Cardinality(all \ passed) = Cardinality(all) - Cardinality(all \cap passed)
  BY <1>2, <1>4, FS_Difference, FS_Subset
<1>8. Cardinality(blocking) <= Cardinality(all \ passed)
  BY <1>3, <1>7, FS_Subset
<1>9. all \cap passed = passed
  BY <1>4
<1>10. Cardinality(blocking) \in Nat /\ Cardinality(passed) \in Nat
  BY <1>3, <1>7, FS_Subset, FS_CardinalityType
<1>11. Cardinality(blocking) <= Summary.failed
  BY <1>1, <1>2, <1>6, <1>7, <1>8, <1>9, <1>10
<1>12. ASSUME Summary.failed = 0 PROVE Summary.blocking = 0
  <2>1. Cardinality(blocking) = 0
    BY <1>10, <1>11, <1>12
  <2>2. IsFiniteSet(blocking)
    BY <1>3, <1>7, FS_Subset
  <2>3. blocking = {}
    BY <2>1, <2>2, FS_EmptySet
  <2>4. ASSUME NEW k \in DOMAIN results PROVE {k} \X (1..results[k].blocking) = {}
    <3>1. results[k] \in ResultRecords
      BY <1>1, <2>4 DEF TypeOK, all
    <3>2. results[k].blocking \in Nat
      BY <3>1 DEF ResultRecords
    <3>3. ~(results[k].blocking > 0)
      BY <2>3 DEF blocking
    <3>4. results[k].blocking = 0
      BY <3>2, <3>3
    <3>5. QED
      BY <3>4
  <2>5. BlockingIssues = {}
    BY <2>4 DEF BlockingIssues
  <2>6. QED
    BY <2>5, FS_EmptySet DEF Summary
<1>13. QED
  BY <1>5, <1>11, <1>12 DEF BenchBlockingOnlyLenient, blocking

\* A result of run_case at a strict level never has a BLOCKING issue, every
\* result with one is counted as a failure by summarize, and where none failed
\* the sum of the issues is 0.
THEOREM SessionsBenchmark == Spec => []BenchBlockingOnlyLenient
<1>1. SessionsInv => BenchBlockingOnlyLenient
  BY SummaryCounts DEF SessionsInv
<1>2. QED
  BY <1>1, SessionsInvariant, PTL
=============================================================================
