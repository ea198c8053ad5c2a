------------------------ MODULE FindingsRegisterProps ------------------------
(* What an auditor relies on in the register of a round and in its summary.  *)
EXTENDS FindingsRegister

\* An entry of the register; what its id, its titles and its sources may be
\* depends on the findings.
IsEntry(e) ==
    e \in [id : {e.id}, tracks : {e.tracks}, severity : Severities, status : {e.status},
           type : Spelt(Types), positive : BOOLEAN, sources : {e.sources}, titles : {e.titles},
           severity_was : SUBSET Severities, type_was : SUBSET Spelt(Types)]

\* The types of the variables.
TypeOK ==
    /\ round \in Rounds /\ edits \in 0..MaxEdits /\ tracks \in TrackFiles
    /\ register = [r \in DOMAIN register |-> register[r]]
    /\ \A r \in DOMAIN register : IsEntry(register[r])
    /\ pc \in {"idle", "summary", "txt"} /\ torn \in BOOLEAN /\ normalized \in BOOLEAN
    /\ script \in [name : {"none", "synthesize", "normalize"}, finished : BOOLEAN]

\* What the synthesizer of the round finds in the track files as they are.
Findings ==
    CASE round = 4 -> Read(Matched_r4, Parsed_r4) [] round = 5 -> Read(Matched_r5, Parsed_r5)
      [] round = 6 -> Read(Matched_r6, Parsed_r6) [] round = 7 -> Read(Matched_r7, Parsed_r7)

SourceIds == UNION {{<<r, i>> : i \in DOMAIN register[r].sources} : r \in DOMAIN register}

\* There is a register made of the track files as they are.
Current == script.name # "none" /\ ~torn /\ edits = 0

\* The root that the title and detail of a track file cite, and whether the
\* round reads that title: r7 any, the others only behind a colon.
CitedRoot(i) == RootOf([Findings[i] EXCEPT !.title = OwnTitle(i)])
TitleRead(i) == round = 7 \/ tracks[i].header = "colon"

\* Merging loses no finding and doubles none: the sources of the entries are
\* the findings that were read, each in one entry with its track, and under
\* the root it cites where its title is read (parse_findings, dedupe_findings).
NothingLost ==
    Current =>
        /\ Cardinality(SourceIds) = Cardinality(DOMAIN Findings)
        /\ \A i \in DOMAIN Findings : \E r \in DOMAIN register :
             /\ \E k \in DOMAIN register[r].sources : register[r].sources[k] = Findings[i].id
             /\ Findings[i].track \in register[r].tracks
             /\ TitleRead(i) => r = CitedRoot(i)

\* "Take the highest severity": where every severity of a group is a plain one
\* the entry has the highest of them, before and after it is normalized.
HighestOfPlain ==
    Current =>
        \A r \in DOMAIN register :
            LET group == {i \in DOMAIN Findings : RootOf(Findings[i]) = r}
            IN  (\A i \in group : Rank(Findings[i].severity) < 3)
                => /\ \E i \in group : register[r].severity = Findings[i].severity
                   /\ \A i \in group : Rank(register[r].severity) <= Rank(Findings[i].severity)

\* Summary and text agree with the register after a script that was not
\* killed, and once the register is normalized the severities add up to the
\* total.
SummaryOfRegister ==
    /\ pc = "idle" /\ script.finished =>
         txt = summary /\ summary.total = Cardinality(DOMAIN register)
    /\ pc = "idle" /\ script.finished /\ normalized =>
         /\ summary.severity["BLOCKING"] + summary.severity["WARNING"]
              + summary.severity["INFO"] = summary.total
         /\ \A l \in Levels :
              summary.severity[l] = Tally(register, LAMBDA e : e.severity = Plain(l))

\* Normalizing a normalized register changes nothing, so the script can be run
\* again after it was killed between its writes; r7 keeps what it has set aside
\* of a severity and of a type it has already rewritten.
NormalizeIdempotent ==
    [][normalized /\ normalized' => register' = register]_vars

-----------------------------------------------------------------------------
(* The invariant behind them.                                                *)

\* The register is finite; once it is normalized every severity is a plain one
\* and, before r7, every type is that of the markers.
RegisterShape ==
    /\ IsFiniteSet(DOMAIN register)
    /\ normalized => \A r \in DOMAIN register :
         /\ Rank(register[r].severity) < 3
         /\ register[r].type \in {Plain(t) : t \in Types}
         /\ round # 7 =>
              register[r].type
                = Plain(IF register[r].positive THEN "positive_verification" ELSE "issue")

\* Until the track files are edited the register is that of their findings, but
\* for what the normalizer changed.
RegisterOfFindings ==
    Current =>
        /\ DOMAIN register = {RootOf(Findings[i]) : i \in DOMAIN Findings}
        /\ \A r \in DOMAIN register :
             LET merged == Merged(Findings, Group(Findings, r))
             IN  /\ register[r].sources = merged.sources
                 /\ register[r].tracks = merged.tracks
                 /\ Rank(merged.severity) < 3 => register[r].severity = merged.severity

\* A summary that was written after the register counts what is in it.
CountsRegister ==
    /\ summary.total = Cardinality(DOMAIN register)
    /\ \A l \in Levels :
         summary.severity[l] = Tally(register, LAMBDA e : e.severity = Plain(l))
SummaryInStep ==
    /\ pc = "txt" \/ (pc = "idle" /\ script.finished) => CountsRegister
    /\ pc # "idle" => ~script.finished
    /\ pc = "idle" /\ script.finished => txt = summary
    /\ script.name = "none" => register = << >> /\ ~normalized /\ ~torn /\ pc = "idle"

RegisterInv == TypeOK /\ RegisterShape /\ RegisterOfFindings /\ SummaryInStep

-----------------------------------------------------------------------------
(* Statements about this code that the code does not keep.                   *)

\* The severity an entry has in the end is the highest of its findings', also
\* where a severity has a status beside it.
HighestOfAll ==
    normalized /\ edits = 0 =>
        \A i \in DOMAIN Findings :
            Rank(register[RootOf(Findings[i])].severity)
              <= Rank(IF round = 7 THEN FirstWord(Findings[i].severity, Levels, "INFO")
                      ELSE NormalizedSeverity(Findings[i].severity))

\* "Append cross-references from other tracks in the detail".
EveryTitleKept ==
    Current =>
        \A i \in DOMAIN Findings : Findings[i].title.of \in register[RootOf(Findings[i])].titles

\* "deduplicates findings that cite the same root issue across tracks".
SameRootMerged ==
    Current =>
        \A i, j \in DOMAIN Findings :
            CitedRoot(i) = CitedRoot(j) => RootOf(Findings[i]) = RootOf(Findings[j])

\* A regression is counted as one.
RegressionsCounted ==
    pc = "idle" /\ script = [name |-> "normalize", finished |-> TRUE] /\ round \in {5, 6} =>
        summary.status["new-regression"]
          = Tally(register, LAMBDA e : "new-regression" \in e.status)

\* "rebuild the summary statistics": the statuses of the register are counted.
StatusesCounted ==
    pc = "idle" /\ script = [name |-> "normalize", finished |-> TRUE] /\ round = 6 =>
        summary.status["persistent"] = Tally(register, LAMBDA e : "persistent" \in e.status)

\* A finding whose track file says it is an issue is counted as one.
IssuesStayIssues ==
    normalized /\ edits = 0 =>
        \A i \in DOMAIN Findings :
            /\ Findings[i].type = Plain("issue")
            /\ Cardinality(DOMAIN register[RootOf(Findings[i])].sources) = 1
            => register[RootOf(Findings[i])].type = Plain("issue")
=============================================================================
