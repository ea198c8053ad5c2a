-------------------------- MODULE FindingsRegister --------------------------
(* The findings register of the audit rounds 4 to 7 (tra-audit-skills):      *)
(* synthesize_findings_rN.py merges the findings of the track files into the *)
(* master register, normalize_rN_register.py rewrites the register with      *)
(* canonical severities.  Both then write the summary, and then its text; a  *)
(* script may be killed between its writes, or while it writes the register, *)
(* the only file of theirs that a script reads.                              *)
(* A finding is what the scripts tell apart in its text; a title is known by *)
(* the place of the header it stands in.                                     *)
EXTENDS Integers, FiniteSets, Sequences

CONSTANTS
    Rounds,     \* the rounds looked at, of 4..7
    TrackFiles, \* the findings of the track files, in the order they are read
    MaxEdits    \* bound on the edits of the track files

Levels == {"BLOCKING", "WARNING", "INFO"}
Types == {"issue", "positive_verification"}

\* What is told apart of a severity or a type: the canonical word it starts
\* with, if any, and how: exactly that, in another letter case, with more
\* behind a blank, or with anything else glued to it.
Spelt(words) ==
    [word : words \cup {"other"}, as : {"plain", "case", "more", "glued"}]
Severities == Spelt(Levels)

\* A text: the first TRA-NNN it cites (0: none), and whether it has a marker of
\* a positive verification.
Texts == [cites : Nat, marker : BOOLEAN]

\* A heading of a track file and what stands under it.  Of a finding: whose id
\* it is and the number and track in it, whether a colon, a dash or no TRA-
\* prefix goes with it, the place of the heading under which the file first
\* writes the id outside this header (0: nowhere), the status and its label.
\* Probes and the first line of the file are headings that are no findings.
TrackFindings ==
    [form : {"own", "root", "other_round", "none"}, header : {"colon", "dash", "bare"},
     n : Nat, track : STRING, mention : Nat, title : Texts, detail : Texts,
     severity : Severities, label : {"previous", "older", "none"}, status : SUBSET STRING,
     type : Spelt(Types)]

ASSUME RegisterAssumption ==
    /\ Rounds \subseteq 4..7 /\ MaxEdits \in Nat
    /\ \A files \in TrackFiles :
         /\ files \in Seq(TrackFindings)
         /\ \A i \in DOMAIN files :
              files[i].mention # 0 =>
                /\ files[i].mention \in DOMAIN files
                /\ files[files[i].mention].track = files[i].track

StatusKeys == {"fixed-and-verified", "fixed", "partial", "persistent", "new", "new-regression",
               "verified-holding", "carry-over", "other"}

VARIABLES
    round,      \* the round whose scripts are used
    tracks,     \* the track files
    edits,      \* how often they were edited
    register,   \* master_findings_register_rN.json: root_id -> entry
    torn,       \* the register is what a killed write left of it
    normalized, \* ghost: the register was last written by the normalizer
    summary,    \* summary.json
    txt,        \* summary.txt: the summary it shows
    pc,         \* the file the script at work writes next
    script      \* the script at work, or the last one, and whether it finished

files == <<register, torn, normalized, summary, txt>>
vars == <<round, tracks, edits, files, pc, script>>

NoSummary == [total |-> 0, severity |-> [l \in Levels |-> 0], positive |-> 0,
              status |-> [k \in StatusKeys |-> 0]]

Init ==
    /\ round \in Rounds /\ tracks \in TrackFiles /\ edits = 0
    /\ register = << >> /\ torn = FALSE /\ normalized = FALSE
    /\ summary = NoSummary /\ txt = NoSummary
    /\ pc = "idle" /\ script = [name |-> "none", finished |-> TRUE]

-----------------------------------------------------------------------------
(* parse_findings                                                            *)

\* The headers a round's pattern matches: ### TRA-A4-001, ### TRA-001, and
\* from round 6 on also ### A6-001 and identifiers of other rounds.
Matched_r4(f) == f.form \in {"own", "root"} /\ f.header # "bare"
Matched_r5(f) == f.form \in {"own", "root"} /\ f.header # "bare"
Matched_r6(f) == f.form # "none"
Matched_r7(f) == f.form # "none"

\* The title of the header at place i, or the whole line of another header, in
\* which a TRA-NNN of its own is cited first.
OwnTitle(i) ==
    [of |-> i, cites |-> tracks[i].title.cites, marker |-> tracks[i].title.marker]
WholeLine(j) ==
    IF tracks[j].form = "root" THEN [OwnTitle(j) EXCEPT !.cites = tracks[j].n] ELSE OwnTitle(j)
NoTitle == [of |-> 0, cites |-> 0, marker |-> FALSE]

\* Before r7 only a header with a colon gives its title.  Failing that it is the
\* last header line before the file first writes the id: nothing when that is
\* in the own header, and the last header of the file when it is nowhere, for
\* a header without the prefix does not have the id in it.
Headers(track) == {i \in DOMAIN tracks : tracks[i].track = track}
Last(g) == CHOOSE i \in g : \A j \in g : j <= i
Title(i) ==
    LET f == tracks[i]
    IN  CASE f.header = "colon" -> OwnTitle(i)
          [] f.header = "dash" ->
               IF f.mention # 0 /\ f.mention < i THEN WholeLine(f.mention) ELSE NoTitle
          [] f.header = "bare" ->
               WholeLine(IF f.mention # 0 THEN f.mention ELSE Last(Headers(f.track)))

\* The fields of a finding that each round reads.  r4 has no finding type; the
\* status is that of the round before, in r6 and r7 failing that the one
\* before that.
Parsed(f, title, status, type) ==
    [id |-> IF f.form = "root" THEN <<"TRA", f.n>> ELSE <<f.track, f.n>>,
     track |-> f.track, title |-> title, detail |-> f.detail, severity |-> f.severity,
     status |-> status, type |-> type]
StatusIn(f, labels) == IF f.label \in labels THEN f.status ELSE {}
NoType == [word |-> "other", as |-> "plain"]
Parsed_r4(i) == Parsed(tracks[i], Title(i), StatusIn(tracks[i], {"previous"}), NoType)
Parsed_r5(i) == Parsed(tracks[i], Title(i), StatusIn(tracks[i], {"previous"}), tracks[i].type)
Parsed_r6(i) ==
    Parsed(tracks[i], Title(i), StatusIn(tracks[i], {"previous", "older"}), tracks[i].type)
Parsed_r7(i) ==
    Parsed(tracks[i], OwnTitle(i), StatusIn(tracks[i], {"previous", "older"}), tracks[i].type)

\* The findings that are read, each at its place in the track files.
Read(Matched(_), At(_)) ==
    [i \in {j \in DOMAIN tracks : Matched(tracks[j])} |-> At(i)]

-----------------------------------------------------------------------------
(* dedupe_findings                                                           *)

\* The first TRA-NNN that title and detail cite, else the finding's own id.
RootOf(f) ==
    IF f.title.cites # 0 THEN <<"TRA", f.title.cites>>
    ELSE IF f.detail.cites # 0 THEN <<"TRA", f.detail.cites>>
    ELSE f.id

\* Anything but the three plain severities ranks last.
Plain(w) == [word |-> w, as |-> "plain"]
SeverityRank == [BLOCKING |-> 0, WARNING |-> 1, INFO |-> 2]
Rank(s) == IF s \in {Plain(l) : l \in Levels} THEN SeverityRank[s.word] ELSE 3

\* The places of the findings under one root, and the first of them.
Group(all, r) == {i \in DOMAIN all : RootOf(all[i]) = r}
First(g) == CHOOSE i \in g : \A j \in g : i <= j

\* The first of the group with the smallest rank.
Primary_first(all, g) == First(g)
Primary(all, g) ==
    CHOOSE i \in g :
        \A j \in g : \/ Rank(all[i].severity) < Rank(all[j].severity)
                     \/ Rank(all[i].severity) = Rank(all[j].severity) /\ i <= j

\* The primary with the tracks and ids of all and, in its detail, the titles
\* of all but the first of the group.
Merged_alone(all, g) ==
    LET p == all[First(g)]
    IN  [id |-> p.id, tracks |-> {p.track}, severity |-> p.severity, status |-> p.status,
         type |-> p.type, positive |-> p.title.marker \/ p.detail.marker,
         sources |-> [i \in {First(g)} |-> p.id], titles |-> {p.title.of},
         severity_was |-> {}, type_was |-> {}]
Merged(all, g) ==
    LET p == all[Primary(all, g)]
        others == g \ {First(g)}
    IN  [id |-> p.id,
         tracks |-> {all[i].track : i \in g},
         severity |-> p.severity, status |-> p.status, type |-> p.type,
         positive |-> \/ p.title.marker \/ p.detail.marker
                      \/ \E i \in others : all[i].title.marker,
         sources |-> [i \in g |-> all[i].id],
         titles |-> {p.title.of} \cup {all[i].title.of : i \in others},
         severity_was |-> {}, type_was |-> {}]

Dedupe(all) ==
    [r \in {RootOf(all[i]) : i \in DOMAIN all} |-> Merged(all, Group(all, r))]

-----------------------------------------------------------------------------
(* Summaries                                                                 *)

Tally(reg, Test(_)) == Cardinality({r \in DOMAIN reg : Test(reg[r])})

\* build_summary of the synthesizers: a severity that is not plain is counted
\* under its own name.
StatusName(words) == IF words = {} THEN {"new"} ELSE words
Summarized(reg) ==
    [total |-> Cardinality(DOMAIN reg),
     severity |-> [l \in Levels |-> Tally(reg, LAMBDA e : e.severity = Plain(l))],
     positive |-> Tally(reg, LAMBDA e : e.type = Plain("positive_verification")),
     status |-> [k \in StatusKeys |-> Tally(reg, LAMBDA e : StatusName(e.status) = {k})]]

\* The status key of the normalizers: that of the first rule all words of
\* which are in the status.  A status of "new-regression" has "new" in it too.
FirstRule(rules, words) ==
    LET Applies(i) == rules[i][2] \subseteq words
    IN  IF \E i \in DOMAIN rules : Applies(i)
        THEN rules[CHOOSE i \in DOMAIN rules : Applies(i) /\ \A j \in 1..(i - 1) : ~Applies(j)][1]
        ELSE "other"

StatusKey_r4(words) ==
    FirstRule(<< <<"fixed-and-verified", {"fixed", "verified"}>>, <<"fixed", {"fixed"}>>,
                 <<"partial", {"partial"}>>, <<"persistent", {"persistent"}>>, <<"new", {"new"}>>,
                 <<"verified-holding", {"verified"}>>, <<"verified-holding", {"safe"}>>,
                 <<"carry-over", {"carry"}>> >>, words)
StatusKey_r5(words) ==
    FirstRule(<< <<"fixed-and-verified", {"fixed", "verified"}>>, <<"fixed", {"fixed"}>>,
                 <<"partial", {"partial"}>>, <<"persistent", {"persistent"}>>, <<"new", {"new"}>>,
                 <<"new-regression", {"new-regression"}>>,
                 <<"verified-holding", {"verified"}>>, <<"verified-holding", {"safe"}>>,
                 <<"verified-holding", {"holding"}>>, <<"carry-over", {"carry"}>> >>, words)

-----------------------------------------------------------------------------
(* normalize_severity, categorize_finding, normalize                         *)

\* r4 to r6: by how the severity starts.
NormalizedSeverity_no_default(s) == Plain(s.word)
NormalizedSeverity(s) == Plain(IF s.word \in Levels THEN s.word ELSE "INFO")

\* r7: by its first word, and the type in the same way.  What had more behind
\* that word is kept in a field of its own.
FirstWord(s, words, default) ==
    Plain(IF s.word \in words /\ s.as # "glued" THEN s.word ELSE default)
HasMore(s, words) == s.word \in words /\ s.as = "more"

\* r4 to r6: the type follows from markers in title or detail, whatever the
\* register said of it.
Normalized(e) ==
    [e EXCEPT !.severity = NormalizedSeverity(@),
              !.type = Plain(IF e.positive THEN "positive_verification" ELSE "issue")]

Normalized_r7_forgets(e) ==
    [e EXCEPT !.severity = FirstWord(@, Levels, "INFO"),
              !.severity_was = IF HasMore(e.severity, Levels) THEN {e.severity} ELSE @,
              !.type = FirstWord(@, Types, "issue"),
              !.type_was = IF HasMore(e.type, Types) THEN {e.type} ELSE {}]
Normalized_r7(e) ==
    [e EXCEPT !.severity = FirstWord(@, Levels, "INFO"),
              !.severity_was = IF HasMore(e.severity, Levels) THEN {e.severity} ELSE @,
              !.type = FirstWord(@, Types, "issue"),
              !.type_was = IF HasMore(e.type, Types) THEN {e.type} ELSE @]

\* The summaries of the normalizers.  r6 asks for round6_status, a field its
\* synthesizer does not write.
Counted(reg, Key(_)) ==
    [Summarized(reg) EXCEPT
        !.status = [k \in StatusKeys |-> Tally(reg, LAMBDA e : Key(e) = k)]]

-----------------------------------------------------------------------------
(* The scripts.  Each writes the register, the summary and the text, in turn. *)

Synthesizes(all) ==
    /\ pc = "idle"
    /\ register' = Dedupe(all) /\ torn' = FALSE /\ normalized' = FALSE
    /\ pc' = "summary" /\ script' = [name |-> "synthesize", finished |-> FALSE]
    /\ UNCHANGED <<round, tracks, edits, summary, txt>>

Synthesize_r4 == round = 4 /\ Synthesizes(Read(Matched_r4, Parsed_r4))
Synthesize_r5 == round = 5 /\ Synthesizes(Read(Matched_r5, Parsed_r5))
Synthesize_r6 == round = 6 /\ Synthesizes(Read(Matched_r6, Parsed_r6))
Synthesize_r7 == round = 7 /\ Synthesizes(Read(Matched_r7, Parsed_r7))

\* A whole register must be there: json.loads refuses half of one, and without
\* any the scripts before r7 fail and r7 says so.
Normalizes(Of(_)) ==
    /\ pc = "idle" /\ script.name # "none" /\ ~torn
    /\ register' = [r \in DOMAIN register |-> Of(register[r])] /\ normalized' = TRUE
    /\ UNCHANGED torn
    /\ pc' = "summary" /\ script' = [name |-> "normalize", finished |-> FALSE]
    /\ UNCHANGED <<round, tracks, edits, summary, txt>>

Normalize_r4 == round = 4 /\ Normalizes(Normalized)
Normalize_r5 == round = 5 /\ Normalizes(Normalized)
Normalize_r6 == round = 6 /\ Normalizes(Normalized)
Normalize_r7 == round = 7 /\ Normalizes(Normalized_r7)

\* What the script at work makes of the register it has just written.
SummaryNow ==
    IF script.name = "synthesize" THEN Summarized(register)
    ELSE CASE round = 4 -> Counted(register, LAMBDA e : StatusKey_r4(StatusName(e.status)))
           [] round = 5 -> Counted(register, LAMBDA e : StatusKey_r5(StatusName(e.status)))
           [] round = 6 -> Counted(register, LAMBDA e : "new")
           [] round = 7 -> Summarized(register)

WriteSummary ==
    /\ pc = "summary"
    /\ summary' = SummaryNow
    /\ pc' = "txt"
    /\ UNCHANGED <<round, tracks, edits, register, torn, normalized, txt, script>>

WriteText ==
    /\ pc = "txt"
    /\ txt' = summary
    /\ pc' = "idle" /\ script' = [script EXCEPT !.finished = TRUE]
    /\ UNCHANGED <<round, tracks, edits, register, torn, normalized, summary>>

Killed ==
    /\ pc # "idle"
    /\ pc' = "idle"
    /\ UNCHANGED <<round, tracks, edits, files, script>>

\* A script dies while it writes the register in place: what was there is gone.
KilledWriting ==
    /\ pc = "idle"
    /\ \/ script' = [name |-> "synthesize", finished |-> FALSE]
       \/ /\ script.name # "none" /\ ~torn
          /\ script' = [name |-> "normalize", finished |-> FALSE]
    /\ register' = << >> /\ torn' = TRUE /\ normalized' = FALSE
    /\ UNCHANGED <<round, tracks, edits, summary, txt, pc>>

\* The auditors change a track file.
EditTracks ==
    /\ pc = "idle" /\ edits < MaxEdits
    /\ edits' = edits + 1
    /\ tracks' \in TrackFiles
    /\ UNCHANGED <<round, files, pc, script>>

Next ==
    \/ Synthesize_r4 \/ Synthesize_r5 \/ Synthesize_r6 \/ Synthesize_r7
    \/ Normalize_r4 \/ Normalize_r5 \/ Normalize_r6 \/ Normalize_r7
    \/ WriteSummary \/ WriteText \/ Killed \/ KilledWriting \/ EditTracks

Spec == Init /\ [][Next]_vars
=============================================================================
