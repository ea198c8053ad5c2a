----------------------- MODULE FindingsRegisterProofs -----------------------
(***************************************************************************)
(* Theorems about FindingsRegister for track files of any number of         *)
(* findings and any edits of them.                                         *)
(***************************************************************************)
EXTENDS FindingsRegisterProps, FiniteSetTheorems, WellFoundedInduction, TLAPS

-----------------------------------------------------------------------------
(* Ranks, groups and the entry of a group. *)

LEMMA RankRange ==
  /\ \A s : Rank(s) \in 0..3
  /\ \A l \in Levels : Rank(Plain(l)) < 3
  /\ \A s : Rank(s) < 3 => \E l \in Levels : s = Plain(l)
<1>1. \A l \in Levels : SeverityRank[l] \in 0..2 /\ Plain(l).word = l
  BY DEF SeverityRank, Levels, Plain
<1>2. ASSUME NEW s, s \in {Plain(l) : l \in Levels} PROVE Rank(s) \in 0..2
  BY <1>1, <1>2 DEF Rank
<1>3. ASSUME NEW s, s \notin {Plain(l) : l \in Levels} PROVE Rank(s) = 3
  BY <1>3 DEF Rank
<1>4. QED
  BY <1>2, <1>3

\* A set of places that is not empty has a first one.
LEMMA FirstPlace ==
  ASSUME NEW g, g \subseteq Nat, g # {}
  PROVE  First(g) \in g /\ \A j \in g : First(g) <= j
<1> DEFINE less == OpToRel(<, Nat)
<1> HIDE DEF less
<1>1. PICK i \in g : \A j \in g : <<j, i>> \notin less
  BY NatLessThanWellFounded, WFMin DEF less
<1>2. \A j \in g : i <= j
  <2> SUFFICES ASSUME NEW j \in g PROVE ~(j < i)
    OBVIOUS
  <2>1. <<j, i>> \in Nat \X Nat
    OBVIOUS
  <2>2. QED
    BY <1>1, <2>1 DEF less, OpToRel
<1>3. QED
  BY <1>2 DEF First

\* The primary of a group is in it, and its rank is the smallest.
LEMMA PrimaryOfGroup ==
  ASSUME NEW all, NEW g, g \subseteq Nat, g # {}
  PROVE  /\ Primary(all, g) \in g
         /\ \A j \in g : Rank(all[Primary(all, g)].severity) <= Rank(all[j].severity)
<1> DEFINE ranks == {Rank(all[i].severity) : i \in g}
           m == First(ranks)
           best == {i \in g : Rank(all[i].severity) = m}
           b == First(best)
<1>1. ranks \subseteq Nat /\ ranks # {}
  <2>1. \A i \in g : Rank(all[i].severity) \in Nat
    BY RankRange
  <2>2. QED
    BY <2>1
<1>2. m \in ranks /\ \A k \in ranks : m <= k
  BY <1>1, FirstPlace
<1>3. best \subseteq Nat /\ best # {}
  BY <1>2
<1>4. b \in best /\ \A j \in best : b <= j
  BY <1>3, FirstPlace
<1> HIDE DEF m, b
<1>5. b \in g /\ \A j \in g : \/ Rank(all[b].severity) < Rank(all[j].severity)
                              \/ Rank(all[b].severity) = Rank(all[j].severity) /\ b <= j
  <2> SUFFICES ASSUME NEW j \in g
               PROVE  \/ Rank(all[b].severity) < Rank(all[j].severity)
                      \/ Rank(all[b].severity) = Rank(all[j].severity) /\ b <= j
    BY <1>4
  <2>1. m <= Rank(all[j].severity) /\ Rank(all[b].severity) = m
    BY <1>2, <1>4
  <2>2. CASE Rank(all[j].severity) = m
    BY <1>4, <2>1, <2>2
  <2>3. CASE Rank(all[j].severity) # m
    BY <2>1, <2>3, RankRange
  <2>4. QED
    BY <2>2, <2>3
<1>6. /\ Primary(all, g) \in g
      /\ \A j \in g : \/ Rank(all[Primary(all, g)].severity) < Rank(all[j].severity)
                      \/ Rank(all[Primary(all, g)].severity) = Rank(all[j].severity)
                           /\ Primary(all, g) <= j
  BY <1>5 DEF Primary
<1>7. QED
  BY <1>6, RankRange

\* The findings read are at places of the track files.
LEMMA FindingsPlaces ==
  ASSUME TypeOK
  PROVE  DOMAIN Findings \subseteq Nat /\ IsFiniteSet(DOMAIN Findings)
<1>1. tracks \in Seq(TrackFindings) /\ round \in 4..7
  BY RegisterAssumption DEF TypeOK
<1>2. DOMAIN Findings \subseteq 1..Len(tracks)
  BY <1>1 DEF Findings, Read
<1>3. 1..Len(tracks) \subseteq Nat /\ IsFiniteSet(1..Len(tracks))
  BY <1>1, FS_Interval
<1>4. QED
  BY <1>2, <1>3, FS_Subset
\* The findings change with the track files only.
LEMMA FindingsFixed ==
  ASSUME UNCHANGED <<round, tracks>>
  PROVE  Findings' = Findings
<1>1. \A i : OwnTitle(i)' = OwnTitle(i) /\ WholeLine(i)' = WholeLine(i)
  BY DEF OwnTitle, WholeLine
<1>2. \A i : Title(i)' = Title(i)
  <2>1. \A track : Headers(track)' = Headers(track)
    BY DEF Headers
  <2>2. QED
    BY <1>1, <2>1 DEF Title
<1>3. \A i : /\ Parsed_r4(i)' = Parsed_r4(i) /\ Parsed_r5(i)' = Parsed_r5(i)
             /\ Parsed_r6(i)' = Parsed_r6(i) /\ Parsed_r7(i)' = Parsed_r7(i)
  BY <1>1, <1>2 DEF Parsed_r4, Parsed_r5, Parsed_r6, Parsed_r7
<1>4. QED
  BY <1>3 DEF Findings, Read

\* What a finding has of its place in the track files.
LEMMA FindingsTypes ==
  ASSUME TypeOK, NEW i \in DOMAIN Findings
  PROVE  Findings[i].severity \in Severities /\ Findings[i].type \in Spelt(Types)
<1>1. tracks \in Seq(TrackFindings) /\ round \in 4..7
  BY RegisterAssumption DEF TypeOK
<1>2. \A j \in DOMAIN tracks : tracks[j].severity \in Severities /\ tracks[j].type \in Spelt(Types)
  <2>1. \A j \in DOMAIN tracks : tracks[j] \in TrackFindings
    BY <1>1
  <2>2. QED
    BY <2>1 DEF TrackFindings
<1>3. /\ i \in DOMAIN tracks /\ Findings[i].severity = tracks[i].severity
      /\ Findings[i].type \in {tracks[i].type, NoType}
  <2>1. CASE round = 4
    BY <2>1 DEF Findings, Read, Parsed_r4, Parsed
  <2>2. CASE round = 5
    BY <2>2 DEF Findings, Read, Parsed_r5, Parsed
  <2>3. CASE round = 6
    BY <2>3 DEF Findings, Read, Parsed_r6, Parsed
  <2>4. CASE round = 7
    BY <2>4 DEF Findings, Read, Parsed_r7, Parsed
  <2>5. QED
    BY <1>1, <2>1, <2>2, <2>3, <2>4
<1>4. NoType \in Spelt(Types)
  BY DEF NoType, Spelt
<1>5. QED
  BY <1>2, <1>3, <1>4

\* A finding whose title is read is under the root that it cites.
LEMMA ReadTitle ==
  ASSUME TypeOK, NEW i \in DOMAIN Findings, TitleRead(i)
  PROVE  CitedRoot(i) = RootOf(Findings[i])
<1>1. round \in 4..7
  BY RegisterAssumption DEF TypeOK
<1>2. Findings[i].title = OwnTitle(i)
  <2>1. round # 7 => Title(i) = OwnTitle(i)
    BY DEF TitleRead, Title
  <2>2. CASE round = 4
    BY <2>1, <2>2 DEF Findings, Read, Parsed_r4, Parsed
  <2>3. CASE round = 5
    BY <2>1, <2>3 DEF Findings, Read, Parsed_r5, Parsed
  <2>4. CASE round = 6
    BY <2>1, <2>4 DEF Findings, Read, Parsed_r6, Parsed
  <2>5. CASE round = 7
    BY <2>5 DEF Findings, Read, Parsed_r7, Parsed
  <2>6. QED
    BY <1>1, <2>2, <2>3, <2>4, <2>5
<1>3. /\ DOMAIN Findings[i] = {"id", "track", "title", "detail", "severity", "status", "type"}
      /\ Findings[i] = [x \in DOMAIN Findings[i] |-> Findings[i][x]]
  <2>1. ASSUME NEW f, NEW title, NEW status, NEW type
        PROVE  LET p == Parsed(f, title, status, type)
               IN  /\ DOMAIN p
                        = {"id", "track", "title", "detail", "severity", "status", "type"}
                   /\ p = [x \in DOMAIN p |-> p[x]]
    BY DEF Parsed
  <2>2. \E f, title, status, type : Findings[i] = Parsed(f, title, status, type)
    <3>1. CASE round = 4
      BY <3>1 DEF Findings, Read, Parsed_r4
    <3>2. CASE round = 5
      BY <3>2 DEF Findings, Read, Parsed_r5
    <3>3. CASE round = 6
      BY <3>3 DEF Findings, Read, Parsed_r6
    <3>4. CASE round = 7
      BY <3>4 DEF Findings, Read, Parsed_r7
    <3>5. QED
      BY <1>1, <3>1, <3>2, <3>3, <3>4
  <2>3. QED
    BY <2>1, <2>2
<1> DEFINE f == Findings[i]
           g == [f EXCEPT !.title = OwnTitle(i)]
<1> HIDE DEF f
<1>4. g.title = f.title /\ g.detail = f.detail /\ g.id = f.id
  BY <1>2, <1>3 DEF f
<1>5. QED
  BY <1>4 DEF CitedRoot, RootOf, f

\* The entry made of a group of findings.
LEMMA MergedEntry ==
  ASSUME TypeOK, NEW r \in {RootOf(Findings[i]) : i \in DOMAIN Findings}
  PROVE  LET g == Group(Findings, r)
             merged == Merged(Findings, g)
         IN  /\ g \subseteq Nat /\ g # {}
             /\ Primary(Findings, g) \in g
             /\ merged.severity = Findings[Primary(Findings, g)].severity
             /\ merged.sources = [i \in g |-> Findings[i].id]
             /\ merged.tracks = {Findings[i].track : i \in g}
             /\ IsEntry(merged)
<1> DEFINE g == Group(Findings, r)
           merged == Merged(Findings, g)
<1>1. g \subseteq Nat /\ g # {} /\ g \subseteq DOMAIN Findings
  BY FindingsPlaces DEF Group
<1>2. Primary(Findings, g) \in g
  BY <1>1, PrimaryOfGroup
<1> HIDE DEF g
<1>3. /\ merged.severity = Findings[Primary(Findings, g)].severity
      /\ merged.sources = [i \in g |-> Findings[i].id]
      /\ merged.tracks = {Findings[i].track : i \in g}
  BY DEF Merged
<1>4. merged.severity \in Severities /\ merged.type \in Spelt(Types)
  <2>1. merged.type = Findings[Primary(Findings, g)].type
    BY DEF Merged
  <2>2. QED
    BY <2>1, <1>1, <1>2, <1>3, FindingsTypes
<1>6. IsEntry(merged)
  BY <1>4 DEF IsEntry, Merged
<1>7. QED
  BY <1>1, <1>2, <1>3, <1>6 DEF g

-----------------------------------------------------------------------------
(* What the normalizers make of an entry. *)

OfRound(e) == IF round = 7 THEN Normalized_r7(e) ELSE Normalized(e)

\* The words that the normalizers make of what they find, and leave as they are.
LEMMA NormalizedWords ==
  /\ \A l \in Levels : Plain(l) \in Severities
  /\ \A t \in Types : Plain(t) \in Spelt(Types)
  /\ \A s : \E l \in Levels : NormalizedSeverity(s) = Plain(l)
  /\ \A s : \E l \in Levels : FirstWord(s, Levels, "INFO") = Plain(l)
  /\ \A s : \E t \in Types : FirstWord(s, Types, "issue") = Plain(t)
  /\ \A l \in Levels : /\ NormalizedSeverity(Plain(l)) = Plain(l)
                       /\ FirstWord(Plain(l), Levels, "INFO") = Plain(l)
                       /\ ~HasMore(Plain(l), Levels)
  /\ \A t \in Types : /\ FirstWord(Plain(t), Types, "issue") = Plain(t)
                      /\ ~HasMore(Plain(t), Types)
<1>1. \A w : Plain(w).word = w /\ Plain(w).as = "plain"
  BY DEF Plain
<1>2. "INFO" \in Levels /\ "issue" \in Types
  BY DEF Levels, Types
<1>3. /\ \A l \in Levels : Plain(l) \in Severities
      /\ \A t \in Types : Plain(t) \in Spelt(Types)
  BY DEF Plain, Severities, Spelt
<1>4. /\ \A s : \E l \in Levels : NormalizedSeverity(s) = Plain(l)
      /\ \A s : \E l \in Levels : FirstWord(s, Levels, "INFO") = Plain(l)
      /\ \A s : \E t \in Types : FirstWord(s, Types, "issue") = Plain(t)
  BY <1>2 DEF NormalizedSeverity, FirstWord
<1>5. \A l \in Levels : /\ NormalizedSeverity(Plain(l)) = Plain(l)
                        /\ FirstWord(Plain(l), Levels, "INFO") = Plain(l)
                        /\ ~HasMore(Plain(l), Levels)
  BY <1>1 DEF NormalizedSeverity, FirstWord, HasMore
<1>6. \A t \in Types : /\ FirstWord(Plain(t), Types, "issue") = Plain(t)
                       /\ ~HasMore(Plain(t), Types)
  BY <1>1 DEF FirstWord, HasMore
<1>7. QED
  BY <1>3, <1>4, <1>5, <1>6

\* The entry that a normalizer writes.
LEMMA NormalizedEntry ==
  ASSUME NEW e, IsEntry(e)
  PROVE  /\ IsEntry(OfRound(e))
         /\ Rank(OfRound(e).severity) < 3
         /\ Rank(e.severity) < 3 => OfRound(e).severity = e.severity
         /\ OfRound(e).sources = e.sources /\ OfRound(e).tracks = e.tracks
         /\ OfRound(e).type \in {Plain(t) : t \in Types}
         /\ round # 7 =>
              OfRound(e).type
                = Plain(IF OfRound(e).positive THEN "positive_verification" ELSE "issue")
<1> DEFINE type == Plain(IF e.positive THEN "positive_verification" ELSE "issue")
           s7 == FirstWord(e.severity, Levels, "INFO")
           t7 == FirstWord(e.type, Types, "issue")
           w7 == IF HasMore(e.severity, Levels) THEN {e.severity} ELSE e.severity_was
           x7 == IF HasMore(e.type, Types) THEN {e.type} ELSE e.type_was
<1>1. /\ type \in {Plain(t) : t \in Types}
      /\ t7 \in {Plain(t) : t \in Types}
      /\ NormalizedSeverity(e.severity) \in {Plain(l) : l \in Levels}
      /\ s7 \in {Plain(l) : l \in Levels}
  <2>1. "positive_verification" \in Types /\ "issue" \in Types
    BY DEF Types
  <2>2. QED
    BY <2>1, NormalizedWords
<1>2. /\ type \in Spelt(Types) /\ t7 \in Spelt(Types)
      /\ NormalizedSeverity(e.severity) \in Severities /\ s7 \in Severities
  BY <1>1, NormalizedWords
<1>3. /\ e.severity \in Severities /\ e.type \in Spelt(Types)
      /\ e.severity_was \subseteq Severities /\ e.type_was \subseteq Spelt(Types)
  BY DEF IsEntry
<1>4. w7 \subseteq Severities /\ x7 \subseteq Spelt(Types)
  BY <1>3
<1>5. Rank(e.severity) < 3 => NormalizedSeverity(e.severity) = e.severity /\ s7 = e.severity
  BY RankRange, NormalizedWords
<1>6. /\ Normalized(e) = [e EXCEPT !.severity = NormalizedSeverity(e.severity), !.type = type]
      /\ Normalized_r7(e) = [e EXCEPT !.severity = s7, !.severity_was = w7, !.type = t7,
                                      !.type_was = x7]
  BY DEF Normalized, Normalized_r7, IsEntry
<1> HIDE DEF type, s7, t7, w7, x7
<1>7. /\ IsEntry(Normalized(e)) /\ IsEntry(Normalized_r7(e))
  BY <1>2, <1>4, <1>6 DEF IsEntry
<1>8. /\ Normalized(e).severity = NormalizedSeverity(e.severity) /\ Normalized(e).type = type
      /\ Normalized(e).positive = e.positive
      /\ Normalized(e).sources = e.sources /\ Normalized(e).tracks = e.tracks
  BY <1>6 DEF IsEntry
<1>9. /\ Normalized_r7(e).severity = s7 /\ Normalized_r7(e).type = t7
      /\ Normalized_r7(e).sources = e.sources /\ Normalized_r7(e).tracks = e.tracks
  BY <1>6 DEF IsEntry
<1>10. \A s \in {Plain(l) : l \in Levels} : Rank(s) < 3
  BY RankRange
<1>11. CASE round = 7
  BY <1>1, <1>5, <1>7, <1>9, <1>10, <1>11 DEF OfRound
<1>12. CASE round # 7
  BY <1>1, <1>5, <1>7, <1>8, <1>10, <1>12 DEF OfRound, type
<1>13. QED
  BY <1>11, <1>12

\* A normalized entry is as it was.
LEMMA NormalizedTwice ==
  ASSUME NEW e, IsEntry(e), Rank(e.severity) < 3, e.type \in {Plain(t) : t \in Types},
         round # 7 => e.type = Plain(IF e.positive THEN "positive_verification" ELSE "issue")
  PROVE  OfRound(e) = e
<1>1. /\ NormalizedSeverity(e.severity) = e.severity
      /\ FirstWord(e.severity, Levels, "INFO") = e.severity /\ ~HasMore(e.severity, Levels)
      /\ FirstWord(e.type, Types, "issue") = e.type /\ ~HasMore(e.type, Types)
  BY RankRange, NormalizedWords
<1>2. CASE round = 7
  <2>1. Normalized_r7(e) = e
    BY <1>1 DEF Normalized_r7, IsEntry
  <2>2. QED
    BY <1>2, <2>1 DEF OfRound
<1>3. CASE round # 7
  <2>1. Normalized(e) = e
    BY <1>1, <1>3 DEF Normalized, IsEntry
  <2>2. QED
    BY <1>3, <2>1 DEF OfRound
<1>4. QED
  BY <1>2, <1>3

-----------------------------------------------------------------------------
(* The actions. *)

\* A synthesizer merges what the synthesizer of the round finds; a normalizer
\* rewrites each entry.
LEMMA SynthesizeAction ==
  ASSUME Synthesize_r4 \/ Synthesize_r5 \/ Synthesize_r6 \/ Synthesize_r7
  PROVE  Synthesizes(Findings)
<1>1. CASE Synthesize_r4
  BY <1>1 DEF Synthesize_r4, Findings
<1>2. CASE Synthesize_r5
  BY <1>2 DEF Synthesize_r5, Findings
<1>3. CASE Synthesize_r6
  BY <1>3 DEF Synthesize_r6, Findings
<1>4. CASE Synthesize_r7
  BY <1>4 DEF Synthesize_r7, Findings
<1>5. QED
  BY <1>1, <1>2, <1>3, <1>4

LEMMA NormalizeAction ==
  ASSUME Normalize_r4 \/ Normalize_r5 \/ Normalize_r6 \/ Normalize_r7
  PROVE  Normalizes(OfRound)
<1>1. CASE Normalize_r4
  BY <1>1 DEF Normalize_r4, Normalizes, OfRound
<1>2. CASE Normalize_r5
  BY <1>2 DEF Normalize_r5, Normalizes, OfRound
<1>3. CASE Normalize_r6
  BY <1>3 DEF Normalize_r6, Normalizes, OfRound
<1>4. CASE Normalize_r7
  BY <1>4 DEF Normalize_r7, Normalizes, OfRound
<1>5. QED
  BY <1>1, <1>2, <1>3, <1>4

\* A summary of the scripts counts the entries and their severities.
LEMMA SummaryCounts ==
  ASSUME round \in 4..7
  PROVE  /\ SummaryNow.total = Cardinality(DOMAIN register)
         /\ \A l \in Levels :
              SummaryNow.severity[l] = Tally(register, LAMBDA e : e.severity = Plain(l))
<1>1. /\ Summarized(register).total = Cardinality(DOMAIN register)
      /\ \A l \in Levels :
           Summarized(register).severity[l] = Tally(register, LAMBDA e : e.severity = Plain(l))
  BY DEF Summarized
<1>2. SummaryNow.total = Summarized(register).total
      /\ SummaryNow.severity = Summarized(register).severity
  BY DEF SummaryNow, Counted, Summarized
<1>3. QED
  BY <1>1, <1>2

LEMMA RegisterInit == Init => RegisterInv
<1> SUFFICES ASSUME Init PROVE RegisterInv
  OBVIOUS
<1>1. DOMAIN register = {}
  BY DEF Init
<1>2. TypeOK
  <2>1. register = [r \in DOMAIN register |-> register[r]]
    BY <1>1 DEF Init
  <2>2. /\ script \in [name : {"none", "synthesize", "normalize"}, finished : BOOLEAN]
        /\ edits \in 0..MaxEdits
    BY RegisterAssumption DEF Init
  <2>3. QED
    BY <1>1, <2>1, <2>2 DEF Init, TypeOK
<1>3. RegisterShape
  BY <1>1, FS_EmptySet DEF Init, RegisterShape
<1>4. RegisterOfFindings
  BY DEF Init, RegisterOfFindings, Current
<1>5. CountsRegister
  <2>1. \A l \in Levels : Tally(register, LAMBDA e : e.severity = Plain(l)) = 0
    <3>1. {r \in DOMAIN register : TRUE} = {}
      BY <1>1
    <3>2. QED
      BY <1>1, FS_EmptySet DEF Tally
  <2>2. QED
    BY <1>1, <2>1, FS_EmptySet DEF Init, NoSummary, CountsRegister
<1>6. SummaryInStep
  BY <1>5 DEF Init, SummaryInStep
<1>7. QED
  BY <1>2, <1>3, <1>4, <1>6 DEF RegisterInv

\* What is said of the register goes by it, by the tracks and by the round.
LEMMA RegisterUntouched ==
  ASSUME RegisterInv, UNCHANGED <<round, tracks, edits, register, torn, normalized>>,
         script'.name = script.name
  PROVE  RegisterShape' /\ RegisterOfFindings'
<1>1. RegisterShape'
  BY DEF RegisterInv, RegisterShape
<1>2. Findings' = Findings
  BY FindingsFixed
<1>3. RegisterOfFindings'
  BY <1>2 DEF RegisterInv, RegisterOfFindings, Current
<1>4. QED
  BY <1>1, <1>3

LEMMA SynthesizeStep ==
  ASSUME RegisterInv, Synthesizes(Findings)
  PROVE  RegisterInv'
<1>1. /\ UNCHANGED <<round, tracks, edits, summary, txt>>
      /\ register' = Dedupe(Findings) /\ torn' = FALSE /\ normalized' = FALSE
      /\ pc' = "summary" /\ script' = [name |-> "synthesize", finished |-> FALSE]
  BY DEF Synthesizes
<1>2. TypeOK
  BY DEF RegisterInv
<1>3. Findings' = Findings
  BY <1>1, FindingsFixed
<1> DEFINE roots == {RootOf(Findings[i]) : i \in DOMAIN Findings}
<1>4. /\ DOMAIN register' = roots
      /\ register' = [r \in DOMAIN register' |-> register'[r]]
      /\ \A r \in roots : register'[r] = Merged(Findings, Group(Findings, r))
  BY <1>1 DEF Dedupe
<1>5. TypeOK'
  <2>1. \A r \in DOMAIN register' : IsEntry(register'[r])
    BY <1>2, <1>4, MergedEntry
  <2>2. \A r \in DOMAIN register' : IsEntry(register[r])'
    BY <2>1 DEF IsEntry
  <2>3. QED
    BY <1>1, <1>2, <1>4, <2>2 DEF TypeOK
<1>6. RegisterShape'
  <2>1. IsFiniteSet(roots)
    <3> DEFINE root == [i \in DOMAIN Findings |-> RootOf(Findings[i])]
    <3>1. root \in Surjection(DOMAIN Findings, roots)
      BY DEF Surjection
    <3>2. QED
      BY <1>2, <3>1, FindingsPlaces, FS_Surjection
  <2>2. QED
    BY <1>1, <1>4, <2>1 DEF RegisterShape
<1>7. RegisterOfFindings'
  BY <1>3, <1>4 DEF RegisterOfFindings
<1>8. SummaryInStep'
  BY <1>1 DEF SummaryInStep
<1>9. QED
  BY <1>5, <1>6, <1>7, <1>8 DEF RegisterInv

LEMMA NormalizeStep ==
  ASSUME RegisterInv, Normalizes(OfRound)
  PROVE  RegisterInv'
<1>1. /\ UNCHANGED <<round, tracks, edits, summary, txt>>
      /\ register' = [r \in DOMAIN register |-> OfRound(register[r])] /\ normalized' = TRUE
      /\ pc' = "summary" /\ script' = [name |-> "normalize", finished |-> FALSE]
      /\ script.name # "none" /\ ~torn /\ torn' = torn
  BY DEF Normalizes
<1>2. TypeOK /\ RegisterShape /\ RegisterOfFindings
  BY DEF RegisterInv
<1>3. Findings' = Findings
  BY <1>1, FindingsFixed
<1>4. /\ DOMAIN register' = DOMAIN register
      /\ register' = [r \in DOMAIN register' |-> register'[r]]
  BY <1>1
<1>5. ASSUME NEW r \in DOMAIN register
      PROVE  /\ IsEntry(register'[r])
             /\ Rank(register'[r].severity) < 3
             /\ Rank(register[r].severity) < 3 => register'[r].severity = register[r].severity
             /\ register'[r].sources = register[r].sources
             /\ register'[r].tracks = register[r].tracks
             /\ register'[r].type \in {Plain(t) : t \in Types}
             /\ round # 7 => register'[r].type
                  = Plain(IF register'[r].positive THEN "positive_verification" ELSE "issue")
  <2>1. IsEntry(register[r]) /\ register'[r] = OfRound(register[r])
    BY <1>1, <1>2 DEF TypeOK
  <2>2. QED
    BY <2>1, NormalizedEntry
<1>6. TypeOK'
  <2>1. \A r \in DOMAIN register' : IsEntry(register[r])'
    BY <1>4, <1>5 DEF IsEntry
  <2>2. QED
    BY <1>1, <1>2, <1>4, <2>1 DEF TypeOK
<1>7. RegisterShape'
  BY <1>1, <1>2, <1>4, <1>5 DEF RegisterShape
<1>8. RegisterOfFindings'
  BY <1>1, <1>2, <1>3, <1>4, <1>5 DEF RegisterOfFindings, Current
<1>9. SummaryInStep'
  BY <1>1 DEF SummaryInStep
<1>10. QED
  BY <1>6, <1>7, <1>8, <1>9 DEF RegisterInv

LEMMA RegisterStep == RegisterInv /\ [Next]_vars => RegisterInv'
<1> SUFFICES ASSUME RegisterInv, [Next]_vars PROVE RegisterInv'
  OBVIOUS
<1>0. TypeOK /\ round \in 4..7
  BY RegisterAssumption DEF RegisterInv, TypeOK
<1>1. CASE UNCHANGED vars
  <2>1. TypeOK' /\ SummaryInStep'
    BY <1>1 DEF vars, files, RegisterInv, TypeOK, SummaryInStep, CountsRegister, Tally, IsEntry
  <2>2. QED
    BY <1>1, <2>1, RegisterUntouched DEF vars, files, RegisterInv
<1>2. CASE Synthesize_r4 \/ Synthesize_r5 \/ Synthesize_r6 \/ Synthesize_r7
  BY <1>2, SynthesizeAction, SynthesizeStep
<1>3. CASE Normalize_r4 \/ Normalize_r5 \/ Normalize_r6 \/ Normalize_r7
  BY <1>3, NormalizeAction, NormalizeStep
<1>4. CASE WriteSummary
  <2>1. /\ UNCHANGED <<round, tracks, edits, register, torn, normalized, script>>
        /\ summary' = SummaryNow /\ pc = "summary" /\ pc' = "txt"
    BY <1>4 DEF WriteSummary
  <2>2. TypeOK'
    BY <1>0, <2>1 DEF TypeOK, IsEntry
  <2>3. CountsRegister'
    <3>1. /\ SummaryNow.total = Cardinality(DOMAIN register)
          /\ \A l \in Levels :
               SummaryNow.severity[l] = Tally(register, LAMBDA e : e.severity = Plain(l))
      BY <1>0, SummaryCounts
    <3>2. QED
      BY <2>1, <3>1 DEF CountsRegister, Tally
  <2>4. SummaryInStep'
    BY <2>1, <2>3 DEF SummaryInStep, RegisterInv
  <2>5. QED
    BY <2>1, <2>2, <2>4, RegisterUntouched DEF RegisterInv
<1>5. CASE WriteText
  <2>1. /\ UNCHANGED <<round, tracks, edits, register, torn, normalized, summary>>
        /\ txt' = summary /\ pc = "txt" /\ pc' = "idle"
        /\ script' = [script EXCEPT !.finished = TRUE]
    BY <1>5 DEF WriteText
  <2>2. /\ script' \in [name : {"none", "synthesize", "normalize"}, finished : BOOLEAN]
        /\ script'.name = script.name
    BY <1>0, <2>1 DEF TypeOK
  <2>3. TypeOK'
    BY <1>0, <2>1, <2>2 DEF TypeOK, IsEntry
  <2>4. CountsRegister'
    BY <2>1 DEF CountsRegister, SummaryInStep, RegisterInv, Tally
  <2>5. SummaryInStep'
    BY <2>1, <2>2, <2>4 DEF SummaryInStep, RegisterInv
  <2>6. QED
    BY <2>1, <2>2, <2>3, <2>5, RegisterUntouched DEF RegisterInv
<1>6. CASE Killed
  <2>1. UNCHANGED <<round, tracks, edits, files, script>> /\ pc # "idle" /\ pc' = "idle"
    BY <1>6 DEF Killed
  <2>2. TypeOK'
    BY <1>0, <2>1 DEF files, TypeOK, IsEntry
  <2>3. SummaryInStep'
    BY <2>1 DEF SummaryInStep, RegisterInv
  <2>4. QED
    BY <2>1, <2>2, <2>3, RegisterUntouched DEF files, RegisterInv
<1>7. CASE EditTracks
  <2>1. /\ UNCHANGED <<round, files, pc, script>>
        /\ edits' = edits + 1 /\ tracks' \in TrackFiles /\ edits < MaxEdits
    BY <1>7 DEF EditTracks
  <2>2. edits' \in 0..MaxEdits /\ edits' # 0
    BY <1>0, <2>1, RegisterAssumption DEF TypeOK
  <2>3. TypeOK'
    BY <1>0, <2>1, <2>2 DEF files, TypeOK, IsEntry
  <2>4. RegisterShape' /\ RegisterOfFindings'
    BY <2>1, <2>2 DEF files, RegisterInv, RegisterShape, RegisterOfFindings, Current
  <2>5. SummaryInStep'
    BY <2>1 DEF files, RegisterInv, SummaryInStep, CountsRegister, Tally
  <2>6. QED
    BY <2>3, <2>4, <2>5 DEF RegisterInv
<1>8. CASE KilledWriting
  <2>1. /\ UNCHANGED <<round, tracks, edits, summary, txt, pc>>
        /\ register' = << >> /\ torn' = TRUE /\ normalized' = FALSE /\ pc = "idle"
    BY <1>8 DEF KilledWriting
  <2>2. DOMAIN register' = {} /\ register' = [r \in DOMAIN register' |-> register'[r]]
    BY <2>1
  <2>3. script' \in [name : {"none", "synthesize", "normalize"}, finished : BOOLEAN]
        /\ script'.name # "none" /\ ~script'.finished
    <3>1. \/ script' = [name |-> "synthesize", finished |-> FALSE]
          \/ script' = [name |-> "normalize", finished |-> FALSE]
      BY <1>8, Zenon DEF KilledWriting
    <3>2. ASSUME NEW n \in {"synthesize", "normalize"},
                 script' = [name |-> n, finished |-> FALSE]
          PROVE  /\ script' \in [name : {"none", "synthesize", "normalize"}, finished : BOOLEAN]
                 /\ script'.name # "none" /\ ~script'.finished
      <4>1. script' \in [name : {"none", "synthesize", "normalize"}, finished : BOOLEAN]
        BY <3>2
      <4>2. script'.name # "none"
        BY <3>2
      <4>3. script'.finished = FALSE
        BY <3>2
      <4>4. QED
        BY <4>1, <4>2, <4>3
    <3>3. QED
      BY <3>1, <3>2
  <2>4. TypeOK'
    BY <1>0, <2>1, <2>2, <2>3 DEF TypeOK
  <2>5. RegisterShape'
    BY <2>1, <2>2, FS_EmptySet DEF RegisterShape
  <2>6. RegisterOfFindings'
    BY <2>1 DEF RegisterOfFindings, Current
  <2>7. SummaryInStep'
    BY <2>1, <2>3 DEF SummaryInStep
  <2>8. QED
    BY <2>4, <2>5, <2>6, <2>7 DEF RegisterInv
<1>9. QED
  BY <1>1, <1>2, <1>3, <1>4, <1>5, <1>6, <1>7, <1>8 DEF Next

-----------------------------------------------------------------------------
(* The theorems. *)

THEOREM RegisterInvariant == Spec => []RegisterInv
  BY RegisterInit, RegisterStep, PTL DEF Spec

\* The entries keep the shape the scripts give them.
THEOREM RegisterTypes == Spec => []TypeOK
<1>1. RegisterInv => TypeOK
  BY DEF RegisterInv
<1>2. QED
  BY <1>1, RegisterInvariant, PTL

LEMMA AllSourcesThere == RegisterInv => NothingLost
<1> SUFFICES ASSUME RegisterInv, Current
             PROVE  /\ Cardinality(SourceIds) = Cardinality(DOMAIN Findings)
                    /\ \A i \in DOMAIN Findings : \E r \in DOMAIN register :
                         /\ \E k \in DOMAIN register[r].sources :
                              register[r].sources[k] = Findings[i].id
                         /\ Findings[i].track \in register[r].tracks
                         /\ TitleRead(i) => r = CitedRoot(i)
  BY DEF NothingLost
<1>1. /\ DOMAIN register = {RootOf(Findings[i]) : i \in DOMAIN Findings}
      /\ \A r \in DOMAIN register :
           /\ register[r].sources = [i \in Group(Findings, r) |-> Findings[i].id]
           /\ register[r].tracks = {Findings[i].track : i \in Group(Findings, r)}
  <2>1. DOMAIN register = {RootOf(Findings[i]) : i \in DOMAIN Findings}
    BY DEF RegisterInv, RegisterOfFindings
  <2>2. ASSUME NEW r \in DOMAIN register
        PROVE  /\ register[r].sources = Merged(Findings, Group(Findings, r)).sources
               /\ register[r].tracks = Merged(Findings, Group(Findings, r)).tracks
    BY DEF RegisterInv, RegisterOfFindings
  <2>3. QED
    BY <2>1, <2>2 DEF Merged
<1>2. \A i \in DOMAIN Findings : i \in Group(Findings, RootOf(Findings[i]))
  BY DEF Group
<1>3. \A i \in DOMAIN Findings :
        /\ RootOf(Findings[i]) \in DOMAIN register
        /\ \E k \in DOMAIN register[RootOf(Findings[i])].sources :
             register[RootOf(Findings[i])].sources[k] = Findings[i].id
        /\ Findings[i].track \in register[RootOf(Findings[i])].tracks
  <2> SUFFICES ASSUME NEW i \in DOMAIN Findings
               PROVE  LET r == RootOf(Findings[i])
                      IN  /\ r \in DOMAIN register
                          /\ i \in DOMAIN register[r].sources
                          /\ register[r].sources[i] = Findings[i].id
                          /\ Findings[i].track \in register[r].tracks
    OBVIOUS
  <2> DEFINE r == RootOf(Findings[i])
  <2>1. r \in DOMAIN register /\ i \in Group(Findings, r)
    BY <1>1, <1>2
  <2> HIDE DEF r
  <2>2. /\ register[r].sources = [j \in Group(Findings, r) |-> Findings[j].id]
        /\ register[r].tracks = {Findings[j].track : j \in Group(Findings, r)}
    BY <1>1, <2>1
  <2>3. QED
    BY <2>1, <2>2 DEF r
<1>4. Cardinality(SourceIds) = Cardinality(DOMAIN Findings)
  <2> DEFINE at == [i \in DOMAIN Findings |-> <<RootOf(Findings[i]), i>>]
  <2>1. \A x : x \in SourceIds <=> \E i \in DOMAIN Findings : x = <<RootOf(Findings[i]), i>>
    <3>1. \A x : x \in SourceIds <=>
            \E r \in DOMAIN register : \E i \in Group(Findings, r) : x = <<r, i>>
      <4>1. \A r \in DOMAIN register : DOMAIN register[r].sources = Group(Findings, r)
        BY <1>1
      <4>2. SourceIds = UNION {{<<r, i>> : i \in Group(Findings, r)} : r \in DOMAIN register}
        BY <4>1 DEF SourceIds
      <4>3. QED
        BY <4>2
    <3>2. \A r, i : r \in DOMAIN register /\ i \in Group(Findings, r)
                      <=> i \in DOMAIN Findings /\ r = RootOf(Findings[i])
      BY <1>1 DEF Group
    <3>3. QED
      BY <3>1, <3>2
  <2>2. at \in [DOMAIN Findings -> SourceIds]
    BY <2>1
  <2>3. at \in Bijection(DOMAIN Findings, SourceIds)
    <3>1. \A i, j \in DOMAIN Findings : at[i] = at[j] => i = j
      OBVIOUS
    <3>2. \A x \in SourceIds : \E i \in DOMAIN Findings : at[i] = x
      BY <2>1
    <3>3. QED
      <4> HIDE DEF at
      <4>1. at \in Injection(DOMAIN Findings, SourceIds)
        BY <2>2, <3>1 DEF Injection, IsInjective
      <4>2. at \in Surjection(DOMAIN Findings, SourceIds)
        BY <2>2, <3>2 DEF Surjection
      <4>3. QED
        BY <4>1, <4>2 DEF Bijection
  <2>4. ExistsBijection(DOMAIN Findings, SourceIds)
    BY <2>3 DEF ExistsBijection
  <2>5. IsFiniteSet(DOMAIN Findings)
    BY FindingsPlaces DEF RegisterInv
  <2>6. QED
    BY <2>4, <2>5, FS_Bijection
<1>5. \A i \in DOMAIN Findings : TitleRead(i) => RootOf(Findings[i]) = CitedRoot(i)
  BY ReadTitle DEF RegisterInv
<1>6. QED
  BY <1>3, <1>4, <1>5

\* The sources of the entries are the findings that were read, each once and
\* under its root, through any number of normalizations and kills.
THEOREM NoFindingLost == Spec => []NothingLost
  BY AllSourcesThere, RegisterInvariant, PTL

LEMMA PlainRankKept == RegisterInv => HighestOfPlain
<1> SUFFICES ASSUME RegisterInv, Current, NEW r \in DOMAIN register,
                    \A i \in Group(Findings, r) : Rank(Findings[i].severity) < 3
             PROVE  /\ \E i \in Group(Findings, r) : register[r].severity = Findings[i].severity
                    /\ \A i \in Group(Findings, r) :
                         Rank(register[r].severity) <= Rank(Findings[i].severity)
  BY DEF HighestOfPlain, Group
<1> DEFINE g == Group(Findings, r)
           p == Primary(Findings, g)
<1>1. r \in {RootOf(Findings[i]) : i \in DOMAIN Findings}
  BY DEF RegisterInv, RegisterOfFindings
<1>2. /\ g \subseteq Nat /\ g # {} /\ p \in g
      /\ Merged(Findings, g).severity = Findings[p].severity
  BY <1>1, MergedEntry DEF RegisterInv
<1>3. \A j \in g : Rank(Findings[p].severity) <= Rank(Findings[j].severity)
  BY <1>2, PrimaryOfGroup
<1>4. Rank(Merged(Findings, g).severity) < 3 => register[r].severity = Merged(Findings, g).severity
  BY DEF RegisterInv, RegisterOfFindings
<1>5. register[r].severity = Findings[p].severity
  BY <1>2, <1>4
<1>6. QED
  BY <1>2, <1>3, <1>5

\* An entry of findings with plain severities has the highest of them.
THEOREM HighestKept == Spec => []HighestOfPlain
  BY PlainRankKept, RegisterInvariant, PTL

LEMMA SummaryAddsUp == RegisterInv => SummaryOfRegister
<1> SUFFICES ASSUME RegisterInv, pc = "idle", script.finished
             PROVE  /\ txt = summary /\ summary.total = Cardinality(DOMAIN register)
                    /\ normalized =>
                         /\ summary.severity["BLOCKING"] + summary.severity["WARNING"]
                              + summary.severity["INFO"] = summary.total
                         /\ \A l \in Levels :
                              summary.severity[l] = Tally(register, LAMBDA e : e.severity = Plain(l))
  BY DEF SummaryOfRegister
<1>1. txt = summary /\ CountsRegister
  BY DEF RegisterInv, SummaryInStep
<1>2. summary.total = Cardinality(DOMAIN register)
      /\ \A l \in Levels :
           summary.severity[l] = Cardinality({r \in DOMAIN register : register[r].severity = Plain(l)})
  BY <1>1 DEF CountsRegister, Tally
<1>3. ASSUME normalized
      PROVE  summary.severity["BLOCKING"] + summary.severity["WARNING"]
               + summary.severity["INFO"] = summary.total
  <2> DEFINE At(l) == {r \in DOMAIN register : register[r].severity = Plain(l)}
             B == At("BLOCKING")
             W == At("WARNING")
             I == At("INFO")
  <2>1. Plain("BLOCKING") # Plain("WARNING") /\ Plain("BLOCKING") # Plain("INFO")
        /\ Plain("WARNING") # Plain("INFO")
    <3>1. \A l : Plain(l).word = l
      BY DEF Plain
    <3>2. QED
      BY <3>1
  <2>2. \A r \in DOMAIN register : \E l \in Levels : register[r].severity = Plain(l)
    BY <1>3, RankRange DEF RegisterInv, RegisterShape
  <2>3. DOMAIN register = B \cup W \cup I
    BY <2>2 DEF Levels
  <2>4. B \cap W = {} /\ (B \cup W) \cap I = {}
    BY <2>1
  <2>5. IsFiniteSet(B) /\ IsFiniteSet(W) /\ IsFiniteSet(I)
    <3>1. IsFiniteSet(DOMAIN register)
      BY DEF RegisterInv, RegisterShape
    <3>2. B \subseteq DOMAIN register /\ W \subseteq DOMAIN register /\ I \subseteq DOMAIN register
      OBVIOUS
    <3>3. QED
      BY <3>1, <3>2, FS_Subset
  <2>6. /\ summary.severity["BLOCKING"] = Cardinality(B)
        /\ summary.severity["WARNING"] = Cardinality(W)
        /\ summary.severity["INFO"] = Cardinality(I)
    BY <1>2 DEF Levels
  <2> HIDE DEF B, W, I
  <2>7. /\ Cardinality(B) \in Nat /\ Cardinality(W) \in Nat /\ Cardinality(I) \in Nat
        /\ Cardinality({}) = 0
    BY <2>5, FS_CardinalityType, FS_EmptySet
  <2>8. IsFiniteSet(B \cup W)
        /\ Cardinality(B \cup W) = Cardinality(B) + Cardinality(W) - Cardinality(B \cap W)
    BY <2>5, FS_Union
  <2>9. Cardinality((B \cup W) \cup I)
          = Cardinality(B \cup W) + Cardinality(I) - Cardinality((B \cup W) \cap I)
    BY <2>5, <2>8, FS_Union
  <2>10. Cardinality((B \cup W) \cup I) = Cardinality(B) + Cardinality(W) + Cardinality(I)
    <3>1. Cardinality(B \cap W) = 0 /\ Cardinality((B \cup W) \cap I) = 0
      BY <2>4, <2>7, Zenon
    <3>2. QED
      BY <2>7, <2>8, <2>9, <3>1
  <2>11. QED
    BY <1>2, <2>3, <2>6, <2>10
<1>4. QED
  BY <1>1, <1>3 DEF CountsRegister

\* After a script that was not killed its three files agree, and the severities
\* of a normalized register add up.
THEOREM SummaryAgrees == Spec => []SummaryOfRegister
  BY SummaryAddsUp, RegisterInvariant, PTL

LEMMA NormalizedStays ==
  RegisterInv /\ [Next]_vars => (normalized /\ normalized' => register' = register)
<1> SUFFICES ASSUME RegisterInv, [Next]_vars, normalized, normalized'
             PROVE  register' = register
  OBVIOUS
<1>1. CASE Synthesize_r4 \/ Synthesize_r5 \/ Synthesize_r6 \/ Synthesize_r7
  BY <1>1, SynthesizeAction DEF Synthesizes
<1>2. CASE Normalize_r4 \/ Normalize_r5 \/ Normalize_r6 \/ Normalize_r7
  <2>1. register' = [r \in DOMAIN register |-> OfRound(register[r])]
    BY <1>2, NormalizeAction DEF Normalizes
  <2>2. ASSUME NEW r \in DOMAIN register PROVE OfRound(register[r]) = register[r]
    <3>1. /\ IsEntry(register[r]) /\ Rank(register[r].severity) < 3
          /\ register[r].type \in {Plain(t) : t \in Types}
          /\ round # 7 => register[r].type
               = Plain(IF register[r].positive THEN "positive_verification" ELSE "issue")
      BY DEF RegisterInv, TypeOK, RegisterShape
    <3>2. QED
      BY <3>1, NormalizedTwice
  <2>3. register = [r \in DOMAIN register |-> register[r]]
    BY DEF RegisterInv, TypeOK
  <2>4. QED
    BY <2>1, <2>2, <2>3
<1>3. CASE WriteSummary \/ WriteText \/ Killed \/ EditTracks \/ UNCHANGED vars
  BY <1>3 DEF WriteSummary, WriteText, Killed, EditTracks, vars, files
<1>4. CASE KilledWriting
  BY <1>4 DEF KilledWriting
<1>5. QED
  BY <1>1, <1>2, <1>3, <1>4 DEF Next

\* A normalizer that runs again, after a kill or not, changes nothing.
THEOREM NormalizingTwice == Spec => NormalizeIdempotent
<1>1. RegisterInv /\ [Next]_vars => [normalized /\ normalized' => register' = register]_vars
  BY NormalizedStays
<1>2. QED
  BY <1>1, RegisterInvariant, PTL DEF Spec, NormalizeIdempotent

=============================================================================
