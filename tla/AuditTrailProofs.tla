-------------------------- MODULE AuditTrailProofs --------------------------
(***************************************************************************)
(* Theorems about AuditTrail for every number of runs that share the file,  *)
(* overlapping or not, and every length of the trails.                     *)
(***************************************************************************)
EXTENDS AuditTrailProps, SequenceTheorems, TLAPS

LEMMA TrailInit == Init => OrderInv
<1> SUFFICES ASSUME Init PROVE OrderInv
  OBVIOUS
<1>1. file = <<>> /\ Len(file) = 0
  BY DEF Init
<1>2. TypeOK
  <2>1. torn \in BOOLEAN /\ sequential \in BOOLEAN
    BY Zenon DEF Init
  <2>2. file \in Seq(Lines)
    BY <1>1
  <2>3. QED
    BY <2>1, <2>2 DEF Init, TypeOK, Statuses
<1>3. InOrderOnce /\ WrittenBefore
  BY <1>1 DEF InOrderOnce, WrittenBefore
<1>4. QED
  BY <1>2, <1>3 DEF Init, OrderInv

\* What a piece of the buffer does to the file.
LEMMA PutTypes ==
  ASSUME TypeOK, NEW t \in Trails, NEW whole \in BOOLEAN, Put(t, whole)
  PROVE  /\ file' \in Seq(Lines) /\ torn' \in BOOLEAN
         /\ \/ file' = file
            \/ /\ Len(file') = Len(file) + 1
               /\ \A i \in 1..Len(file) : file'[i] = file[i]
               /\ file'[Len(file) + 1] = Line(t, whole)
<1>1. Line(t, whole) \in Lines
  BY DEF Line, Lines, TypeOK
<1>2. CASE UNCHANGED <<file, torn>>
  BY <1>2 DEF TypeOK
<1>3. CASE handle[t] = "path" /\ torn
  BY <1>3 DEF Put, TypeOK
<1>4. CASE handle[t] = "path" /\ ~torn
  <2>1. file' = Append(file, Line(t, whole)) /\ torn' = ~whole
    BY <1>4 DEF Put
  <2>2. file \in Seq(Lines)
    BY DEF TypeOK
  <2>3. QED
    BY <1>1, <2>1, <2>2
<1>5. QED
  BY <1>2, <1>3, <1>4 DEF Put, TypeOK

\* Putting the next line keeps the order of the lines.
LEMMA PutOrder ==
  ASSUME OrderInv, NEW t \in Trails, NEW whole \in BOOLEAN, Put(t, whole),
         written' = [written EXCEPT ![t] = @ + 1] \/ (written' = written /\ ~whole)
  PROVE  InOrderOnce' /\ WrittenBefore'
<1> USE DEF OrderInv
<1>1. \A u \in Trails : written[u] \in Nat /\ written'[u] \in Nat /\ written[u] <= written'[u]
  <2>0. written \in [Trails -> Nat]
    BY DEF TypeOK
  <2>1. CASE written' = written
    BY <2>0, <2>1
  <2>2. CASE written' = [written EXCEPT ![t] = @ + 1]
    BY <2>0, <2>2
  <2>3. QED
    BY <2>1, <2>2
<1>2. \A i \in 1..Len(file) : file[i] \in Lines
  BY DEF TypeOK
<1>3. CASE file' = file
  <2>1. InOrderOnce'
    BY <1>3 DEF InOrderOnce
  <2>2. WrittenBefore'
    BY <1>1, <1>2, <1>3 DEF WrittenBefore, Lines
  <2>3. QED
    BY <2>1, <2>2
<1>4. CASE file' # file
  <2>a. Len(file) \in Nat
    BY DEF TypeOK
  <2>b. /\ Len(file') = Len(file) + 1
        /\ \A i \in 1..Len(file) : file'[i] = file[i]
        /\ file'[Len(file) + 1] = Line(t, whole)
    BY <1>4, PutTypes, Zenon
  <2> DEFINE n == Len(file)
  <2>1. /\ Len(file') = n + 1 /\ n \in Nat
        /\ \A i \in 1..n : file'[i] = file[i]
        /\ file'[n + 1] = Line(t, whole)
    BY <2>a, <2>b, Zenon
  <2> HIDE DEF n
  <2>2. /\ Line(t, whole).trail = t /\ Line(t, whole).seq = written[t]
        /\ Line(t, whole).whole = whole
    BY DEF Line
  <2>3. InOrderOnce'
    <3> SUFFICES ASSUME NEW i \in 1..(n + 1), NEW j \in 1..(n + 1), i < j,
                        file'[i].trail = file'[j].trail, file'[i].whole, file'[j].whole
                 PROVE  file'[i].seq < file'[j].seq
      BY <2>1 DEF InOrderOnce
    <3>1. i \in 1..n /\ file'[i] = file[i]
      BY <2>1
    <3>2. CASE j \in 1..n
      BY <2>1, <3>1, <3>2 DEF InOrderOnce, n
    <3>3. CASE j = n + 1
      <4>1. file[i].trail = t
        BY <2>1, <2>2, <3>1, <3>3
      <4>2. file[i].seq < written[t]
        BY <3>1, <4>1 DEF WrittenBefore, n
      <4>3. QED
        BY <2>1, <2>2, <3>1, <3>3, <4>2
    <3>4. QED
      BY <2>1, <3>2, <3>3
  <2>4. WrittenBefore'
    <3> SUFFICES ASSUME NEW i \in 1..(n + 1), file'[i].whole
                 PROVE  file'[i].seq < written'[file'[i].trail]
      BY <2>1 DEF WrittenBefore
    <3>1. CASE i \in 1..n
      <4>1. file[i].seq < written[file[i].trail] /\ file[i].trail \in Trails /\ file[i].seq \in Nat
        BY <1>2, <2>1, <3>1 DEF WrittenBefore, Lines, n
      <4>2. QED
        BY <1>1, <2>1, <3>1, <4>1
    <3>2. CASE i = n + 1
      <4>1. whole
        BY <2>1, <2>2, <3>2
      <4>2. written'[t] = written[t] + 1
        BY <4>1 DEF TypeOK
      <4>3. QED
        BY <1>1, <2>1, <2>2, <3>2, <4>2
    <3>3. QED
      BY <2>1, <3>1, <3>2
  <2>5. QED
    BY <2>3, <2>4
<1>5. QED
  BY <1>3, <1>4

LEMMA CutShortOrder ==
  ASSUME OrderInv, NEW t \in Trails, CutShort(t), written' = written
  PROVE  /\ file' \in Seq(Lines) /\ torn' \in BOOLEAN /\ sequential' \in BOOLEAN
         /\ handle' \in [Trails -> {"closed", "path", "unlinked"}]
         /\ InOrderOnce' /\ WrittenBefore'
<1>1. handle' \in [Trails -> {"closed", "path", "unlinked"}]
  BY DEF CutShort, OrderInv, TypeOK
<1>2. sequential' \in BOOLEAN
  BY DEF CutShort, OrderInv, TypeOK
<1>3. CASE UNCHANGED <<file, torn>>
  BY <1>1, <1>2, <1>3 DEF OrderInv, TypeOK, InOrderOnce, WrittenBefore
<1>4. CASE Put(t, FALSE)
  BY <1>1, <1>2, <1>4, PutTypes, PutOrder DEF OrderInv
<1>5. QED
  BY <1>3, <1>4 DEF CutShort

LEMMA TrailStep ==
  ASSUME ~Reflush, OrderInv, [Next]_vars
  PROVE  OrderInv'
<1> USE DEF OrderInv, Statuses
<1>0. ASSUME NEW t \in Trails, Construct(t)
      PROVE  sequential' \in BOOLEAN
  BY <1>0, Zenon DEF Construct
<1>1. CASE UNCHANGED vars
  BY <1>1 DEF vars, TypeOK, InOrderOnce, WrittenBefore
<1>2. ASSUME NEW t \in Trails, Construct(t)
      PROVE  OrderInv'
  <2>1. CASE UNCHANGED <<file, torn, handle>>
    <3>1. InOrderOnce' /\ WrittenBefore'
      BY <1>2, <2>1 DEF Construct, InOrderOnce, WrittenBefore
    <3>2. TypeOK'
      BY <1>0, <1>2, <2>1 DEF Construct, TypeOK
    <3>3. (\A u \in Trails : status[u] \in {"none", "live"} => written[u] = flushed[u])'
      BY <1>2 DEF Construct, TypeOK
    <3>4. QED
      BY <3>1, <3>2, <3>3
  <2>2. CASE /\ file' = <<>> /\ torn' = FALSE
             /\ handle' = [u \in Trails |-> IF handle[u] = "path" THEN "unlinked" ELSE handle[u]]
    <3>1. TypeOK'
      <4>a. torn' \in BOOLEAN
        BY <2>2, Zenon
      <4>b. file' \in Seq(Lines)
        BY <2>2
      <4>1. file' \in Seq(Lines) /\ torn' \in BOOLEAN
        BY <4>a, <4>b
      <4>2. handle' \in [Trails -> {"closed", "path", "unlinked"}]
        BY <2>2 DEF TypeOK
      <4>3. QED
        BY <1>0, <1>2, <4>1, <4>2 DEF Construct, TypeOK
    <3>2. InOrderOnce' /\ WrittenBefore'
      <4>1. Len(file') = 0
        BY <2>2
      <4>2. QED
        BY <4>1 DEF InOrderOnce, WrittenBefore
    <3>3. (\A u \in Trails : status[u] \in {"none", "live"} => written[u] = flushed[u])'
      BY <1>2 DEF Construct, TypeOK
    <3>4. QED
      BY <3>1, <3>2, <3>3
  <2>3. QED
    BY <1>2, <2>1, <2>2 DEF Construct
<1>3. ASSUME NEW t \in Trails, AppendRecord(t)
      PROVE  OrderInv'
  BY <1>3 DEF AppendRecord, TypeOK, InOrderOnce, WrittenBefore
<1>4. ASSUME NEW t \in Trails, BeginFlush(t)
      PROVE  OrderInv'
  <2>1. status[t] = "live" /\ written[t] = flushed[t]
    BY <1>4 DEF BeginFlush
  <2>2. written' = written
    BY <1>4, <2>1 DEF BeginFlush, TypeOK
  <2>3. QED
    BY <1>4, <2>2 DEF BeginFlush, TypeOK, InOrderOnce, WrittenBefore
<1>5. ASSUME NEW t \in Trails, WriteLine(t)
      PROVE  OrderInv'
  <2>1. file' \in Seq(Lines) /\ torn' \in BOOLEAN
    BY <1>5, PutTypes DEF WriteLine
  <2>2. InOrderOnce' /\ WrittenBefore'
    BY <1>5, PutOrder DEF WriteLine
  <2>3. TypeOK'
    BY <1>5, <2>1 DEF WriteLine, TypeOK
  <2>4. QED
    BY <1>5, <2>2, <2>3 DEF WriteLine, TypeOK
<1>6. ASSUME NEW t \in Trails, EndFlush(t)
      PROVE  OrderInv'
  <2>1. TypeOK'
    BY <1>6 DEF EndFlush, TypeOK
  <2>2. InOrderOnce' /\ WrittenBefore'
    BY <1>6 DEF EndFlush, InOrderOnce, WrittenBefore
  <2>3. QED
    BY <1>6, <2>1, <2>2 DEF EndFlush, TypeOK
<1>7. ASSUME NEW t \in Trails, FlushRaises(t)
      PROVE  OrderInv'
  <2>1. CutShort(t) /\ UNCHANGED <<appended, flushed, written>>
    BY <1>7 DEF FlushRaises
  <2>2. QED
    BY <1>7, <2>1, CutShortOrder DEF FlushRaises, TypeOK
<1>8. ASSUME NEW t \in Trails, Exit(t)
      PROVE  OrderInv'
  <2>1. UNCHANGED <<appended, flushed, written>> /\ status' = [status EXCEPT ![t] = "dead"]
    BY <1>8 DEF Exit
  <2>2. CASE CutShort(t)
    BY <2>1, <2>2, CutShortOrder DEF TypeOK
  <2>3. CASE UNCHANGED <<handle, file, torn, sequential>>
    BY <2>1, <2>3 DEF TypeOK, InOrderOnce, WrittenBefore
  <2>4. QED
    BY <1>8, <2>2, <2>3 DEF Exit
<1>9. QED
  BY <1>1, <1>2, <1>3, <1>4, <1>5, <1>6, <1>7, <1>8 DEF Next

\* A trail that is not flushed again after an error keeps the records of each
\* run in order and writes none twice, with any number of runs on the file.
THEOREM OrderKept ==
  ASSUME ~Reflush
  PROVE  Spec => []InOrderOnce
<1>1. OrderInv /\ [Next]_vars => OrderInv'
  BY TrailStep
<1>2. OrderInv => InOrderOnce
  BY DEF OrderInv
<1>3. QED
  BY TrailInit, <1>1, <1>2, PTL DEF Spec

-----------------------------------------------------------------------------
\* A piece of the buffer is put behind what is in the file.
LEMMA PutKeeps ==
  ASSUME TypeOK, NEW t \in Trails, NEW whole \in BOOLEAN, Put(t, whole)
  PROVE  /\ Len(file) \in Nat /\ Len(file') \in Nat /\ Len(file) <= Len(file')
         /\ \A i \in 1..Len(file) : file'[i] = file[i]
<1>1. Len(file) \in Nat
  BY DEF TypeOK
<1>2. CASE file' = file
  BY <1>1, <1>2
<1>3. CASE /\ Len(file') = Len(file) + 1
           /\ \A i \in 1..Len(file) : file'[i] = file[i]
  BY <1>1, <1>3
<1>4. QED
  BY <1>2, <1>3, PutTypes

\* What a file starts with stays when lines are only added.
LEMMA StartKept ==
  ASSUME NEW u \in Trails, NEW n \in Nat, StartsWith(u, n),
         Len(file) \in Nat, Len(file') \in Nat, Len(file) <= Len(file'),
         \A i \in 1..Len(file) : file'[i] = file[i]
  PROVE  n <= Len(file') /\ \A i \in 1..n : IsRecord(i, u, i - 1)'
<1>1. n <= Len(file')
  BY DEF StartsWith
<1>2. ASSUME NEW i \in 1..n
      PROVE  IsRecord(i, u, i - 1)'
  <2>1. i \in 1..Len(file) /\ IsRecord(i, u, i - 1)
    BY DEF StartsWith
  <2>2. file'[i] = file[i]
    BY <2>1
  <2>3. QED
    BY <2>1, <2>2, Zenon DEF IsRecord
<1>3. QED
  BY <1>1, <1>2

LEMMA FileInit == Init => FileInv
<1> SUFFICES ASSUME Init PROVE FileInv
  OBVIOUS
<1>1. \A t \in Trails : status[t] = "none" /\ appended[t] = 0
  BY DEF Init
<1>2. QED
  BY <1>1 DEF FileInv, Active

\* A flush that is cut short leaves the lines of the earlier ones.
LEMMA CutShortKeeps ==
  ASSUME OrderInv, OrderInv', FileInv, NEW t \in Trails, CutShort(t), NEW s \in {"raised", "dead"},
         UNCHANGED <<appended, flushed, written>>, status' = [status EXCEPT ![t] = s]
  PROVE  FileInv'
<1>1. TypeOK /\ status[t] = "flushing" /\ UNCHANGED sequential
  BY DEF OrderInv, CutShort
<1>2. \A u \in Trails : /\ status'[u] = IF u = t THEN s ELSE status[u]
                        /\ flushed[u] \in Nat /\ flushed'[u] = flushed[u]
  BY <1>1 DEF TypeOK
<1>3. (\A u \in Trails : status[u] = "none" => appended[u] = 0)'
  BY <1>2 DEF FileInv
<1>4. ASSUME sequential'
      PROVE  /\ \A u, v \in Trails : status'[u] \in Active /\ status'[v] \in Active => u = v
             /\ \A u \in Trails : status'[u] \notin {"live", "flushing"}
  <2>1. \A u \in Trails : status[u] \in Active => u = t
    BY <1>1, <1>4 DEF FileInv, Active
  <2>2. QED
    BY <1>2, <2>1 DEF Active
<1>5. ASSUME sequential', NEW u \in Trails, status'[u] \in Active
      PROVE  StartsWith(u, flushed[u])'
  <2>1. StartsWith(u, flushed[u])
    BY <1>1, <1>2, <1>5 DEF FileInv, Active
  <2>2. CASE UNCHANGED <<file, torn>>
    BY <2>1, <2>2 DEF StartsWith, IsRecord
  <2>3. CASE Put(t, FALSE)
    <3>1. flushed[u] \in Nat /\ flushed'[u] = flushed[u]
      BY <1>2
    <3>2. /\ Len(file) \in Nat /\ Len(file') \in Nat /\ Len(file) <= Len(file')
          /\ \A i \in 1..Len(file) : file'[i] = file[i]
      BY <1>1, <2>3, PutKeeps
    <3>3. flushed[u] <= Len(file') /\ \A i \in 1..flushed[u] : IsRecord(i, u, i - 1)'
      BY <2>1, <3>1, <3>2, StartKept
    <3>4. QED
      BY <3>1, <3>3 DEF StartsWith
  <2>4. QED
    BY <2>2, <2>3 DEF CutShort
<1>6. QED
  BY <1>3, <1>4, <1>5 DEF FileInv

LEMMA FileStep ==
  ASSUME ~Reflush, OrderInv, OrderInv', FileInv, [Next]_vars
  PROVE  FileInv'
<1>0. TypeOK /\ \A u \in Trails : status[u] = "none" => flushed[u] = 0 /\ written[u] = 0
  BY DEF OrderInv, TypeOK, FileInv
<1>1. CASE UNCHANGED vars
  BY <1>1 DEF vars, FileInv, StartsWith, IsRecord
<1>2. ASSUME NEW t \in Trails, Construct(t)
      PROVE  FileInv'
  <2>1. /\ status[t] = "none" /\ UNCHANGED <<appended, flushed, written>>
        /\ \A u \in Trails : status'[u] = IF u = t THEN "live" ELSE status[u]
    BY <1>0, <1>2 DEF Construct, TypeOK
  <2>2. (\A u \in Trails : status[u] = "none" => appended[u] = 0)'
    BY <2>1 DEF FileInv
  <2>3. CASE ~sequential'
    BY <2>2, <2>3 DEF FileInv
  <2>4. CASE sequential'
    <3>1. Alone /\ file' = <<>> /\ torn' = FALSE
      BY <1>2, <2>4, Zenon DEF Construct
    <3>2. \A u \in Trails : status'[u] \in Active => u = t /\ status'[u] = "live"
      BY <2>1, <3>1 DEF Alone, Active
    <3>3. flushed'[t] = 0 /\ written'[t] = 0 /\ Len(file') = 0 /\ ~torn'
      BY <1>0, <2>1, <3>1
    <3>4. StartsWith(t, flushed[t])' /\ StartsWith(t, written[t])'
      BY <3>3 DEF StartsWith
    <3>5. QED
      BY <2>2, <3>2, <3>3, <3>4 DEF FileInv, Active
  <2>5. QED
    BY <2>3, <2>4
<1>3. ASSUME NEW t \in Trails, AppendRecord(t)
      PROVE  FileInv'
  BY <1>0, <1>3 DEF AppendRecord, FileInv, StartsWith, IsRecord, TypeOK
<1>4. ASSUME NEW t \in Trails, BeginFlush(t)
      PROVE  FileInv'
  <2>1. status[t] = "live" /\ written[t] = flushed[t]
    BY <1>4 DEF BeginFlush, OrderInv
  <2>2. /\ UNCHANGED <<appended, flushed, written, file, torn, sequential>>
        /\ \A u \in Trails : status'[u] = IF u = t THEN "flushing" ELSE status[u]
        /\ \A u \in Trails : handle'[u] = IF u = t THEN "path" ELSE handle[u]
    BY <1>0, <1>4, <2>1 DEF BeginFlush, TypeOK
  <2>3. QED
    BY <2>1, <2>2 DEF FileInv, Active, StartsWith, IsRecord
<1>5. ASSUME NEW t \in Trails, WriteLine(t)
      PROVE  FileInv'
  <2>1. /\ status[t] = "flushing" /\ Put(t, TRUE)
        /\ UNCHANGED <<status, appended, flushed, handle, sequential>>
        /\ written' = [written EXCEPT ![t] = @ + 1]
    BY <1>5 DEF WriteLine
  <2>2. (\A u \in Trails : status[u] = "none" => appended[u] = 0)'
    BY <2>1 DEF FileInv
  <2>3. CASE ~sequential'
    BY <2>2, <2>3 DEF FileInv
  <2>4. CASE sequential'
    <3>1. /\ \A u \in Trails : status[u] \in Active => u = t
          /\ handle[t] = "path" /\ ~torn /\ Len(file) = written[t]
          /\ StartsWith(t, flushed[t]) /\ StartsWith(t, written[t])
      BY <2>1, <2>4 DEF FileInv, Active
    <3>2. file' = Append(file, Line(t, TRUE)) /\ ~torn'
      BY <2>1, <3>1 DEF Put
    <3>3. file \in Seq(Lines) /\ written[t] \in Nat /\ written'[t] = written[t] + 1
          /\ flushed[t] \in Nat
      BY <1>0, <2>1 DEF TypeOK
    <3>4. \A i \in 1..Len(file) : file'[i] = file[i]
      BY <1>0, <2>1, PutKeeps
    <3>5. Len(file') = written'[t]
      BY <3>1, <3>2, <3>3
    <3>6. file' # file
      BY <3>1, <3>3, <3>5
    <3>7. Len(file') = written'[t] /\ file'[Len(file) + 1] = Line(t, TRUE)
      BY <1>0, <2>1, <3>5, <3>6, PutTypes, Zenon
    <3>8. flushed[t] <= Len(file') /\ \A i \in 1..flushed[t] : IsRecord(i, t, i - 1)'
      BY <3>1, <3>3, <3>4, <3>5, StartKept
    <3>9. StartsWith(t, flushed[t])'
      <4>1. flushed'[t] = flushed[t]
        BY <2>1
      <4>2. QED
        BY <3>8, <4>1 DEF StartsWith
    <3>10. ASSUME NEW i \in 1..written'[t]
          PROVE  IsRecord(i, t, i - 1)'
      <4>1. CASE i \in 1..written[t]
        BY <3>1, <3>3, <3>4, <4>1 DEF StartsWith, IsRecord
      <4>2. CASE i = written[t] + 1
        BY <3>1, <3>3, <3>7, <4>2 DEF Line, IsRecord
      <4>3. QED
        BY <3>3, <4>1, <4>2
    <3>11. StartsWith(t, written[t])'
      BY <3>3, <3>7, <3>10 DEF StartsWith
    <3>12. QED
      BY <2>1, <2>2, <3>1, <3>2, <3>9, <3>7, <3>11 DEF FileInv, Active
  <2>5. QED
    BY <2>3, <2>4
<1>6. ASSUME NEW t \in Trails, EndFlush(t)
      PROVE  FileInv'
  <2>1. /\ status[t] = "flushing" /\ written[t] = appended[t]
        /\ UNCHANGED <<appended, written, file, torn, sequential>>
        /\ \A u \in Trails : status'[u] = IF u = t THEN "live" ELSE status[u]
        /\ \A u \in Trails : flushed'[u] = IF u = t THEN written[t] ELSE flushed[u]
        /\ \A u \in Trails : handle'[u] = IF u = t THEN "closed" ELSE handle[u]
    BY <1>0, <1>6 DEF EndFlush, TypeOK
  <2>2. QED
    BY <2>1 DEF FileInv, Active, StartsWith, IsRecord
<1>7. ASSUME NEW t \in Trails, FlushRaises(t)
      PROVE  FileInv'
  BY <1>7, CutShortKeeps DEF FlushRaises
<1>8. ASSUME NEW t \in Trails, Exit(t)
      PROVE  FileInv'
  <2>1. UNCHANGED <<appended, flushed, written>> /\ status' = [status EXCEPT ![t] = "dead"]
    BY <1>8 DEF Exit
  <2>2. CASE CutShort(t)
    BY <2>1, <2>2, CutShortKeeps
  <2>3. CASE UNCHANGED <<handle, file, torn, sequential>>
    <3>1. \A u \in Trails : status'[u] = IF u = t THEN "dead" ELSE status[u]
      BY <1>0, <2>1 DEF TypeOK
    <3>2. QED
      BY <2>1, <2>3, <3>1 DEF FileInv, Active, StartsWith, IsRecord
  <2>4. QED
    BY <1>8, <2>2, <2>3 DEF Exit
<1>9. QED
  BY <1>1, <1>2, <1>3, <1>4, <1>5, <1>6, <1>7, <1>8 DEF Next

\* The order of the lines and the extent of the finished flushes, together.
THEOREM TrailInvariant ==
  ASSUME ~Reflush
  PROVE  Spec => []TrailInv
<1>1. Init => TrailInv
  BY TrailInit, FileInit DEF TrailInv
<1>2. TrailInv /\ [Next]_vars => TrailInv'
  BY TrailStep, FileStep DEF TrailInv
<1>3. QED
  BY <1>1, <1>2, PTL DEF Spec

\* The variables keep their types, and no more is flushed than written, nor
\* written than appended.
THEOREM TrailTypes ==
  ASSUME ~Reflush
  PROVE  Spec => []TypeOK
<1>1. TrailInv => TypeOK
  BY DEF TrailInv, OrderInv
<1>2. QED
  BY <1>1, TrailInvariant, PTL

\* Runs that follow each other find every record that a flush reported as
\* persisted in the file, also after a later flush raised.
THEOREM Persistent ==
  ASSUME ~Reflush
  PROVE  Spec => []FlushedOnDisk
<1>1. ASSUME OrderInv, FileInv, sequential, NEW t \in Trails,
             status[t] \in {"live", "flushing", "raised"}, NEW n \in 0..(flushed[t] - 1)
      PROVE  \E i \in 1..Len(file) : IsRecord(i, t, n)
  <2>1. StartsWith(t, flushed[t]) /\ flushed[t] \in Nat /\ Len(file) \in Nat
    BY <1>1 DEF FileInv, Active, OrderInv, TypeOK
  <2>2. n + 1 \in 1..flushed[t] /\ n + 1 \in 1..Len(file) /\ (n + 1) - 1 = n
    BY <2>1 DEF StartsWith
  <2>3. IsRecord(n + 1, t, n)
    BY <2>1, <2>2 DEF StartsWith
  <2>4. QED
    BY <2>2, <2>3
<1>2. TrailInv => FlushedOnDisk
  BY <1>1 DEF TrailInv, FlushedOnDisk
<1>3. QED
  BY <1>2, TrailInvariant, PTL

\* And a file whose run met no error is that run's trail, and readable.
THEOREM Readable ==
  ASSUME ~Reflush
  PROVE  Spec => []FinishedTrailReadable
<1>1. ASSUME OrderInv, FileInv, sequential, NEW t \in Trails, status[t] = "live"
      PROVE  /\ \A i \in 1..Len(file) : file[i].whole
             /\ Len(file) = flushed[t]
             /\ ~torn
  <2>1. ~torn /\ Len(file) = written[t] /\ StartsWith(t, written[t]) /\ written[t] = flushed[t]
    BY <1>1 DEF FileInv, OrderInv
  <2>2. \A i \in 1..Len(file) : file[i].whole
    BY <2>1 DEF StartsWith, IsRecord
  <2>3. QED
    BY <2>1, <2>2
<1>2. TrailInv => FinishedTrailReadable
  BY <1>1 DEF TrailInv, FinishedTrailReadable
<1>3. QED
  BY <1>2, TrailInvariant, PTL
=============================================================================
