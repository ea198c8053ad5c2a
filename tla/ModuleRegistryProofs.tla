------------------------ MODULE ModuleRegistryProofs ------------------------
(***************************************************************************)
(* Theorems about the module registry for every set of languages and of    *)
(* modules: the index and the modules agree, and a pair that is served by   *)
(* a module of its own direction goes on being served by it.               *)
(***************************************************************************)
EXTENDS ModuleRegistryProps, SequenceTheorems, WellFoundedInduction, TLAPS

\* IndexLeadsToModules for the language modules alone, which is inductive: a
\* domain module of the right name and direction would not keep the entry.
IndexLeadsToLanguages ==
    \A d \in Directions : directions[d] # None =>
        \/ \E k \in DOMAIN modules :
             /\ modules[k].kind = "language"
             /\ modules[k].name = directions[d] /\ Strip(modules[k].direction) = d
        \/ \E m \in retired :
             m.name = directions[d] /\ Strip(m.direction) = d /\ m.direction.pad

RegistryInv == TypeOK /\ NamesUnique /\ RegisteredAreIndexed /\ IndexLeadsToLanguages

-----------------------------------------------------------------------------
(* Directions. *)

LEMMA StripTypes ==
  \A d \in Directions \cup {NoDirection} :
     /\ Strip(d) \in Directions \cup {NoDirection}
     /\ ~d.pad => Strip(d) = d
     /\ Strip(d).pad = FALSE
<1>1. ASSUME NEW d \in Directions
      PROVE  /\ Strip(d) \in Directions
             /\ d.pad = FALSE => Strip(d) = d
             /\ Strip(d).pad = FALSE
             /\ d.pad \in BOOLEAN
  BY <1>1 DEF Directions, Strip
<1>2. Strip(NoDirection) = NoDirection /\ NoDirection.pad = FALSE
  BY DEF NoDirection, Strip
<1>3. QED
  BY <1>1, <1>2

LEMMA ModuleTypes ==
  \A m \in Modules :
     /\ m.direction \in Directions \cup {NoDirection}
     /\ Strip(m.direction) \in Directions \cup {NoDirection}
     /\ m.name # None
     /\ m.kind \in {"language", "domain"}
  BY RegistryAssumption, StripTypes DEF ModuleRecords

\* Removing a position keeps the others, in their order.
LEMMA WithoutFacts ==
  ASSUME NEW ms \in Seq(Modules), NEW k \in DOMAIN ms
  PROVE  /\ Without(ms, k) \in Seq(Modules)
         /\ Len(Without(ms, k)) = Len(ms) - 1
         /\ \A i \in 1..(Len(ms) - 1) :
               Without(ms, k)[i] = IF i < k THEN ms[i] ELSE ms[i + 1]
<1> DEFINE before == SubSeq(ms, 1, k - 1)
           after == SubSeq(ms, k + 1, Len(ms))
<1>1. k \in 1..Len(ms) /\ Len(ms) \in Nat
  OBVIOUS
<1>2. /\ before \in Seq(Modules)
      /\ Len(before) = k - 1
      /\ \A i \in 1..(k - 1) : before[i] = ms[i]
  BY <1>1
<1>3. /\ after \in Seq(Modules)
      /\ Len(after) = Len(ms) - k
      /\ \A i \in 1..(Len(ms) - k) : after[i] = ms[k + i]
  BY <1>1
<1>4. Without(ms, k) = before \o after
  BY DEF Without
<1> HIDE DEF before, after
<1>5. /\ before \o after \in Seq(Modules)
      /\ Len(before \o after) = Len(before) + Len(after)
      /\ \A i \in 1..(Len(before) + Len(after)) :
            (before \o after)[i] = IF i <= Len(before) THEN before[i]
                                    ELSE after[i - Len(before)]
  BY <1>2, <1>3, ConcatProperties
<1>6. ASSUME NEW i \in 1..(Len(ms) - 1)
      PROVE  Without(ms, k)[i] = IF i < k THEN ms[i] ELSE ms[i + 1]
  <2>1. i \in 1..(Len(before) + Len(after))
    BY <1>1, <1>2, <1>3, <1>6
  <2>2. CASE i < k
    <3>1. i <= Len(before) /\ i \in 1..(k - 1)
      BY <1>1, <1>2, <2>2
    <3>2. QED
      BY <1>2, <1>4, <1>5, <2>1, <2>2, <3>1
  <2>3. CASE ~(i < k)
    <3>1. /\ ~(i <= Len(before)) /\ i - Len(before) \in 1..(Len(ms) - k)
          /\ k + (i - Len(before)) = i + 1
      BY <1>1, <1>2, <2>3
    <3>2. QED
      BY <1>3, <1>4, <1>5, <2>1, <2>3, <3>1
  <2>4. QED
    BY <2>2, <2>3
<1>7. Without(ms, k) \in Seq(Modules)
  BY <1>4, <1>5
<1>8. Len(Without(ms, k)) = Len(ms) - 1
  <2>1. Len(Without(ms, k)) = Len(before) + Len(after)
    BY <1>4, <1>5
  <2>2. QED
    BY ONLY <1>1, <1>2, <1>3, <2>1
<1>9. QED
  BY ONLY <1>6, <1>7, <1>8

LEMMA NameOfPosition ==
  ASSUME NEW ms, NEW k \in DOMAIN ms
  PROVE  ms[k].name \in Names(ms)
  BY DEF Names

-----------------------------------------------------------------------------
(* The initial registries. *)

LEMMA ZHENFacts ==
  /\ ZHEN \in Modules
  /\ ZHEN.kind = "language"
  /\ ZHEN.direction \in Directions
  /\ ~ZHEN.direction.pad
  /\ Strip(ZHEN.direction) = ZHEN.direction
  /\ ZHEN.name # None
<1>1. ZHEN \in Modules /\ ZHEN.kind = "language" /\ ~ZHEN.direction.pad
  BY RegistryAssumption DEF ZHEN
<1>2. ZHEN.direction \in Directions
  BY RegistryAssumption DEF ZHEN, Directions
<1>3. QED
  BY <1>1, <1>2, StripTypes, RegistryAssumption

LEMMA InitModules == Init => modules = << >> \/ modules = <<ZHEN>>
  BY DEF Init, DefaultModules, ScopedModules

LEMMA RegistryInit == Init => RegistryInv
<1>1. SUFFICES ASSUME Init PROVE RegistryInv
  OBVIOUS
<1>2. /\ retired = {}
      /\ directions = IndexOf(modules)
  BY <1>1 DEF Init
<1>3. CASE modules = << >>
  <2>1. \A d \in Directions \cup {NoDirection} : directions[d] = None
    BY <1>2, <1>3 DEF IndexOf
  <2>2. directions \in [Directions \cup {NoDirection} -> {m.name : m \in Modules} \cup {None}]
    BY <1>2, <1>3 DEF IndexOf
  <2>3. QED
    BY <1>2, <1>3, <2>1, <2>2
       DEF RegistryInv, TypeOK, NamesUnique, RegisteredAreIndexed, IndexLeadsToLanguages
<1>4. CASE modules = <<ZHEN>>
  <2>1. Len(modules) = 1 /\ DOMAIN modules = {1} /\ modules[1] = ZHEN
    BY <1>4
  <2>2. \A d \in Directions \cup {NoDirection} :
           directions[d] = IF ZHEN.direction = d THEN ZHEN.name ELSE None
    BY <1>2, <2>1, ZHENFacts DEF IndexOf
  <2>3. directions \in [Directions \cup {NoDirection} -> {m.name : m \in Modules} \cup {None}]
    <3>1. DOMAIN directions = Directions \cup {NoDirection}
      BY <1>2 DEF IndexOf
    <3>2. directions = [d \in DOMAIN directions |-> directions[d]]
      BY <1>2 DEF IndexOf
    <3>3. ZHEN.name \in {m.name : m \in Modules}
      BY ZHENFacts
    <3>4. QED
      BY <2>2, <3>1, <3>2, <3>3
  <2>4. TypeOK
    BY <1>2, <1>4, <2>3, ZHENFacts DEF TypeOK
  <2>5. NamesUnique
    BY <2>1 DEF NamesUnique
  <2>6. RegisteredAreIndexed
    BY <2>1, <2>2, ZHENFacts DEF RegisteredAreIndexed
  <2>7. IndexLeadsToLanguages
    BY <2>1, <2>2, ZHENFacts DEF IndexLeadsToLanguages
  <2>8. QED
    BY <2>4, <2>5, <2>6, <2>7 DEF RegistryInv
<1>5. QED
  BY <1>1, <1>3, <1>4, InitModules

-----------------------------------------------------------------------------
(* register *)

LEMMA RegisterStep ==
  ASSUME RegistryInv, NEW m \in Modules, Accepted(modules, directions, m), Register(m)
  PROVE  RegistryInv'
<1>1. /\ modules' = Append(modules, m)
      /\ directions' = IF m.kind = "language"
                       THEN [directions EXCEPT ![Strip(m.direction)] = m.name]
                       ELSE directions
      /\ retired' = retired
  BY DEF Register, vars
<1>2. /\ modules \in Seq(Modules)
      /\ directions \in [Directions \cup {NoDirection} -> {n.name : n \in Modules} \cup {None}]
      /\ retired \subseteq Modules
  BY DEF RegistryInv, TypeOK
<1>3. /\ modules' \in Seq(Modules)
      /\ Len(modules') = Len(modules) + 1
      /\ modules'[Len(modules) + 1] = m
      /\ \A k \in 1..Len(modules) : modules'[k] = modules[k]
  BY <1>1, <1>2
<1>4. \A k \in 1..Len(modules) : modules[k].name # m.name /\ modules[k] \in Modules
  BY <1>2, NameOfPosition DEF Accepted, NameTaken
<1>5. Len(modules) \in Nat
  BY <1>2
<1>6. TypeOK'
  <2>1. directions' \in [Directions \cup {NoDirection} -> {n.name : n \in Modules} \cup {None}]
    BY <1>1, <1>2, ModuleTypes
  <2>2. QED
    BY <1>1, <1>2, <1>3, <2>1 DEF TypeOK
<1>7. NamesUnique'
  BY <1>3, <1>4, <1>5 DEF RegistryInv, NamesUnique
<1>8. RegisteredAreIndexed'
  <2>1. SUFFICES ASSUME NEW k \in 1..(Len(modules) + 1), modules'[k].kind = "language"
                 PROVE  directions'[Strip(modules'[k].direction)] = modules'[k].name
    BY <1>3 DEF RegisteredAreIndexed
  <2>2. CASE k = Len(modules) + 1
    BY <1>1, <1>2, <1>3, <2>1, <2>2, ModuleTypes
  <2>3. CASE k \in 1..Len(modules)
    <3>1. /\ directions[Strip(modules[k].direction)] = modules[k].name
          /\ directions[Strip(modules[k].direction)] # None
      BY <1>3, <1>4, <2>1, <2>3, ModuleTypes DEF RegistryInv, RegisteredAreIndexed
    <3>2. m.kind = "language" => Strip(m.direction) # Strip(modules[k].direction)
      BY <3>1 DEF Accepted, DirectionTaken
    <3>3. QED
      BY <1>1, <1>2, <1>3, <1>4, <2>3, <3>1, <3>2, ModuleTypes
  <2>4. QED
    BY <1>5, <2>2, <2>3
<1>9. IndexLeadsToLanguages'
  <2>1. SUFFICES ASSUME NEW d \in Directions, directions'[d] # None
                 PROVE  \/ \E k \in DOMAIN modules' :
                             /\ modules'[k].kind = "language"
                             /\ modules'[k].name = directions'[d]
                             /\ Strip(modules'[k].direction) = d
                        \/ \E n \in retired' :
                             n.name = directions'[d] /\ Strip(n.direction) = d /\ n.direction.pad
    BY DEF IndexLeadsToLanguages
  <2>2. CASE m.kind = "language" /\ Strip(m.direction) = d
    <3>1. directions'[d] = m.name /\ Len(modules) + 1 \in DOMAIN modules'
      BY <1>1, <1>2, <1>3, <1>5, <2>2
    <3>2. QED
      BY <1>3, <2>2, <3>1
  <2>3. CASE ~(m.kind = "language" /\ Strip(m.direction) = d)
    <3>1. directions'[d] = directions[d]
      BY <1>1, <1>2, <2>3
    <3>2. \A k \in DOMAIN modules : k \in DOMAIN modules' /\ modules'[k] = modules[k]
      BY <1>2, <1>3, <1>5
    <3>3. QED
      BY <1>1, <2>1, <3>1, <3>2 DEF RegistryInv, IndexLeadsToLanguages
  <2>4. QED
    BY <2>2, <2>3
<1>10. QED
  BY <1>6, <1>7, <1>8, <1>9 DEF RegistryInv
-----------------------------------------------------------------------------
(* unregister *)

LEMMA UnregisterStep ==
  ASSUME RegistryInv, NEW k \in DOMAIN modules,
         modules' = Without(modules, k),
         directions' = FreeDirection(directions, modules[k]),
         retired' = retired \cup {modules[k]}
  PROVE  RegistryInv'
<1> DEFINE m == modules[k]
           old(i) == IF i < k THEN i ELSE i + 1
<1>1. /\ modules \in Seq(Modules) /\ Len(modules) \in Nat
      /\ directions \in [Directions \cup {NoDirection} -> {n.name : n \in Modules} \cup {None}]
      /\ retired \subseteq Modules
      /\ k \in 1..Len(modules)
      /\ \A i \in 1..Len(modules) : modules[i] \in Modules
  BY DEF RegistryInv, TypeOK
<1>2. /\ modules' \in Seq(Modules)
      /\ Len(modules') = Len(modules) - 1
      /\ \A i \in 1..(Len(modules) - 1) : modules'[i] = modules[old(i)]
  BY <1>1, WithoutFacts
<1>3. \A i \in 1..(Len(modules) - 1) : old(i) \in 1..Len(modules) /\ old(i) # k
  BY <1>1
<1>4. \A l \in 1..Len(modules) : l # k => \E i \in 1..(Len(modules) - 1) : old(i) = l
  <2>1. SUFFICES ASSUME NEW l \in 1..Len(modules), l # k
                 PROVE  \E i \in 1..(Len(modules) - 1) : old(i) = l
    OBVIOUS
  <2>2. CASE l < k
    <3>1. l \in 1..(Len(modules) - 1) /\ old(l) = l
      BY <1>1, <2>1, <2>2
    <3>2. QED
      BY <3>1
  <2>3. CASE l > k
    <3>1. l - 1 \in 1..(Len(modules) - 1) /\ old(l - 1) = l
      BY <1>1, <2>1, <2>3
    <3>2. QED
      BY <3>1
  <2>4. QED
    BY <1>1, <2>1, <2>2, <2>3
<1>5. \A i, j \in 1..(Len(modules) - 1) : old(i) = old(j) => i = j
  BY <1>1
<1>6. \A d \in Directions \cup {NoDirection} :
         directions'[d] = IF m.kind = "language" /\ directions[m.direction] = m.name
                             /\ d = m.direction
                          THEN None ELSE directions[d]
  BY <1>1, ModuleTypes DEF FreeDirection
<1>7. directions' \in [Directions \cup {NoDirection} -> {n.name : n \in Modules} \cup {None}]
  BY <1>1, ModuleTypes DEF FreeDirection
<1> HIDE DEF old
<1>8. TypeOK'
  BY <1>1, <1>2, <1>7 DEF TypeOK
<1>9. NamesUnique'
  <2>1. SUFFICES ASSUME NEW i \in 1..(Len(modules) - 1), NEW j \in 1..(Len(modules) - 1),
                        modules'[i].name = modules'[j].name
                 PROVE  i = j
    BY <1>2 DEF NamesUnique
  <2>2. old(i) = old(j)
    BY <1>1, <1>2, <1>3, <2>1 DEF RegistryInv, NamesUnique
  <2>3. QED
    BY <1>5, <2>2
<1>10. RegisteredAreIndexed'
  <2>1. SUFFICES ASSUME NEW i \in 1..(Len(modules) - 1), modules'[i].kind = "language"
                 PROVE  directions'[Strip(modules'[i].direction)] = modules'[i].name
    BY <1>2 DEF RegisteredAreIndexed
  <2>2. modules'[i] = modules[old(i)] /\ old(i) \in 1..Len(modules) /\ old(i) # k
    BY <1>2, <1>3
  <2>3. directions[Strip(modules[old(i)].direction)] = modules[old(i)].name
    BY <1>1, <2>1, <2>2 DEF RegistryInv, RegisteredAreIndexed
  <2>4. modules[old(i)].name # m.name
    BY <1>1, <2>2 DEF RegistryInv, NamesUnique
  <2>5. QED
    BY <1>1, <1>6, <2>2, <2>3, <2>4, ModuleTypes
<1>11. IndexLeadsToLanguages'
  <2>1. SUFFICES ASSUME NEW d \in Directions, directions'[d] # None
                 PROVE  \/ \E i \in DOMAIN modules' :
                             /\ modules'[i].kind = "language"
                             /\ modules'[i].name = directions'[d]
                             /\ Strip(modules'[i].direction) = d
                        \/ \E n \in retired' :
                             n.name = directions'[d] /\ Strip(n.direction) = d /\ n.direction.pad
    BY DEF IndexLeadsToLanguages
  <2>2. directions'[d] = directions[d] /\ directions[d] # None
    BY <1>6, <2>1
  <2>3. CASE \E n \in retired :
                n.name = directions[d] /\ Strip(n.direction) = d /\ n.direction.pad
    BY <2>2, <2>3
  <2>4. CASE \E l \in DOMAIN modules :
                /\ modules[l].kind = "language"
                /\ modules[l].name = directions[d] /\ Strip(modules[l].direction) = d
    <3>1. PICK l \in 1..Len(modules) :
                /\ modules[l].kind = "language"
                /\ modules[l].name = directions[d] /\ Strip(modules[l].direction) = d
      BY <1>1, <2>4
    <3>2. CASE l # k
      <4>1. PICK i \in 1..(Len(modules) - 1) : old(i) = l
        BY <1>4, <3>2
      <4>2. i \in DOMAIN modules' /\ modules'[i] = modules[l]
        BY <1>1, <1>2, <4>1
      <4>3. QED
        BY <2>2, <3>1, <4>2
    <3>3. CASE l = k
      <4>1. m.kind = "language" /\ m.name = directions[d] /\ Strip(m.direction) = d
        BY <3>1, <3>3
      <4>2. m.direction.pad
        <5>1. SUFFICES ASSUME ~m.direction.pad PROVE FALSE
          OBVIOUS
        <5>2. m.direction = d
          BY <1>1, <4>1, <5>1, StripTypes, ModuleTypes
        <5>3. QED
          BY <1>6, <2>1, <4>1, <5>2
      <4>3. QED
        BY <2>2, <4>1, <4>2
    <3>4. QED
      BY <3>2, <3>3
  <2>5. QED
    BY <2>2, <2>3, <2>4 DEF RegistryInv, IndexLeadsToLanguages
<1>12. QED
  BY <1>8, <1>9, <1>10, <1>11 DEF RegistryInv

LEMMA RegistryStutter == RegistryInv /\ UNCHANGED vars => RegistryInv'
  BY DEF RegistryInv, TypeOK, NamesUnique, RegisteredAreIndexed, IndexLeadsToLanguages, vars

LEMMA RegistryStep == RegistryInv /\ [Next]_vars => RegistryInv'
<1>1. SUFFICES ASSUME RegistryInv, [Next]_vars PROVE RegistryInv'
  OBVIOUS
<1>2. ASSUME NEW m \in Modules, Register(m) PROVE RegistryInv'
  <2>1. CASE Accepted(modules, directions, m)
    BY <1>1, <1>2, <2>1, RegisterStep
  <2>2. CASE ~Accepted(modules, directions, m)
    BY <1>1, <1>2, <2>2, RegistryStutter DEF Register
  <2>3. QED
    BY <2>1, <2>2
<1>3. ASSUME NEW m \in Modules, Unregister(m.name) PROVE RegistryInv'
  BY <1>1, <1>3, UnregisterStep, RegistryStutter DEF Unregister
<1>4. CASE UNCHANGED vars
  BY <1>1, <1>4, RegistryStutter
<1>5. QED
  BY <1>1, <1>2, <1>3, <1>4 DEF Next

LEMMA RegistryAlways == Spec => []RegistryInv
  BY RegistryInit, RegistryStep, PTL DEF Spec

-----------------------------------------------------------------------------
(* The kernel's selection. *)

LEMMA LeastPosition ==
  ASSUME NEW S, S \subseteq Nat, S # {}
  PROVE  First(S) \in S /\ \A k \in S : First(S) <= k
<1> DEFINE less == OpToRel(<, Nat)
<1> HIDE DEF less
<1>1. PICK k \in S : \A l \in S : <<l, k>> \notin less
  BY NatLessThanWellFounded, WFMin DEF less
<1>2. \A l \in S : k <= l
  <2>1. SUFFICES ASSUME NEW l \in S PROVE ~(l < k)
    BY <1>1
  <2>2. <<l, k>> \in Nat \X Nat
    OBVIOUS
  <2>3. QED
    BY <1>1, <2>2 DEF less, OpToRel
<1>3. QED
  BY <1>2 DEF First

\* A full match that no other precedes is what is selected.
LEMMA FirstFullMatch ==
  ASSUME NEW ms \in Seq(Modules), NEW pair
  PROVE  /\ FullMatches(ms, pair) # {} =>
              /\ First(FullMatches(ms, pair)) \in FullMatches(ms, pair)
              /\ \A l \in FullMatches(ms, pair) : First(FullMatches(ms, pair)) <= l
              /\ SelectModule(ms, pair) = ms[First(FullMatches(ms, pair))]
         /\ \A k \in FullMatches(ms, pair) :
              (\A l \in FullMatches(ms, pair) : k <= l) => SelectModule(ms, pair) = ms[k]
<1>1. FullMatches(ms, pair) \subseteq Nat
  BY DEF FullMatches
<1>2. FullMatches(ms, pair) # {} =>
        /\ First(FullMatches(ms, pair)) \in FullMatches(ms, pair)
        /\ \A l \in FullMatches(ms, pair) : First(FullMatches(ms, pair)) <= l
  BY <1>1, LeastPosition
<1>3. FullMatches(ms, pair) # {} => SelectModule(ms, pair) = ms[First(FullMatches(ms, pair))]
  BY DEF SelectModule
<1>4. ASSUME NEW k \in FullMatches(ms, pair), \A l \in FullMatches(ms, pair) : k <= l
      PROVE  SelectModule(ms, pair) = ms[k]
  <2>1. First(FullMatches(ms, pair)) = k
    BY <1>1, <1>2, <1>4
  <2>2. QED
    BY <1>3, <1>4, <2>1
<1>5. QED
  BY <1>2, <1>3, <1>4

Serves(pair) ==
    LET m == SelectModule(modules, pair) IN
    FullMatches(modules, pair) # {} /\ m.name \in Names(modules')
        => SelectModule(modules', pair) = m

LEMMA RegisterServes ==
  ASSUME RegistryInv, NEW m \in Modules, Accepted(modules, directions, m), Register(m), NEW pair
  PROVE  Serves(pair)
<1>1. modules \in Seq(Modules) /\ modules' = Append(modules, m)
  BY DEF RegistryInv, TypeOK, Register, vars
<1>2. /\ modules' \in Seq(Modules)
      /\ Len(modules) \in Nat
      /\ Len(modules') = Len(modules) + 1
      /\ \A i \in 1..Len(modules) : modules'[i] = modules[i]
  BY <1>1
<1>3. SUFFICES ASSUME FullMatches(modules, pair) # {}
               PROVE  SelectModule(modules', pair) = SelectModule(modules, pair)
  BY DEF Serves
<1> DEFINE k == First(FullMatches(modules, pair))
<1>4. /\ k \in FullMatches(modules, pair)
      /\ \A l \in FullMatches(modules, pair) : k <= l
      /\ SelectModule(modules, pair) = modules[k]
  BY <1>1, <1>3, FirstFullMatch
<1> HIDE DEF k
<1>5. k \in 1..Len(modules) /\ modules'[k] = modules[k]
  BY <1>1, <1>2, <1>4 DEF FullMatches
<1>6. k \in FullMatches(modules', pair)
  BY <1>2, <1>4, <1>5 DEF FullMatches
<1>7. \A l \in FullMatches(modules', pair) : k <= l
  <2>1. SUFFICES ASSUME NEW l \in FullMatches(modules', pair) PROVE k <= l
    OBVIOUS
  <2>2. l \in 1..(Len(modules) + 1)
    BY <1>2 DEF FullMatches
  <2>3. l \in 1..Len(modules) => l \in FullMatches(modules, pair)
    BY <1>1, <1>2 DEF FullMatches
  <2>4. QED
    BY <1>2, <1>4, <1>5, <2>2, <2>3
<1>8. QED
  BY <1>2, <1>4, <1>5, <1>6, <1>7, FirstFullMatch

LEMMA UnregisterServes ==
  ASSUME RegistryInv, NEW r \in DOMAIN modules, modules' = Without(modules, r), NEW pair
  PROVE  Serves(pair)
<1>1. /\ modules \in Seq(Modules) /\ Len(modules) \in Nat /\ r \in 1..Len(modules)
  BY DEF RegistryInv, TypeOK
<1>2. /\ modules' \in Seq(Modules)
      /\ Len(modules') = Len(modules) - 1
      /\ \A i \in 1..(Len(modules) - 1) :
            modules'[i] = IF i < r THEN modules[i] ELSE modules[i + 1]
  BY <1>1, WithoutFacts
<1> DEFINE k == First(FullMatches(modules, pair))
<1>3. SUFFICES ASSUME FullMatches(modules, pair) # {},
                      SelectModule(modules, pair).name \in Names(modules')
               PROVE  SelectModule(modules', pair) = SelectModule(modules, pair)
  BY DEF Serves
<1>4. /\ k \in FullMatches(modules, pair)
      /\ \A l \in FullMatches(modules, pair) : k <= l
      /\ SelectModule(modules, pair) = modules[k]
  BY <1>1, <1>3, FirstFullMatch
<1> HIDE DEF k
<1>5. k \in 1..Len(modules)
  BY <1>1, <1>4 DEF FullMatches
<1>6. k # r
  <2>1. SUFFICES ASSUME k = r PROVE FALSE
    OBVIOUS
  <2>2. PICK i \in 1..(Len(modules) - 1) : modules'[i].name = modules[r].name
    BY <1>2, <1>3, <1>4, <2>1 DEF Names
  <2>3. \E j \in 1..Len(modules) : j # r /\ modules[j].name = modules[r].name
    <3>1. CASE i < r
      <4>1. i \in 1..Len(modules) /\ i # r
        BY <1>1, <3>1
      <4>2. modules'[i] = modules[i]
        BY <1>2, <3>1
      <4>3. QED
        BY <2>2, <4>1, <4>2
    <3>2. CASE ~(i < r)
      <4>1. i + 1 \in 1..Len(modules) /\ i + 1 # r
        BY <1>1, <3>2
      <4>2. QED
        BY <1>2, <2>2, <3>2, <4>1
    <3>3. QED
      BY <3>1, <3>2
  <2>4. QED
    BY <1>1, <2>3 DEF RegistryInv, NamesUnique
<1> DEFINE j == IF k < r THEN k ELSE k - 1
<1>7. j \in 1..(Len(modules) - 1) /\ modules'[j] = modules[k]
  BY <1>1, <1>2, <1>5, <1>6
<1> HIDE DEF j
<1>8. j \in FullMatches(modules', pair)
  BY <1>2, <1>4, <1>7 DEF FullMatches
<1>9. \A l \in FullMatches(modules', pair) : j <= l
  <2>1. SUFFICES ASSUME NEW l \in FullMatches(modules', pair) PROVE j <= l
    OBVIOUS
  <2>2. l \in 1..(Len(modules) - 1)
    BY <1>1, <1>2 DEF FullMatches
  <2>3. CASE l < r
    <3>1. l \in FullMatches(modules, pair)
      BY <1>1, <1>2, <2>2, <2>3 DEF FullMatches
    <3>2. QED
      BY <1>1, <1>4, <1>5, <2>2, <2>3, <3>1 DEF j
  <2>4. CASE ~(l < r)
    <3>1. modules'[l] = modules[l + 1] /\ l + 1 \in 1..Len(modules)
      BY <1>1, <1>2, <2>2, <2>4
    <3>2. l + 1 \in FullMatches(modules, pair)
      BY <1>1, <1>2, <3>1 DEF FullMatches
    <3>3. k <= l + 1
      BY <1>4, <3>2
    <3>4. QED
      BY <1>1, <1>5, <1>6, <2>2, <2>4, <3>3 DEF j
  <2>5. QED
    BY <2>3, <2>4
<1>10. QED
  BY <1>2, <1>4, <1>7, <1>8, <1>9, FirstFullMatch

LEMMA ServesStep == RegistryInv /\ [Next]_vars => \A pair \in Pairs : Serves(pair)
<1>1. SUFFICES ASSUME RegistryInv, [Next]_vars, NEW pair \in Pairs PROVE Serves(pair)
  OBVIOUS
<1>2. UNCHANGED modules => Serves(pair)
  BY DEF Serves
<1>3. ASSUME NEW m \in Modules, Register(m) PROVE Serves(pair)
  <2>1. CASE Accepted(modules, directions, m)
    BY <1>1, <1>3, <2>1, RegisterServes
  <2>2. CASE ~Accepted(modules, directions, m)
    BY <1>2, <1>3, <2>2 DEF Register, vars
  <2>3. QED
    BY <2>1, <2>2
<1>4. ASSUME NEW m \in Modules, Unregister(m.name) PROVE Serves(pair)
  BY <1>1, <1>2, <1>4, UnregisterServes DEF Unregister, vars
<1>5. QED
  BY <1>1, <1>2, <1>3, <1>4 DEF Next, vars

LEMMA PairFacts ==
  \A pair \in Pairs :
     /\ pair.src # ""
     /\ ~SameDirection(NoDirection, pair)
<1>1. SUFFICES ASSUME NEW v \in Values, NormalizePair(v) # NoDirection
               PROVE  /\ NormalizePair(v).src # ""
                      /\ ~SameDirection(NoDirection, NormalizePair(v))
  BY DEF Pairs
<1>2. NormalizePair(v).src # ""
  BY <1>1 DEF NormalizePair
<1>3. /\ Lower(Strip(NormalizePair(v))).src = NormalizePair(v).src
      /\ Lower(Strip(NoDirection)).src = ""
  BY DEF Lower, Strip, NoDirection
<1>4. QED
  BY <1>2, <1>3 DEF SameDirection

LEMMA SelectionIsBest == TypeOK => BestMatchServes
<1>1. SUFFICES ASSUME TypeOK, NEW pair \in Pairs
               PROVE  LET m == SelectModule(modules, pair)
                          offered == {modules[k] : k \in {j \in DOMAIN modules :
                                                         modules[j].kind = "language"}}
                      IN  /\ (\E n \in offered : SameDirection(n.direction, pair))
                               => SameDirection(m.direction, pair)
                          /\ m.direction.src # pair.src
                               => \A n \in offered : n.direction.src # pair.src
  BY DEF BestMatchServes
<1> DEFINE m == SelectModule(modules, pair)
           offered == {modules[k] : k \in {j \in DOMAIN modules : modules[j].kind = "language"}}
<1>2. modules \in Seq(Modules)
  BY <1>1 DEF TypeOK
<1>3. \A d : SameDirection(d, pair) => d.src = pair.src
  <2>1. \A d : Lower(Strip(d)).src = d.src
    BY DEF Lower, Strip
  <2>2. QED
    BY <2>1 DEF SameDirection
<1>4. CASE FullMatches(modules, pair) # {}
  <2>1. SameDirection(m.direction, pair)
    BY <1>2, <1>4, FirstFullMatch DEF FullMatches
  <2>2. QED
    BY <1>3, <2>1
<1>5. CASE FullMatches(modules, pair) = {}
  <2>1. \A n \in offered : ~SameDirection(n.direction, pair)
    BY <1>5, PairFacts DEF FullMatches
  <2>2. CASE SourceMatches(modules, pair) # {}
    <3>1. SourceMatches(modules, pair) \subseteq Nat
      <4>1. DOMAIN modules \subseteq Nat
        BY <1>2
      <4>2. SourceMatches(modules, pair) \subseteq DOMAIN modules
        BY DEF SourceMatches
      <4>3. QED
        BY <4>1, <4>2
    <3>2. First(SourceMatches(modules, pair)) \in SourceMatches(modules, pair)
      BY <2>2, <3>1, LeastPosition
    <3>3. m = modules[First(SourceMatches(modules, pair))]
      BY <1>5, <2>2 DEF SelectModule
    <3>4. m.direction.src = pair.src
      BY <3>2, <3>3 DEF SourceMatches
    <3>5. QED
      BY <2>1, <3>4
  <2>3. CASE SourceMatches(modules, pair) = {}
    <3>1. \A n \in offered : n.direction.src # pair.src
      BY <2>3, PairFacts DEF SourceMatches
    <3>2. QED
      BY <2>1, <3>1
  <2>4. QED
    BY <2>2, <2>3
<1>6. QED
  BY <1>4, <1>5

-----------------------------------------------------------------------------
(* The theorems. *)

\* The variables keep their types.
THEOREM RegistryTypes == Spec => []TypeOK
<1>1. RegistryInv => TypeOK
  BY DEF RegistryInv
<1>2. QED
  BY <1>1, RegistryAlways, PTL

\* Every registered language module is the one its direction leads to: no two
\* have the same direction up to outer blanks (register).
THEOREM RegistryIndexed == Spec => []RegisteredAreIndexed
<1>1. RegistryInv => RegisteredAreIndexed
  BY DEF RegistryInv
<1>2. QED
  BY <1>1, RegistryAlways, PTL

\* A direction leads to a registered module, or to one that was removed and
\* had been registered with outer blanks (unregister).
THEOREM RegistryIndex == Spec => []IndexLeadsToModules
<1>1. RegistryInv => IndexLeadsToModules
  BY DEF RegistryInv, IndexLeadsToLanguages, IndexLeadsToModules
<1>2. QED
  BY <1>1, RegistryAlways, PTL

\* No registration takes a pair over from the module that serves it by full
\* match, and no removal but that module's own (_select_module).
THEOREM RegistryServes == Spec => ServedUntilRemoved
<1>1. RegistryInv /\ [Next]_vars =>
        [\A pair \in Pairs :
           LET m == SelectModule(modules, pair) IN
           FullMatches(modules, pair) # {} /\ m.name \in Names(modules')
               => SelectModule(modules', pair) = m]_vars
  BY ServesStep DEF Serves
<1>2. QED
  BY <1>1, RegistryAlways, PTL DEF Spec, ServedUntilRemoved

\* A pair is served by a module of its direction, failing that of its source
\* language, whenever one is registered (_select_module).
THEOREM RegistryBest == Spec => []BestMatchServes
  BY RegistryTypes, SelectionIsBest, PTL
=============================================================================
