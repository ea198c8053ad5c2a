--------------------------- MODULE ModuleRegistry ---------------------------
(* The registry of language modules (modules/registry.py), what the kernel   *)
(* selects from it (_select_module) for a pair the command line has written. *)
(*                                                                           *)
(* A direction is text such as "ZH -> EN".  The code compares directions     *)
(* after strip() (registration), after strip().lower() (selection) or as     *)
(* they are (unregister), so a direction is a record of its two languages    *)
(* and of what these conversions remove: outer blanks, upper case.  "tight"  *)
(* says that the arrow has no blanks around it, which nothing removes.       *)
EXTENDS CommandLine, Sequences

CONSTANTS Langs,      \* languages a direction may name
          Modules,    \* modules a caller may register
          Values      \* values of --lang and of language_pair

None == "none"

Directions ==
    [src : Langs, tgt : Langs, pad : BOOLEAN, upper : BOOLEAN, tight : BOOLEAN]

Strip(d) == [src |-> d.src, tgt |-> d.tgt, pad |-> FALSE, upper |-> d.upper, tight |-> d.tight]
Lower(d) == [src |-> d.src, tgt |-> d.tgt, pad |-> d.pad, upper |-> FALSE, tight |-> d.tight]

\* The fields of a ModuleInterface the registry looks at: complete says that
\* it has every method of LanguageModuleProtocol, style what
\* get_style_profile() does.
ModuleRecords ==
    [name : STRING, kind : {"language", "domain"},
     direction : Directions \cup {NoDirection},
     complete : BOOLEAN, style : {"profile", "none", "raises"}]

\* The bundled module, as as_interface() presents it.
ZHEN == [name |-> "zh-en", kind |-> "language",
         direction |-> [src |-> "zh", tgt |-> "en", pad |-> FALSE, upper |-> TRUE,
                        tight |-> FALSE],
         complete |-> TRUE, style |-> "profile"]

ASSUME RegistryAssumption ==
    /\ Modules \subseteq ModuleRecords
    /\ ZHEN \in Modules
    /\ {"zh", "en"} \subseteq Langs
    /\ "" \notin Langs
    /\ \A m \in Modules : m.name # None

VARIABLES
    modules,      \* _modules: the registered modules in insertion order
    directions,   \* _directions: per stripped direction a module name, or None
    retired       \* the modules unregistered so far

vars == <<modules, directions, retired>>

Names(ms) == {ms[k].name : k \in DOMAIN ms}

-----------------------------------------------------------------------------
(* register and unregister                                                   *)

\* What register refuses, in the order it looks: an incomplete interface or a
\* style profile it cannot use (TypeError), ...
HasInterface(m) == m.complete /\ m.style = "profile"

NameTaken(ms, m) == m.name \in Names(ms)

DirectionTaken_raw(ds, m) == m.direction \in Directions /\ ds[m.direction] # None
\* ... a name already there, a language module without a direction or with one
\* that is taken (ValueError).
DirectionTaken(ds, m) == ds[Strip(m.direction)] # None

Accepted(ms, ds, m) ==
    /\ HasInterface(m)
    /\ ~NameTaken(ms, m)
    /\ m.kind = "language" => /\ Strip(m.direction) # NoDirection
                              /\ ~DirectionTaken(ds, m)

Register(m) ==
    \/ /\ Accepted(modules, directions, m)
       /\ directions' = IF m.kind = "language"
                        THEN [directions EXCEPT ![Strip(m.direction)] = m.name]
                        ELSE directions
       /\ modules' = Append(modules, m)
       /\ UNCHANGED retired
    \/ ~Accepted(modules, directions, m) /\ UNCHANGED vars

Without(ms, k) == SubSeq(ms, 1, k - 1) \o SubSeq(ms, k + 1, Len(ms))

FreeDirection_never(ds, m) == ds
\* The index entry goes if the direction, as the module spells it, leads to
\* this module.
FreeDirection(ds, m) ==
    IF m.kind = "language" /\ ds[m.direction] = m.name
    THEN [ds EXCEPT ![m.direction] = None] ELSE ds

\* KeyError for a name that is not there.
Unregister(name) ==
    \/ \E k \in DOMAIN modules :
         /\ modules[k].name = name
         /\ modules' = Without(modules, k)
         /\ directions' = FreeDirection(directions, modules[k])
         /\ retired' = retired \cup {modules[k]}
    \/ name \notin Names(modules) /\ UNCHANGED vars

-----------------------------------------------------------------------------
(* Registries the code builds                                                *)

\* build_default_registry
DefaultModules == <<ZHEN>>

\* registry_for_language_pair: the modules of the default registry (there is
\* one) whose source language is that of the pair; all of them for a pair
\* without an arrow.
ScopedModules(pair) ==
    IF pair = NoDirection \/ pair.src = ZHEN.direction.src THEN DefaultModules ELSE <<>>

IndexOf(ms) ==
    [d \in Directions \cup {NoDirection} |->
        IF \E k \in DOMAIN ms : ms[k].kind = "language" /\ Strip(ms[k].direction) = d
        THEN ms[CHOOSE k \in DOMAIN ms : ms[k].kind = "language" /\ Strip(ms[k].direction) = d].name
        ELSE None]

-----------------------------------------------------------------------------
(* The kernel's selection                                                    *)

\* Directions are compared stripped and in lower case.
SameDirection(d, e) == Lower(Strip(d)) = Lower(Strip(e))

FullMatches(ms, pair) ==
    {k \in DOMAIN ms : ms[k].kind = "language" /\ ms[k].direction # NoDirection
                       /\ SameDirection(ms[k].direction, pair)}

SourceMatches(ms, pair) ==
    {k \in DOMAIN ms : ms[k].kind = "language" /\ pair.src # ""
                       /\ ms[k].direction.src = pair.src}

First(S) == CHOOSE k \in S : \A l \in S : k <= l
Last(S)  == CHOOSE k \in S : \A l \in S : l <= k

SelectModule_last(ms, pair) ==
    IF FullMatches(ms, pair) # {} THEN ms[Last(FullMatches(ms, pair))]
    ELSE IF SourceMatches(ms, pair) # {} THEN ms[Last(SourceMatches(ms, pair))]
    ELSE ZHEN

SelectModule_by_source(ms, pair) ==
    IF SourceMatches(ms, pair) # {} THEN ms[First(SourceMatches(ms, pair))] ELSE ZHEN

\* The first full match in insertion order; else the first module with the
\* same source language; else the bundled module, whatever the pair.
SelectModule(ms, pair) ==
    IF FullMatches(ms, pair) # {} THEN ms[First(FullMatches(ms, pair))]
    ELSE IF SourceMatches(ms, pair) # {} THEN ms[First(SourceMatches(ms, pair))]
    ELSE ZHEN

-----------------------------------------------------------------------------

Init ==
    /\ \E pair \in {NormalizePair(v) : v \in Values} :
         modules \in {<<>>, DefaultModules, ScopedModules(pair)}
    /\ directions = IndexOf(modules)
    /\ retired = {}

Next ==
    \/ \E m \in Modules : Register(m)
    \/ \E m \in Modules : Unregister(m.name)

Spec == Init /\ [][Next]_vars
=============================================================================
