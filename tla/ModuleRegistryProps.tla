------------------------- MODULE ModuleRegistryProps -------------------------
(* What the module registry keeps true whatever callers register and remove. *)
EXTENDS ModuleRegistry

\* The types of the variables.
TypeOK ==
    /\ modules \in Seq(Modules)
    /\ directions \in [Directions \cup {NoDirection} -> {m.name : m \in Modules} \cup {None}]
    /\ retired \subseteq Modules

\* Name is a key: two registered modules have different names.
NamesUnique ==
    \A k, l \in DOMAIN modules : modules[k].name = modules[l].name => k = l

\* Every registered language module is the one its direction leads to, so no
\* two of them have the same direction up to outer blanks (TRA-098).
RegisteredAreIndexed ==
    \A k \in DOMAIN modules : modules[k].kind = "language" =>
        directions[Strip(modules[k].direction)] = modules[k].name

\* A direction leads to a registered module, unless the module it leads to was
\* removed and had been registered under another spelling than its own: only
\* outer blanks in the metadata can leave a dead entry in the index.
IndexLeadsToModules ==
    \A d \in Directions : directions[d] # None =>
        \/ \E k \in DOMAIN modules :
             modules[k].name = directions[d] /\ Strip(modules[k].direction) = d
        \/ \E m \in retired :
             m.name = directions[d] /\ Strip(m.direction) = d /\ m.direction.pad

\* Unregistering releases the direction: it can be registered again
\* (TRA-098, "Clean up direction index").
RemovedFreesDirection ==
    \A d \in Directions : directions[d] # None => directions[d] \in Names(modules)

\* "Only one module per direction is allowed": no two registered modules match
\* the same requested pair.
OneModulePerDirection ==
    \A v \in Values : \A k, l \in FullMatches(modules, NormalizePair(v)) : k = l

Pairs == {NormalizePair(v) : v \in Values} \ {NoDirection}

\* The module that serves a pair by full match goes on serving it until it is
\* removed: no later registration takes the pair over (_select_module prefers
\* the full match, TRA-F4-007, and looks in insertion order).
ServedUntilRemoved ==
    [][\A pair \in Pairs :
         LET m == SelectModule(modules, pair) IN
         FullMatches(modules, pair) # {} /\ m.name \in Names(modules')
             => SelectModule(modules', pair) = m]_vars

\* A pair is served by a module of exactly that direction whenever one is
\* registered, and by a module of another source language only when no
\* registered one has the source language asked for.
BestMatchServes ==
    \A pair \in Pairs :
        LET m == SelectModule(modules, pair)
            offered == {modules[k] : k \in {j \in DOMAIN modules : modules[j].kind = "language"}}
        IN  /\ (\E n \in offered : SameDirection(n.direction, pair))
                 => SameDirection(m.direction, pair)
            /\ m.direction.src # pair.src => \A n \in offered : n.direction.src # pair.src
=============================================================================
